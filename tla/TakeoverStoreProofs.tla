------------------------ MODULE TakeoverStoreProofs ------------------------
(***************************************************************************)
(* The store keeps sessions and grants in step, for any number of users,   *)
(* e-mails, grants and slots and any time limits.  The invariants the runs *)
(* check are not inductive one by one: that re-pinning leaves no grant of  *)
(* the old owner open needs every open grant to belong to a session in a   *)
(* takeover, that a sweep closes all of a session's open grants needs at   *)
(* most one to be open, and that needs the epochs.  IInv is their          *)
(* conjunction with three facts about rows that do not exist.              *)
(***************************************************************************)
EXTENDS TakeoverStore, TLAPS

\* A row of grants names a user; only such rows have a status.
GrantsNamed == \A g \in Grant : grant[g].status # "UNISSUED" => grant[g].user \in User

\* A user without a row in profiles has no e-mail either.
UnprovisionedEmpty == \A u \in User : ~Provisioned(u) => profile[u].email = None

\* A user without a row in sessions is at epoch 0, so no grant is theirs.
AbsentAtZero == \A u \in User : session[u].state = "ABSENT" => session[u].epoch = 0

GrantInv ==
    /\ GrantsNamed
    /\ AbsentAtZero
    /\ GrantMatchesControl
    /\ GrantEpochs

ProfileInv ==
    /\ UnprovisionedEmpty
    /\ OwnerIsPinned
    /\ ProfilesApart

IInv == TypeOK /\ GrantInv /\ ProfileInv

-----------------------------------------------------------------------------
(* At most one grant of a session is open. *)

LEMMA OneOpen ==
    ASSUME TypeOK, GrantInv,
           NEW g \in Grant, NEW h \in Grant,
           grant[g].status \in Open, grant[h].status \in Open,
           grant[g].user = grant[h].user
    PROVE  g = h
<1>1. Governs(g) /\ Governs(h)
    BY DEF GrantInv, GrantMatchesControl, WaitingOn, ActiveUnder, Open
<1>2. grant[g].epoch = grant[h].epoch
    BY <1>1 DEF Governs
<1>3. g \in Issued /\ h \in Issued
    BY DEF Issued, Open
<1> QED
    BY <1>2, <1>3 DEF GrantInv, GrantEpochs

\* A user without a session has no grant, open or closed.
LEMMA AbsentHasNoGrant ==
    ASSUME TypeOK, GrantInv, NEW g \in Grant, grant[g].status # "UNISSUED"
    PROVE  session[grant[g].user].state # "ABSENT"
<1>1. grant[g].user \in User /\ grant[g].status \in Open \cup Closed /\ grant[g].epoch \in Nat
    BY DEF GrantInv, GrantsNamed, TypeOK, GrantRow, GrantStatus
<1>2. CASE grant[g].status \in Open
    BY <1>2 DEF GrantInv, GrantMatchesControl, WaitingOn, ActiveUnder, Open
<1>3. CASE grant[g].status \in Closed
    BY <1>1, <1>3 DEF GrantInv, GrantEpochs, AbsentAtZero
<1> QED
    BY <1>1, <1>2, <1>3

\* The sessions in W leave their takeovers and the grants in G, all that were
\* open for them, are closed: every way out of a takeover is an instance.  The
\* users in N, who have no session, may get one in the same step.
LEMMA ClosingKeepsGrants ==
    ASSUME TypeOK, GrantInv,
           NEW W \in SUBSET User, NEW N \in SUBSET User, NEW G \in SUBSET Grant, NEW status \in Closed,
           \A u \in W : session[u].state \in TakeoverState,
           \A g \in Grant : g \in G <=> grant[g].status \in Open /\ grant[g].user \in W,
           \A u \in N : session[u].state = "ABSENT",
           session' = [u \in User |-> IF u \in N THEN [state |-> "AGENT_ACTIVE", epoch |-> 1]
                                      ELSE ReturnControl(W)[u]],
           grant' = Mark(G, status)
    PROVE  /\ session' \in [User -> Session]
           /\ grant' \in [Grant -> GrantRow]
           /\ GrantInv'
           /\ \A g \in Grant : grant'[g].status \in Open => grant'[g] = grant[g]
<1>1. session' \in [User -> Session]
    BY DEF TypeOK, ReturnControl, Session, SessionState, TakeoverState
<1>2. grant' \in [Grant -> GrantRow]
    BY DEF TypeOK, Mark, GrantRow, GrantStatus
<1>3. \A g \in Grant :
        /\ grant'[g].user = grant[g].user
        /\ grant'[g].epoch = grant[g].epoch
        /\ g \in G => grant'[g].status = status
        /\ g \notin G => grant'[g] = grant[g]
    BY DEF Mark, TypeOK, GrantRow
<1>4. \A u \in User :
        /\ u \in W => session'[u].state = "READY_TO_RESUME"
                      /\ session'[u].epoch = session[u].epoch + 1
        /\ u \notin W /\ u \notin N => session'[u] = session[u]
        /\ u \in N => session'[u].state = "AGENT_ACTIVE"
    <2>1. \A u \in W : u \notin N
        BY DEF TakeoverState
    <2> QED
        BY <2>1 DEF ReturnControl
<1>5. \A g \in Grant : grant[g].status # "UNISSUED" => grant[g].user \in User \ N
    BY AbsentHasNoGrant DEF GrantInv, GrantsNamed
<1>6. AbsentAtZero'
    BY <1>4 DEF GrantInv, AbsentAtZero
<1>7. GrantsNamed'
    BY <1>3 DEF GrantInv, GrantsNamed, Open, Closed
<1>8. ASSUME NEW g \in Grant, grant'[g].status \in Open
      PROVE  g \notin G /\ grant'[g] = grant[g] /\ grant[g].user \in User \ (W \cup N)
    <2>1. g \notin G
        BY <1>3, <1>8 DEF Open, Closed
    <2> QED
        BY <2>1, <1>3, <1>8, <1>5 DEF Open
<1>9. GrantMatchesControl'
    <2>1. ASSUME NEW g \in Grant, grant'[g].status = "ISSUED"
          PROVE  WaitingOn(g)'
        BY <2>1, <1>4, <1>8 DEF GrantInv, GrantMatchesControl, WaitingOn, Governs, Open
    <2>2. ASSUME NEW g \in Grant, grant'[g].status = "REDEEMED"
          PROVE  ActiveUnder(g)'
        BY <2>2, <1>4, <1>8 DEF GrantInv, GrantMatchesControl, ActiveUnder, Governs, Open
    <2>3. ASSUME NEW u \in User, session'[u].state \in TakeoverState
          PROVE  \E g \in Grant : g \in OpenGrants(u)'
        <3>1. u \notin W /\ u \notin N /\ session'[u] = session[u]
            BY <2>3, <1>4 DEF TakeoverState
        <3>2. PICK g \in Grant : g \in OpenGrants(u)
            BY <2>3, <3>1 DEF GrantInv, GrantMatchesControl
        <3>3. g \notin G
            BY <3>1, <3>2 DEF OpenGrants
        <3> QED
            BY <3>2, <3>3, <1>3 DEF OpenGrants
    <2> QED
        BY <2>1, <2>2, <2>3 DEF GrantMatchesControl
<1>10. GrantEpochs'
    <2>1. ASSUME NEW g \in Grant, grant'[g].status \in Closed
          PROVE  grant'[g].epoch < session'[grant'[g].user].epoch
        <3>1. grant[g].user \in User /\ grant[g].status # "UNISSUED"
            BY <2>1, <1>3 DEF GrantInv, GrantsNamed, Open, Closed
        <3>2. grant[g].epoch \in Nat /\ session[grant[g].user].epoch \in Nat
            BY <3>1 DEF TypeOK, GrantRow, Session
        <3>3. CASE g \in G
            <4>1. Governs(g) /\ grant[g].user \in W
                BY <3>3 DEF GrantInv, GrantMatchesControl, WaitingOn, ActiveUnder, Open
            <4> QED
                BY <4>1, <3>1, <3>2, <1>3, <1>4, <1>5 DEF Governs
        <3>4. CASE g \notin G
            <4>1. grant[g].status \in Closed /\ grant[g].epoch < session[grant[g].user].epoch
                BY <2>1, <3>4, <1>3 DEF GrantInv, GrantEpochs
            <4> QED
                BY <4>1, <3>1, <3>2, <1>3, <1>4, <1>5
        <3> QED
            BY <3>3, <3>4
    <2>2. Issued' \subseteq Issued
        BY <1>3 DEF Issued, Open, Closed
    <2>3. ASSUME NEW g \in Issued', NEW h \in Issued', g # h, grant'[g].user = grant'[h].user
          PROVE  grant'[g].epoch # grant'[h].epoch
        BY <2>2, <2>3, <1>3 DEF GrantInv, GrantEpochs, Issued
    <2> QED
        BY <2>1, <2>3 DEF GrantEpochs
<1> QED
    BY <1>1, <1>2, <1>7, <1>8, <1>9, <1>10, <1>6 DEF GrantInv

\* The same without a new session.
LEMMA ClosingOnlyKeepsGrants ==
    ASSUME TypeOK, GrantInv,
           NEW W \in SUBSET User, NEW G \in SUBSET Grant, NEW status \in Closed,
           \A u \in W : session[u].state \in TakeoverState,
           \A g \in Grant : g \in G <=> grant[g].status \in Open /\ grant[g].user \in W,
           session' = ReturnControl(W),
           grant' = Mark(G, status)
    PROVE  /\ session' \in [User -> Session]
           /\ grant' \in [Grant -> GrantRow]
           /\ GrantInv'
           /\ \A g \in Grant : grant'[g].status \in Open => grant'[g] = grant[g]
<1> DEFINE N == {}
<1>1. N \in SUBSET User /\ \A u \in N : session[u].state = "ABSENT"
    OBVIOUS
<1>2. session' = [u \in User |-> IF u \in N THEN [state |-> "AGENT_ACTIVE", epoch |-> 1]
                                 ELSE ReturnControl(W)[u]]
    BY DEF ReturnControl
<1> HIDE DEF N
<1> QED
    BY <1>1, <1>2, ClosingKeepsGrants

\* Grants that are not touched, or only closed, keep their pinned owner as long
\* as the profiles of the open ones do not change.
LEMMA ClosingKeepsProfiles ==
    ASSUME TypeOK, GrantInv, ProfileInv, UNCHANGED profile,
           \A g \in Grant : grant'[g].status \in Open => grant'[g] = grant[g]
    PROVE  ProfileInv'
BY DEF ProfileInv, UnprovisionedEmpty, OwnerIsPinned, ProfilesApart, Provisioned

\* Both facts together, for the actions that only close grants.
LEMMA Closing ==
    ASSUME IInv,
           NEW W \in SUBSET User, NEW G \in SUBSET Grant, NEW status \in Closed,
           \A u \in W : session[u].state \in TakeoverState,
           \A g \in Grant : g \in G <=> grant[g].status \in Open /\ grant[g].user \in W,
           session' = ReturnControl(W),
           grant' = Mark(G, status),
           UNCHANGED <<now, profile>>
    PROVE  IInv'
<1>1. /\ session' \in [User -> Session]
      /\ grant' \in [Grant -> GrantRow]
      /\ GrantInv'
      /\ \A g \in Grant : grant'[g].status \in Open => grant'[g] = grant[g]
    BY ClosingOnlyKeepsGrants DEF IInv
<1>2. ProfileInv'
    BY <1>1, ClosingKeepsProfiles DEF IInv
<1>3. TypeOK'
    BY <1>1 DEF IInv, TypeOK
<1> QED
    BY <1>1, <1>2, <1>3 DEF IInv

\* What a sweep selects is all that is open for the sessions it selects.
LEMMA SweepSelects ==
    ASSUME IInv, NEW G \in SUBSET (StaleLinks \cup PastDeadline)
    PROVE  /\ G \in SUBSET Grant
           /\ Owners(G) \in SUBSET User
           /\ \A u \in Owners(G) : session[u].state \in TakeoverState
           /\ \A g \in Grant : g \in G <=> grant[g].status \in Open /\ grant[g].user \in Owners(G)
<1>1. G \in SUBSET Grant
    BY DEF StaleLinks, PastDeadline
<1>2. \A g \in G : /\ grant[g].status \in Open
                   /\ grant[g].user \in User
                   /\ session[grant[g].user].state \in TakeoverState
    BY DEF IInv, GrantInv, GrantsNamed, StaleLinks, PastDeadline, WaitingOn, ActiveUnder,
           Open, TakeoverState
<1>3. ASSUME NEW g \in Grant, grant[g].status \in Open, grant[g].user \in Owners(G)
      PROVE  g \in G
    <2>1. PICK h \in G : grant[h].user = grant[g].user
        BY <1>3 DEF Owners
    <2>2. h \in Grant /\ grant[h].status \in Open
        BY <1>1, <1>2
    <2>3. h = g
        BY <2>1, <2>2, <1>3, OneOpen DEF IInv
    <2> QED
        BY <2>3
<1> QED
    BY <1>1, <1>2, <1>3 DEF Owners

-----------------------------------------------------------------------------
(* One lemma per kind of step. *)

LEMMA InitIInv == Init => IInv
<1> SUFFICES ASSUME Init PROVE IInv
    OBVIOUS
<1>1. TypeOK
    BY DEF Init, TypeOK, NoProfile, NoSession, NoGrant, Profile, Session, GrantRow,
           SessionState, GrantStatus
<1>2. /\ \A u \in User : profile[u] = NoProfile /\ session[u] = NoSession
      /\ \A g \in Grant : grant[g] = NoGrant
    BY DEF Init
<1>3. GrantInv
    BY <1>2 DEF GrantInv, GrantsNamed, AbsentAtZero, GrantMatchesControl, GrantEpochs, Issued,
                NoGrant, NoSession, TakeoverState, Closed
<1>4. ProfileInv
    BY <1>2 DEF ProfileInv, UnprovisionedEmpty, OwnerIsPinned, ProfilesApart, Provisioned,
                NoGrant, NoProfile, Open
<1> QED
    BY <1>1, <1>3, <1>4 DEF IInv

LEMMA ProvisionNewStep ==
    ASSUME IInv, NEW u \in User, NEW e \in Email \cup {None}, ProvisionNew(u, e)
    PROVE  IInv'
<1>1. PICK s \in Slot :
        /\ \A w \in User : profile[w].slot # s
        /\ profile' = [profile EXCEPT ![u] = [slot |-> s, email |-> e]]
    BY DEF ProvisionNew
<1>2. /\ ~Provisioned(u)
      /\ e # None => \A w \in User : profile[w].email # e
      /\ UNCHANGED <<now, session, grant>>
    BY DEF ProvisionNew
<1>3. /\ profile' \in [User -> Profile]
      /\ profile'[u] = [slot |-> s, email |-> e]
      /\ \A w \in User : w # u => profile'[w] = profile[w]
    BY <1>1 DEF IInv, TypeOK, Profile
<1>4. TypeOK'
    BY <1>2, <1>3 DEF IInv, TypeOK
<1>5. GrantInv'
    BY <1>2 DEF IInv, GrantInv, GrantsNamed, AbsentAtZero, GrantMatchesControl, GrantEpochs,
                Issued, WaitingOn, ActiveUnder, Governs, OpenGrants
<1>6. s # None
    BY StoreAssumption DEF Slot
<1>7. \A g \in Grant : grant[g].status \in Open => grant[g].user \in User \ {u}
    BY <1>2 DEF IInv, GrantInv, GrantsNamed, ProfileInv, UnprovisionedEmpty, OwnerIsPinned, Open
<1>8. OwnerIsPinned'
    BY <1>2, <1>3, <1>7 DEF IInv, ProfileInv, OwnerIsPinned
<1>9. UnprovisionedEmpty' /\ ProfilesApart'
    BY <1>1, <1>2, <1>3, <1>6
       DEF IInv, ProfileInv, UnprovisionedEmpty, ProfilesApart, Provisioned
<1> QED
    BY <1>4, <1>5, <1>8, <1>9 DEF IInv, ProfileInv

LEMMA RepinStep ==
    ASSUME IInv, NEW u \in User, NEW e \in Email \cup {None}, Repin(u, e)
    PROVE  IInv'
<1> DEFINE pinned == IF e = None THEN profile[u].email ELSE e
<1> DEFINE W == IF pinned # profile[u].email /\ session[u].state \in TakeoverState
                THEN {u} ELSE {}
<1> DEFINE G == {g \in OpenGrants(u) : u \in W}
<1>1. /\ Provisioned(u)
      /\ pinned # None => \A w \in User \ {u} : profile[w].email # pinned
      /\ profile' = [profile EXCEPT ![u].email = pinned]
      /\ session' = ReturnControl(W)
      /\ grant' = Mark(G, "REVOKED")
      /\ now' = now
    BY DEF Repin
<1>2. /\ W \in SUBSET User
      /\ G \in SUBSET Grant
      /\ \A w \in W : session[w].state \in TakeoverState
      /\ \A g \in Grant : g \in G <=> grant[g].status \in Open /\ grant[g].user \in W
    BY DEF OpenGrants
<1>3. /\ session' \in [User -> Session]
      /\ grant' \in [Grant -> GrantRow]
      /\ GrantInv'
      /\ \A g \in Grant : grant'[g].status \in Open => grant'[g] = grant[g]
    <2>1. "REVOKED" \in Closed
        BY DEF Closed
    <2> HIDE DEF W, G
    <2> QED
        BY <1>1, <1>2, <2>1, ClosingOnlyKeepsGrants DEF IInv
<1>4. /\ pinned \in Email \cup {None}
      /\ profile' \in [User -> Profile]
      /\ profile'[u].email = pinned
      /\ profile'[u].slot = profile[u].slot
      /\ \A w \in User : w # u => profile'[w] = profile[w]
    <2>1. profile[u] \in Profile
        BY DEF IInv, TypeOK
    <2> QED
        BY <1>1, <2>1 DEF IInv, TypeOK, Profile
<1>5. TypeOK'
    BY <1>1, <1>3, <1>4 DEF IInv, TypeOK
<1>6. OwnerIsPinned'
    <2> SUFFICES ASSUME NEW g \in Grant, grant'[g].status \in Open
                 PROVE  /\ grant'[g].owner # None
                        /\ grant'[g].owner = profile'[grant'[g].user].email
        BY DEF OwnerIsPinned
    <2>1. /\ grant'[g] = grant[g]
          /\ grant[g].status \in Open
          /\ grant[g].user \in User
          /\ grant[g].owner # None
          /\ grant[g].owner = profile[grant[g].user].email
          /\ session[grant[g].user].state \in TakeoverState
        BY <1>3 DEF IInv, GrantInv, GrantsNamed, GrantMatchesControl, WaitingOn, ActiveUnder,
                    TakeoverState, ProfileInv, OwnerIsPinned, Open
    <2>2. g \notin G
        BY <1>1, <1>2, <2>1 DEF Mark, TypeOK, IInv, GrantRow, Open
    <2>3. CASE grant[g].user = u
        BY <2>1, <2>2, <2>3, <1>4 DEF OpenGrants
    <2>4. CASE grant[g].user # u
        BY <2>1, <2>4, <1>4
    <2> QED
        BY <2>3, <2>4
<1>7. UnprovisionedEmpty' /\ ProfilesApart'
    <2> HIDE DEF pinned, W, G
    <2> QED
        BY <1>1, <1>4 DEF IInv, ProfileInv, UnprovisionedEmpty, ProfilesApart, Provisioned
<1> QED
    BY <1>3, <1>5, <1>6, <1>7 DEF IInv, ProfileInv

LEMMA SweepStep ==
    ASSUME IInv, NEW G \in SUBSET (StaleLinks \cup PastDeadline),
           session' = ReturnControl(Owners(G)), grant' = Mark(G, "EXPIRED"),
           UNCHANGED <<now, profile>>
    PROVE  IInv'
<1>1. "EXPIRED" \in Closed
    BY DEF Closed
<1> QED
    BY <1>1, SweepSelects, Closing

LEMMA RevokeStep ==
    ASSUME IInv, NEW W \in SUBSET User,
           \A u \in W : session[u].state \in TakeoverState, Revoke(W)
    PROVE  IInv'
<1>1. "REVOKED" \in Closed
    BY DEF Closed
<1> DEFINE G == {g \in Grant : grant[g].status \in Open /\ grant[g].user \in W}
<1>2. /\ G \in SUBSET Grant
      /\ \A g \in Grant : g \in G <=> grant[g].status \in Open /\ grant[g].user \in W
      /\ session' = ReturnControl(W)
      /\ grant' = Mark(G, "REVOKED")
      /\ UNCHANGED <<now, profile>>
    BY DEF Revoke
<1> HIDE DEF G
<1> QED
    BY <1>1, <1>2, Closing

LEMMA EndActiveStep ==
    ASSUME IInv, NEW g \in Grant, NEW status \in Closed, EndActive(g, status)
    PROVE  IInv'
<1>1. /\ ActiveUnder(g)
      /\ session' = ReturnControl({grant[g].user})
      /\ grant' = Mark({g}, status)
      /\ UNCHANGED <<now, profile>>
    BY DEF EndActive
<1>2. /\ grant[g].status \in Open
      /\ grant[g].user \in User
      /\ session[grant[g].user].state \in TakeoverState
    BY <1>1 DEF IInv, GrantInv, GrantsNamed, ActiveUnder, TakeoverState, Open
<1>3. \A h \in Grant : grant[h].status \in Open /\ grant[h].user = grant[g].user => h = g
    BY <1>2, OneOpen DEF IInv
<1> QED
    BY <1>1, <1>2, <1>3, Closing

\* Opening a session is the sweep of links, then at most one new row.
LEMMA CreateOrResumeStep ==
    ASSUME IInv, NEW u \in User, CreateOrResume(u)
    PROVE  IInv'
<1> DEFINE W == Owners(StaleLinks)
           N == IF ReturnControl(W)[u].state = "ABSENT" THEN {u} ELSE {}
<1>1. /\ session' = [w \in User |-> IF w \in N THEN [state |-> "AGENT_ACTIVE", epoch |-> 1]
                                    ELSE ReturnControl(W)[w]]
      /\ grant' = Mark(StaleLinks, "EXPIRED")
      /\ UNCHANGED <<now, profile>>
    BY DEF CreateOrResume, ReturnControl
<1>2. N \in SUBSET User /\ \A w \in N : session[w].state = "ABSENT"
    BY DEF ReturnControl
<1>3. /\ StaleLinks \in SUBSET Grant
      /\ W \in SUBSET User
      /\ \A w \in W : session[w].state \in TakeoverState
      /\ \A g \in Grant : g \in StaleLinks <=> grant[g].status \in Open /\ grant[g].user \in W
    <2>1. StaleLinks \in SUBSET (StaleLinks \cup PastDeadline)
        OBVIOUS
    <2> QED
        BY <2>1, SweepSelects
<1>4. "EXPIRED" \in Closed
    BY DEF Closed
<1> HIDE DEF W, N
<1>5. /\ session' \in [User -> Session]
      /\ grant' \in [Grant -> GrantRow]
      /\ GrantInv'
      /\ \A g \in Grant : grant'[g].status \in Open => grant'[g] = grant[g]
    BY <1>1, <1>2, <1>3, <1>4, ClosingKeepsGrants DEF IInv
<1>6. ProfileInv'
    BY <1>1, <1>5, ClosingKeepsProfiles DEF IInv
<1> QED
    BY <1>1, <1>5, <1>6 DEF IInv, TypeOK

\* A new link: its epoch is beyond every epoch the session ever had.
LEMMA IssueStep ==
    ASSUME IInv, NEW u \in User, NEW e \in Nat, NEW m, NEW g \in Grant,
           IssueTakeover(u, e, m, g)
    PROVE  IInv'
<1>1. /\ grant[g].status = "UNISSUED"
      /\ profile[u].email # None
      /\ session[u].state = "AGENT_ACTIVE"
      /\ session[u].epoch = e
      /\ session' = [session EXCEPT ![u] = [state |-> "WAITING_FOR_HUMAN", epoch |-> e + 1]]
      /\ UNCHANGED <<now, profile>>
    BY DEF IssueTakeover, HoldsLease
<1> DEFINE new == [status |-> "ISSUED", user |-> u, owner |-> profile[u].email,
                   epoch |-> e + 1, expires |-> now + LinkTtl, activeExpires |-> 0]
<1>2. OpenGrants(u) = {}
    BY <1>1 DEF IInv, GrantInv, GrantMatchesControl, WaitingOn, ActiveUnder, OpenGrants, Open
<1>3. grant' = [grant EXCEPT ![g] = new]
    <2>1. grant' = [Mark(OpenGrants(u), "REVOKED") EXCEPT ![g] = new]
        BY DEF IssueTakeover
    <2>2. Mark({}, "REVOKED") = grant
        BY DEF Mark, IInv, TypeOK
    <2> QED
        BY <2>1, <2>2, <1>2
<1>4. /\ session' \in [User -> Session]
      /\ session'[u] = [state |-> "WAITING_FOR_HUMAN", epoch |-> e + 1]
      /\ \A w \in User : w # u => session'[w] = session[w]
    BY <1>1 DEF IInv, TypeOK, Session, SessionState, TakeoverState
<1>5. new \in GrantRow
    <2>1. profile[u].email \in Email \cup {None} /\ now + LinkTtl \in Nat
        BY StoreAssumption DEF IInv, TypeOK, Profile
    <2> QED
        BY <2>1 DEF GrantRow, GrantStatus, Open
<1>6. /\ grant' \in [Grant -> GrantRow]
      /\ grant'[g] = new
      /\ \A h \in Grant : h # g => grant'[h] = grant[h]
    BY <1>3, <1>5 DEF IInv, TypeOK
<1>7. \A h \in Grant : grant[h].status # "UNISSUED" /\ grant[h].user = u =>
        /\ grant[h].status \in Closed
        /\ grant[h].epoch \in Nat
        /\ grant[h].epoch < e
    BY <1>1, <1>2 DEF IInv, TypeOK, GrantRow, GrantStatus, GrantInv, GrantEpochs, OpenGrants
<1>8. TypeOK'
    BY <1>1, <1>4, <1>6 DEF IInv, TypeOK
<1>9. GrantsNamed' /\ AbsentAtZero'
    BY <1>4, <1>6 DEF IInv, GrantInv, GrantsNamed, AbsentAtZero
<1>10. ASSUME NEW h \in Grant, h # g, grant[h].status \in Open
       PROVE  grant'[h] = grant[h] /\ grant[h].user \in User \ {u}
    BY <1>2, <1>6, <1>10 DEF IInv, GrantInv, GrantsNamed, OpenGrants, Open
<1>11. GrantMatchesControl'
    <2>1. ASSUME NEW h \in Grant, grant'[h].status = "ISSUED"
          PROVE  WaitingOn(h)'
        <3>1. CASE h = g
            BY <3>1, <1>4, <1>6 DEF WaitingOn, Governs
        <3>2. CASE h # g
            BY <2>1, <3>2, <1>4, <1>6, <1>10
               DEF IInv, GrantInv, GrantMatchesControl, WaitingOn, Governs, Open
        <3> QED
            BY <3>1, <3>2
    <2>2. ASSUME NEW h \in Grant, grant'[h].status = "REDEEMED"
          PROVE  ActiveUnder(h)'
        <3>1. h # g
            BY <2>2, <1>6
        <3> QED
            BY <2>2, <3>1, <1>4, <1>6, <1>10
               DEF IInv, GrantInv, GrantMatchesControl, ActiveUnder, Governs, Open
    <2>3. ASSUME NEW w \in User, session'[w].state \in TakeoverState
          PROVE  \E h \in Grant : h \in OpenGrants(w)'
        <3>1. CASE w = u
            BY <3>1, <1>6 DEF OpenGrants, Open
        <3>2. CASE w # u
            <4>1. PICK h \in Grant : h \in OpenGrants(w)
                BY <2>3, <3>2, <1>4 DEF IInv, GrantInv, GrantMatchesControl
            <4>2. h # g
                BY <4>1, <1>1 DEF OpenGrants, Open
            <4> QED
                BY <4>1, <4>2, <1>6 DEF OpenGrants
        <3> QED
            BY <3>1, <3>2
    <2> QED
        BY <2>1, <2>2, <2>3 DEF GrantMatchesControl
<1>12. GrantEpochs'
    <2>1. ASSUME NEW h \in Grant, grant'[h].status \in Closed
          PROVE  grant'[h].epoch < session'[grant'[h].user].epoch
        <3>1. h # g /\ grant'[h] = grant[h] /\ grant[h].user \in User
            BY <2>1, <1>6 DEF IInv, GrantInv, GrantsNamed, Closed
        <3>2. grant[h].epoch < session[grant[h].user].epoch
            BY <2>1, <3>1 DEF IInv, GrantInv, GrantEpochs
        <3>3. grant[h].epoch \in Nat
            BY DEF IInv, TypeOK, GrantRow
        <3> QED
            BY <3>1, <3>2, <3>3, <1>1, <1>4
    <2>2. ASSUME NEW h \in Issued', NEW k \in Issued', h # k,
                 grant'[h].user = grant'[k].user
          PROVE  grant'[h].epoch # grant'[k].epoch
        <3>1. CASE h = g
            BY <2>2, <3>1, <1>6, <1>7 DEF Issued
        <3>2. CASE k = g
            BY <2>2, <3>2, <1>6, <1>7 DEF Issued
        <3>3. CASE h # g /\ k # g
            BY <2>2, <3>3, <1>6 DEF IInv, GrantInv, GrantEpochs, Issued
        <3> QED
            BY <3>1, <3>2, <3>3
    <2> QED
        BY <2>1, <2>2 DEF GrantEpochs
<1>13. ProfileInv'
    BY <1>1, <1>6 DEF IInv, ProfileInv, UnprovisionedEmpty, OwnerIsPinned, ProfilesApart, Provisioned
<1> QED
    BY <1>8, <1>9, <1>11, <1>12, <1>13 DEF IInv, GrantInv

\* Accepting an offer: the same grant, the same epoch.
LEMMA RedeemStep ==
    ASSUME IInv, NEW g \in Grant, NEW d \in Nat, RedeemTakeover(g, d)
    PROVE  IInv'
<1>1. /\ WaitingOn(g)
      /\ grant' = [grant EXCEPT ![g].status = "REDEEMED", ![g].activeExpires = d]
      /\ session' = [session EXCEPT ![grant[g].user].state = "HUMAN_ACTIVE"]
      /\ UNCHANGED <<now, profile>>
    BY DEF RedeemTakeover
<1>2. /\ grant[g].user \in User
      /\ grant[g].status = "ISSUED"
      /\ session[grant[g].user].state = "WAITING_FOR_HUMAN"
      /\ Governs(g)
    BY <1>1 DEF IInv, GrantInv, GrantsNamed, WaitingOn
<1>3. /\ grant' \in [Grant -> GrantRow]
      /\ grant'[g].status = "REDEEMED"
      /\ \A h \in Grant : /\ grant'[h].user = grant[h].user
                          /\ grant'[h].epoch = grant[h].epoch
                          /\ grant'[h].owner = grant[h].owner
                          /\ h # g => grant'[h] = grant[h]
    BY <1>1 DEF IInv, TypeOK, GrantRow, GrantStatus, Open
<1>4. /\ session' \in [User -> Session]
      /\ session'[grant[g].user].state = "HUMAN_ACTIVE"
      /\ \A u \in User : /\ session'[u].epoch = session[u].epoch
                         /\ u # grant[g].user => session'[u] = session[u]
    BY <1>1, <1>2 DEF IInv, TypeOK, Session, SessionState, TakeoverState
<1>5. \A h \in Grant : h # g /\ grant[h].status \in Open => grant[h].user \in User \ {grant[g].user}
    BY <1>2, OneOpen DEF IInv, GrantInv, GrantsNamed, Open
<1>6. TypeOK'
    BY <1>1, <1>3, <1>4 DEF IInv, TypeOK
<1>7. GrantsNamed' /\ AbsentAtZero'
    BY <1>2, <1>3, <1>4 DEF IInv, GrantInv, GrantsNamed, AbsentAtZero
<1>8. GrantMatchesControl'
    <2>1. ASSUME NEW h \in Grant, grant'[h].status = "ISSUED"
          PROVE  WaitingOn(h)'
        <3>1. h # g /\ grant[h].status = "ISSUED"
            BY <2>1, <1>3
        <3> QED
            BY <2>1, <3>1, <1>3, <1>4, <1>5
               DEF IInv, GrantInv, GrantMatchesControl, WaitingOn, Governs, Open
    <2>2. ASSUME NEW h \in Grant, grant'[h].status = "REDEEMED"
          PROVE  ActiveUnder(h)'
        <3>1. CASE h = g
            BY <2>2, <3>1, <1>2, <1>3, <1>4 DEF ActiveUnder, Governs
        <3>2. CASE h # g
            BY <2>2, <3>2, <1>3, <1>4, <1>5
               DEF IInv, GrantInv, GrantMatchesControl, ActiveUnder, Governs, Open
        <3> QED
            BY <3>1, <3>2
    <2>3. ASSUME NEW u \in User, session'[u].state \in TakeoverState
          PROVE  \E h \in Grant : h \in OpenGrants(u)'
        <3>1. CASE u = grant[g].user
            BY <3>1, <1>3 DEF OpenGrants, Open
        <3>2. CASE u # grant[g].user
            <4>1. PICK h \in Grant : h \in OpenGrants(u)
                BY <2>3, <3>2, <1>4 DEF IInv, GrantInv, GrantMatchesControl
            <4> QED
                BY <4>1, <3>2, <1>3 DEF OpenGrants
        <3> QED
            BY <3>1, <3>2
    <2> QED
        BY <2>1, <2>2, <2>3 DEF GrantMatchesControl
<1>9. GrantEpochs'
    <2>1. Issued' = Issued
        BY <1>2, <1>3 DEF Issued
    <2>2. \A h \in Grant : grant'[h].status \in Closed => grant[h].status \in Closed
                                                          /\ grant[h].user \in User
        BY <1>3 DEF Closed, IInv, GrantInv, GrantsNamed
    <2> QED
        BY <2>1, <2>2, <1>3, <1>4 DEF IInv, GrantInv, GrantEpochs, Issued
<1>10. ProfileInv'
    <2>1. \A h \in Grant : grant'[h].status \in Open => grant[h].status \in Open
        BY <1>2, <1>3 DEF Open
    <2> QED
        BY <2>1, <1>1, <1>3
           DEF IInv, ProfileInv, UnprovisionedEmpty, OwnerIsPinned, ProfilesApart, Provisioned
<1> QED
    BY <1>6, <1>7, <1>8, <1>9, <1>10 DEF IInv, GrantInv

\* The agent takes a returned browser back; no grant is open for it.
LEMMA ResumeStep ==
    ASSUME IInv, NEW u \in User, ResumeAgent(u)
    PROVE  IInv'
<1>1. /\ session[u].state = "READY_TO_RESUME"
      /\ session' = [session EXCEPT ![u] = [state |-> "AGENT_ACTIVE", epoch |-> @.epoch + 1]]
      /\ UNCHANGED <<now, profile, grant>>
    BY DEF ResumeAgent
<1>2. /\ session' \in [User -> Session]
      /\ session'[u].state = "AGENT_ACTIVE"
      /\ session'[u].epoch = session[u].epoch + 1
      /\ session[u].epoch \in Nat
      /\ \A w \in User : w # u => session'[w] = session[w]
    BY <1>1 DEF IInv, TypeOK, Session, SessionState
<1>3. \A g \in Grant : grant[g].status \in Open => grant[g].user \in User \ {u}
    BY <1>1 DEF IInv, GrantInv, GrantsNamed, GrantMatchesControl, WaitingOn, ActiveUnder, Open
<1>4. TypeOK'
    BY <1>1, <1>2 DEF IInv, TypeOK
<1>5. GrantsNamed' /\ AbsentAtZero'
    BY <1>1, <1>2 DEF IInv, GrantInv, GrantsNamed, AbsentAtZero
<1>6. GrantMatchesControl'
    <2>1. \A w \in User : session'[w].state \in TakeoverState => w # u
        BY <1>2 DEF TakeoverState
    <2> QED
        BY <2>1, <1>1, <1>2, <1>3
           DEF IInv, GrantInv, GrantMatchesControl, WaitingOn, ActiveUnder, Governs, OpenGrants, Open
<1>7. GrantEpochs'
    <2>1. ASSUME NEW g \in Grant, grant[g].status \in Closed
          PROVE  grant[g].epoch < session'[grant[g].user].epoch
        <3>1. /\ grant[g].epoch \in Nat
              /\ grant[g].user \in User
              /\ grant[g].epoch < session[grant[g].user].epoch
            BY <2>1 DEF IInv, TypeOK, GrantRow, GrantInv, GrantsNamed, GrantEpochs, Closed
        <3> QED
            BY <3>1, <1>2
    <2> QED
        BY <2>1, <1>1 DEF IInv, GrantInv, GrantEpochs, Issued
<1>8. ProfileInv'
    BY <1>1 DEF IInv, ProfileInv, UnprovisionedEmpty, OwnerIsPinned, ProfilesApart, Provisioned
<1> QED
    BY <1>4, <1>5, <1>6, <1>7, <1>8 DEF IInv, GrantInv

\* Steps that change no row.
LEMMA RowsUnchangedStep ==
    ASSUME IInv, now' \in Nat, UNCHANGED <<profile, session, grant>>
    PROVE  IInv'
BY DEF IInv, TypeOK, GrantInv, GrantsNamed, AbsentAtZero, GrantMatchesControl, GrantEpochs, Issued,
       WaitingOn, ActiveUnder, Governs, OpenGrants, ProfileInv, UnprovisionedEmpty,
       OwnerIsPinned, ProfilesApart, Provisioned

LEMMA NextIInv == IInv /\ [Next]_storeVars => IInv'
<1> SUFFICES ASSUME IInv, [Next]_storeVars PROVE IInv'
    OBVIOUS
<1>1. CASE Tick
    BY <1>1, RowsUnchangedStep DEF Tick, IInv, TypeOK
<1>2. ASSUME NEW u \in User, NEW e \in Email \cup {None}, ProvisionNew(u, e) \/ Repin(u, e)
      PROVE  IInv'
    BY <1>2, ProvisionNewStep, RepinStep
<1>3. CASE SweepLinks
    BY <1>3, SweepStep DEF SweepLinks
<1>4. CASE SweepAll
    BY <1>4, SweepStep DEF SweepAll
<1>5. ASSUME NEW u \in User, CreateOrResume(u) \/ ResumeAgent(u) \/ AbortTakeover(u)
      PROVE  IInv'
    <2>1. CASE CreateOrResume(u)
        BY <2>1, CreateOrResumeStep
    <2>2. CASE ResumeAgent(u)
        BY <2>2, ResumeStep
    <2>3. CASE AbortTakeover(u)
        BY <2>3, RevokeStep DEF AbortTakeover
    <2> QED
        BY <1>5, <2>1, <2>2, <2>3
<1>6. ASSUME NEW u \in User, NEW m \in Email \cup {None}, NEW g \in Grant,
             NEW e \in 1 .. session[u].epoch, IssueTakeover(u, e, m, g)
      PROVE  IInv'
    <2>1. e \in Nat
        BY DEF IInv, TypeOK, Session
    <2> QED
        BY <1>6, <2>1, IssueStep
<1>7. ASSUME NEW g \in Grant, NEW d \in Deadline, RedeemTakeover(g, d)
      PROVE  IInv'
    <2>1. d \in Nat
        BY DEF Deadline, IInv, TypeOK
    <2> QED
        BY <1>7, <2>1, RedeemStep
<1>8. ASSUME NEW g \in Grant,
             ActiveGrantExpired(g) \/ ExpireActiveGrant(g) \/ CompleteTakeover(g)
      PROVE  IInv'
    BY <1>8, EndActiveStep DEF ActiveGrantExpired, ExpireActiveGrant, CompleteTakeover, Closed
<1>9. CASE RecoverFailClosed
    <2>1. \A W \in SUBSET User : (\A u \in W : session[u].state \in TakeoverState) /\ Revoke(W) => IInv'
        BY RevokeStep
    <2> QED
        BY <2>1, <1>9 DEF RecoverFailClosed
<1>10. CASE UNCHANGED storeVars
    BY <1>10, RowsUnchangedStep DEF storeVars, IInv, TypeOK
<1> QED
    BY <1>1, <1>2, <1>3, <1>4, <1>5, <1>6, <1>7, <1>8, <1>9, <1>10 DEF Next

-----------------------------------------------------------------------------
(* What a step may not do. *)

LEMMA ReturnAdvances ==
    ASSUME TypeOK, NEW W \in SUBSET User, session' = ReturnControl(W)
    PROVE  \A u \in User : HandsChange(u)
BY DEF TypeOK, Session, ReturnControl, HandsChange

LEMMA HandsChangeStep == IInv /\ Next => \A u \in User : HandsChange(u)
<1> SUFFICES ASSUME IInv, Next PROVE \A u \in User : HandsChange(u)
    OBVIOUS
<1> USE DEF IInv
<1>1. CASE UNCHANGED session
    BY <1>1 DEF TypeOK, Session, HandsChange
<1>2. CASE \E W \in SUBSET User : session' = ReturnControl(W)
    BY <1>2, ReturnAdvances
<1>3. ASSUME NEW u \in User, NEW e \in Email \cup {None}, ProvisionNew(u, e) \/ Repin(u, e)
      PROVE  UNCHANGED session \/ \E W \in SUBSET User : session' = ReturnControl(W)
    BY <1>3 DEF ProvisionNew, Repin
<1>4. ASSUME SweepLinks \/ SweepAll
      PROVE  \E W \in SUBSET User : session' = ReturnControl(W)
    <2>1. \A G \in SUBSET (StaleLinks \cup PastDeadline) : Owners(G) \in SUBSET User
        BY SweepSelects
    <2> QED
        BY <1>4, <2>1 DEF SweepLinks, SweepAll
<1>5. ASSUME NEW u \in User, CreateOrResume(u)
      PROVE  \A w \in User : HandsChange(w)
    <2> DEFINE swept == ReturnControl(Owners(StaleLinks))
    <2>1. session' = IF swept[u].state = "ABSENT"
                     THEN [swept EXCEPT ![u] = [state |-> "AGENT_ACTIVE", epoch |-> 1]]
                     ELSE swept
        BY <1>5 DEF CreateOrResume
    <2>2. \A w \in User : \/ swept[w] = session[w]
                          \/ swept[w].epoch = session[w].epoch + 1
        BY DEF ReturnControl
    <2>3. swept[u].state = "ABSENT" => session[u].state = "ABSENT"
        BY DEF ReturnControl
    <2>4. \A w \in User : session[w].epoch \in Nat
        BY DEF TypeOK, Session
    <2>5. swept \in [User -> Session]
        BY DEF TypeOK, Session, SessionState, ReturnControl
    <2>6. CASE swept[u].state = "ABSENT"
        <3>1. session[u].epoch = 0
            BY <2>3, <2>6 DEF GrantInv, AbsentAtZero
        <3>2. /\ session'[u].epoch = 1
              /\ \A w \in User : w # u => session'[w] = swept[w]
            BY <2>1, <2>5, <2>6
        <3> HIDE DEF swept
        <3> QED
            BY <2>2, <2>4, <3>1, <3>2 DEF HandsChange
    <2>7. CASE swept[u].state # "ABSENT"
        <3>1. session' = swept
            BY <2>1, <2>7
        <3> HIDE DEF swept
        <3> QED
            BY <2>2, <2>4, <3>1 DEF HandsChange
    <2> QED
        BY <2>6, <2>7
<1>6. ASSUME NEW u \in User, ResumeAgent(u)
      PROVE  \A w \in User : HandsChange(w)
    BY <1>6 DEF ResumeAgent, TypeOK, Session, HandsChange
<1>7. ASSUME NEW u \in User, AbortTakeover(u)
      PROVE  \E W \in SUBSET User : session' = ReturnControl(W)
    BY <1>7 DEF AbortTakeover, Revoke
<1>8. ASSUME NEW u \in User, NEW m \in Email \cup {None}, NEW g \in Grant,
             NEW e \in 1 .. session[u].epoch, IssueTakeover(u, e, m, g)
      PROVE  \A w \in User : HandsChange(w)
    BY <1>8 DEF IssueTakeover, HoldsLease, TypeOK, Session, HandsChange
<1>9. ASSUME NEW g \in Grant, NEW d \in Deadline, RedeemTakeover(g, d)
      PROVE  \A w \in User : HandsChange(w)
    BY <1>9 DEF RedeemTakeover, WaitingOn, TypeOK, Session, HandsChange
<1>10. ASSUME NEW g \in Grant,
              ActiveGrantExpired(g) \/ ExpireActiveGrant(g) \/ CompleteTakeover(g)
       PROVE  \E W \in SUBSET User : session' = ReturnControl(W)
    <2>1. ActiveUnder(g) /\ session' = ReturnControl({grant[g].user})
        BY <1>10 DEF ActiveGrantExpired, ExpireActiveGrant, CompleteTakeover, EndActive
    <2>2. grant[g].user \in User
        BY <2>1 DEF ActiveUnder, GrantInv, GrantsNamed
    <2> QED
        BY <2>1, <2>2
<1>11. CASE RecoverFailClosed
    BY <1>2, <1>11 DEF RecoverFailClosed, Revoke
<1>12. CASE Tick
    BY <1>1, <1>12 DEF Tick
<1> QED
    BY <1>1, <1>2, <1>3, <1>4, <1>5, <1>6, <1>7, <1>8, <1>9, <1>10, <1>11, <1>12 DEF Next

-----------------------------------------------------------------------------
(* Theorems *)

\* The rows of the three tables keep their types, whatever calls are made.
THEOREM TypeCorrect == Spec => []TypeOK
<1>1. IInv => TypeOK
    BY DEF IInv
<1> QED
    BY <1>1, InitIInv, NextIInv, PTL DEF Spec

\* Sessions and grants always agree about who is in control.
THEOREM ControlMatchesGrants == Spec => []GrantMatchesControl
<1>1. IInv => GrantMatchesControl
    BY DEF IInv, GrantInv
<1> QED
    BY <1>1, InitIInv, NextIInv, PTL DEF Spec

\* No two takeovers of a session share an epoch; finished ones are behind it.
THEOREM EpochsSeparateTakeovers == Spec => []GrantEpochs
<1>1. IInv => GrantEpochs
    BY DEF IInv, GrantInv
<1> QED
    BY <1>1, InitIInv, NextIInv, PTL DEF Spec

\* No open grant outlives the pinning of its owner's e-mail.
THEOREM OpenGrantsArePinned == Spec => []OwnerIsPinned
<1>1. IInv => OwnerIsPinned
    BY DEF IInv, ProfileInv
<1> QED
    BY <1>1, InitIInv, NextIInv, PTL DEF Spec

\* Slots, hence ports and displays, and e-mails are never shared.
THEOREM ProfilesStayApart == Spec => []ProfilesApart
<1>1. IInv => ProfilesApart
    BY DEF IInv, ProfileInv
<1> QED
    BY <1>1, InitIInv, NextIInv, PTL DEF Spec

\* Epochs fence: a lease from before a change of hands is stale for ever.
THEOREM EpochsFence == Spec => Fenced
<1>1. IInv /\ [Next]_storeVars => [\A u \in User : HandsChange(u)]_storeVars
    BY HandsChangeStep
<1> QED
    BY <1>1, InitIInv, NextIInv, PTL DEF Spec, Fenced

-----------------------------------------------------------------------------
(* Grants are spent once. *)

LEMMA CloseMoves ==
    ASSUME TypeOK, NEW G \in SUBSET Grant, NEW status \in Closed,
           \A g \in G : grant[g].status \in Open,
           grant' = Mark(G, status)
    PROVE  \A g \in Grant : GrantMoves(g)
<1>1. \A g \in Grant : /\ g \in G => grant'[g].status = status
                       /\ g \notin G => grant'[g] = grant[g]
    BY DEF Mark, TypeOK, GrantRow
<1> QED
    BY <1>1 DEF GrantMoves, Open, Closed

LEMMA GrantMovesStep == IInv /\ Next => \A g \in Grant : GrantMoves(g)
<1> SUFFICES ASSUME IInv, Next PROVE \A g \in Grant : GrantMoves(g)
    OBVIOUS
<1> DEFINE Closing1(G, status) == /\ \A g \in G : grant[g].status \in Open
                                  /\ grant' = Mark(G, status)
<1>1. CASE UNCHANGED grant
    BY <1>1 DEF GrantMoves, Closed
<1>2. CASE \E G \in SUBSET Grant, status \in Closed : Closing1(G, status)
    BY <1>2, CloseMoves DEF IInv
<1>3. \A G \in SUBSET (StaleLinks \cup PastDeadline) :
        G \in SUBSET Grant /\ \A g \in G : grant[g].status \in Open
    BY SweepSelects
<1>4. ASSUME NEW u \in User, NEW e \in Email \cup {None}, ProvisionNew(u, e)
      PROVE  UNCHANGED grant
    BY <1>4 DEF ProvisionNew
<1>5. ASSUME NEW u \in User, NEW e \in Email \cup {None}, Repin(u, e)
      PROVE  \A g \in Grant : GrantMoves(g)
    <2>1. PICK G \in SUBSET OpenGrants(u) : grant' = Mark(G, "REVOKED")
        BY <1>5 DEF Repin
    <2>2. G \in SUBSET Grant /\ Closing1(G, "REVOKED")
        BY <2>1 DEF OpenGrants
    <2> QED
        BY <2>2, <1>2 DEF Closed
<1>6. CASE SweepLinks \/ SweepAll \/ \E u \in User : CreateOrResume(u)
    <2>1. PICK G \in SUBSET (StaleLinks \cup PastDeadline) : grant' = Mark(G, "EXPIRED")
        BY <1>6 DEF SweepLinks, SweepAll, CreateOrResume
    <2> QED
        BY <2>1, <1>2, <1>3 DEF Closed
<1>7. ASSUME NEW u \in User, ResumeAgent(u)
      PROVE  UNCHANGED grant
    BY <1>7 DEF ResumeAgent
<1>8. CASE RecoverFailClosed \/ \E u \in User : AbortTakeover(u)
    <2>1. PICK W : Revoke(W)
        BY <1>8 DEF AbortTakeover, RecoverFailClosed
    <2> DEFINE G == {g \in Grant : grant[g].status \in Open /\ grant[g].user \in W}
    <2>2. G \in SUBSET Grant /\ Closing1(G, "REVOKED")
        BY <2>1 DEF Revoke
    <2> HIDE DEF G
    <2> QED
        BY <2>2, <1>2 DEF Closed
<1>9. ASSUME NEW u \in User, NEW m \in Email \cup {None}, NEW g \in Grant,
             NEW e \in 1 .. session[u].epoch, IssueTakeover(u, e, m, g)
      PROVE  \A h \in Grant : GrantMoves(h)
    <2>1. \A h \in Grant : /\ h # g /\ grant[h].status \notin Open => grant'[h] = grant[h]
                           /\ h # g /\ grant[h].status \in Open =>
                                grant'[h] = grant[h] \/ grant'[h].status = "REVOKED"
                           /\ grant[g].status = "UNISSUED"
                           /\ grant'[g].status = "ISSUED"
        BY <1>9 DEF IssueTakeover, Mark, OpenGrants, IInv, TypeOK, GrantRow
    <2> QED
        BY <2>1 DEF GrantMoves, Open, Closed
<1>10. ASSUME NEW g \in Grant, NEW d \in Deadline, RedeemTakeover(g, d)
       PROVE  \A h \in Grant : GrantMoves(h)
    <2>1. /\ grant[g].status = "ISSUED" /\ grant[g].expires >= now
          /\ grant'[g].status = "REDEEMED"
          /\ \A h \in Grant : h # g => grant'[h] = grant[h]
        BY <1>10 DEF RedeemTakeover, WaitingOn, IInv, TypeOK, GrantRow
    <2>2. grant[g].expires \in Nat /\ now \in Nat
        BY DEF IInv, TypeOK, GrantRow
    <2> QED
        BY <2>1, <2>2 DEF GrantMoves, Closed
<1>11. ASSUME NEW g \in Grant,
              ActiveGrantExpired(g) \/ ExpireActiveGrant(g) \/ CompleteTakeover(g)
       PROVE  \A h \in Grant : GrantMoves(h)
    <2>1. PICK status \in Closed : EndActive(g, status)
        BY <1>11 DEF ActiveGrantExpired, ExpireActiveGrant, CompleteTakeover, Closed
    <2>2. {g} \in SUBSET Grant /\ Closing1({g}, status)
        BY <2>1 DEF EndActive, ActiveUnder, Open
    <2> QED
        BY <2>2, <1>2
<1>12. CASE Tick
    BY <1>1, <1>12 DEF Tick
<1> QED
    BY <1>1, <1>4, <1>5, <1>6, <1>7, <1>8, <1>9, <1>10, <1>11, <1>12 DEF Next

\* A grant is redeemed at most once, in time, and a closed one stays closed.
THEOREM GrantsAreSingleUse == Spec => SingleUse
<1>1. IInv /\ [Next]_storeVars => [\A g \in Grant : GrantMoves(g)]_storeVars
    BY GrantMovesStep
<1> QED
    BY <1>1, InitIInv, NextIInv, PTL DEF Spec, SingleUse

=============================================================================
