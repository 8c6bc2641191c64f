---------------------- MODULE TakeoverStoreLeaseProofs ----------------------
(***************************************************************************)
(* The store implements ControlLease, for any number of users, e-mails,    *)
(* grants and slots.  The invariant of TakeoverStoreProofs makes the       *)
(* mapping meaningful: the outstanding capability of a user is the one     *)
(* grant open for them, and a user on the human's side has one.            *)
(***************************************************************************)
EXTENDS TakeoverStoreProofs

\* The capability is the open grant.
LEMMA KeyIsTheOpenGrant ==
    ASSUME IInv, NEW u \in User, NEW g \in Grant, g \in OpenGrants(u)
    PROVE  KeyOf(u) = g
<1> DEFINE k == CHOOSE h \in Grant : h \in OpenGrants(u)
<1>1. k \in Grant /\ k \in OpenGrants(u)
    OBVIOUS
<1>2. KeyOf(u) = k
    BY DEF KeyOf
<1>3. k = g
    <2> HIDE DEF k
    <2> QED
        BY <1>1, OneOpen DEF IInv, OpenGrants
<1> QED
    BY <1>2, <1>3

\* A user in a takeover has a capability, and it is open.
LEMMA HumanSideHasKey ==
    ASSUME IInv, NEW u \in User, session[u].state \in TakeoverState
    PROVE  KeyOf(u) \in Grant /\ KeyOf(u) \in OpenGrants(u)
<1>1. PICK g \in Grant : g \in OpenGrants(u)
    BY DEF IInv, GrantInv, GrantMatchesControl
<1> QED
    BY <1>1, KeyIsTheOpenGrant

\* Grants that do not change leave the capabilities alone.
LEMMA SameGrants ==
    ASSUME UNCHANGED grant
    PROVE  UNCHANGED <<leaseKey, leaseSpent>>
BY DEF leaseKey, leaseSpent, KeyOf, OpenGrants

\* The open grants of the users in W are their capabilities.
LEMMA GrantsAreKeys ==
    ASSUME IInv, NEW W \in SUBSET User, NEW G \in SUBSET Grant,
           \A u \in W : session[u].state \in TakeoverState,
           \A g \in Grant : g \in G <=> grant[g].status \in Open /\ grant[g].user \in W
    PROVE  G = {leaseKey[u] : u \in W}
<1>1. \A u \in W : KeyOf(u) \in G
    BY HumanSideHasKey DEF OpenGrants
<1>2. \A g \in G : grant[g].user \in W /\ g = KeyOf(grant[g].user)
    BY KeyIsTheOpenGrant DEF OpenGrants
<1>3. G = {KeyOf(u) : u \in W}
    BY <1>1, <1>2
<1> QED
    BY <1>3 DEF leaseKey

\* Closing the open grants of the users in W takes away exactly their capabilities.
LEMMA ClosingSpendsKeys ==
    ASSUME IInv, NEW W \in SUBSET User, NEW G \in SUBSET Grant, NEW status \in Closed,
           \A u \in W : session[u].state \in TakeoverState,
           \A g \in Grant : g \in G <=> grant[g].status \in Open /\ grant[g].user \in W,
           grant' = Mark(G, status)
    PROVE  /\ leaseKey' = [u \in User |-> IF u \in W THEN None ELSE leaseKey[u]]
           /\ leaseSpent' = leaseSpent \cup {leaseKey[u] : u \in W}
<1>1. \A g \in Grant :
        /\ grant'[g].user = grant[g].user
        /\ g \in G => grant'[g].status = status
        /\ g \notin G => grant'[g] = grant[g]
    BY DEF IInv, TypeOK, Mark, GrantRow
<1>2. ASSUME NEW u \in W
      PROVE  KeyOf(u)' = None
    <2>1. ~ \E g \in Grant : grant'[g].status \in Open /\ grant'[g].user = u
        BY <1>1 DEF Open, Closed
    <2> QED
        BY <2>1 DEF KeyOf, OpenGrants
<1>3. ASSUME NEW u \in User \ W
      PROVE  KeyOf(u)' = KeyOf(u)
    <2>1. \A g \in Grant : grant'[g].status \in Open /\ grant'[g].user = u
                           <=> grant[g].status \in Open /\ grant[g].user = u
        BY <1>1 DEF Open, Closed
    <2>2. OpenGrants(u)' = OpenGrants(u)
        BY <2>1 DEF OpenGrants
    <2> QED
        BY <2>2 DEF KeyOf
<1>4. leaseKey' = [u \in User |-> IF u \in W THEN None ELSE leaseKey[u]]
    BY <1>2, <1>3 DEF leaseKey
<1>5. G = {leaseKey[u] : u \in W}
    BY GrantsAreKeys
<1>6. \A g \in Grant : grant'[g].status \in Closed <=> grant[g].status \in Closed \/ g \in G
    BY <1>1
<1>7. leaseSpent' = leaseSpent \cup G
    BY <1>6 DEF leaseSpent
<1> QED
    BY <1>4, <1>5, <1>7

LEMMA OwnersOfStates ==
    ASSUME NEW state
    PROVE  /\ state \in TakeoverState => OwnerOf(state) \in Lease!HumanSide
           /\ state = "ABSENT" => OwnerOf(state) = "absent"
           /\ state = "AGENT_ACTIVE" => OwnerOf(state) = "agent"
           /\ state = "WAITING_FOR_HUMAN" => OwnerOf(state) = "offered"
           /\ state = "HUMAN_ACTIVE" => OwnerOf(state) = "human"
           /\ state = "READY_TO_RESUME" => OwnerOf(state) = "returned"
BY DEF OwnerOf, TakeoverState, Lease!HumanSide

\* Every way out of a takeover withdraws.
LEMMA ClosingWithdraws ==
    ASSUME IInv, NEW W \in SUBSET User, NEW G \in SUBSET Grant, NEW status \in Closed,
           \A u \in W : session[u].state \in TakeoverState,
           \A g \in Grant : g \in G <=> grant[g].status \in Open /\ grant[g].user \in W,
           session' = ReturnControl(W),
           grant' = Mark(G, status)
    PROVE  [Lease!Next]_(Lease!vars)
<1>1. /\ leaseKey' = [u \in User |-> IF u \in W THEN None ELSE leaseKey[u]]
      /\ leaseSpent' = leaseSpent \cup {leaseKey[u] : u \in W}
    BY ClosingSpendsKeys
<1>2. /\ leaseOwner' = [u \in User |-> IF u \in W THEN "returned" ELSE leaseOwner[u]]
      /\ leaseFence' = [u \in User |-> IF u \in W THEN leaseFence[u] + 1 ELSE leaseFence[u]]
    BY OwnersOfStates DEF leaseOwner, leaseFence, ReturnControl
<1>3. CASE W = {}
    <2>1. leaseKey' = leaseKey /\ leaseSpent' = leaseSpent
        BY <1>1, <1>3 DEF leaseKey
    <2>2. leaseOwner' = leaseOwner /\ leaseFence' = leaseFence
        BY <1>2, <1>3 DEF leaseOwner, leaseFence
    <2> QED
        BY <2>1, <2>2 DEF Lease!vars
<1>4. CASE W # {}
    <2>1. \A u \in W : leaseOwner[u] \in Lease!HumanSide
        BY OwnersOfStates DEF leaseOwner
    <2>2. Lease!Withdraw(W)
        BY <1>1, <1>2, <1>4, <2>1 DEF Lease!Withdraw, Lease!Withdrawn
    <2> QED
        BY <2>2 DEF Lease!Next
<1> QED
    BY <1>3, <1>4

-----------------------------------------------------------------------------
(* One lemma per kind of step. *)

LEMMA RepinRefines ==
    ASSUME IInv, NEW u \in User, NEW e \in Email \cup {None}, Repin(u, e)
    PROVE  [Lease!Next]_(Lease!vars)
<1>1. PICK W \in {{}, {u}} :
        /\ \A w \in W : session[w].state \in TakeoverState
        /\ session' = ReturnControl(W)
        /\ grant' = Mark({g \in OpenGrants(u) : u \in W}, "REVOKED")
    BY DEF Repin
<1> DEFINE G == {g \in OpenGrants(u) : u \in W}
<1>2. /\ W \in SUBSET User
      /\ G \in SUBSET Grant
      /\ \A g \in Grant : g \in G <=> grant[g].status \in Open /\ grant[g].user \in W
    BY DEF OpenGrants
<1> HIDE DEF G
<1> QED
    BY <1>1, <1>2, ClosingWithdraws DEF Closed, G

LEMMA SweepRefines ==
    ASSUME IInv, NEW G \in SUBSET (StaleLinks \cup PastDeadline),
           session' = ReturnControl(Owners(G)), grant' = Mark(G, "EXPIRED")
    PROVE  [Lease!Next]_(Lease!vars)
BY SweepSelects, ClosingWithdraws DEF Closed

LEMMA RevokeRefines ==
    ASSUME IInv, NEW W \in SUBSET User, \A u \in W : session[u].state \in TakeoverState, Revoke(W)
    PROVE  [Lease!Next]_(Lease!vars)
<1> DEFINE G == {g \in Grant : grant[g].status \in Open /\ grant[g].user \in W}
<1>1. session' = ReturnControl(W) /\ grant' = Mark(G, "REVOKED")
    BY DEF Revoke
<1>2. G \in SUBSET Grant /\ "REVOKED" \in Closed
    BY DEF Closed
<1>3. \A g \in Grant : g \in G <=> grant[g].status \in Open /\ grant[g].user \in W
    OBVIOUS
<1> HIDE DEF G
<1> QED
    BY <1>1, <1>2, <1>3, ClosingWithdraws

LEMMA EndActiveRefines ==
    ASSUME IInv, NEW g \in Grant, NEW status \in Closed, EndActive(g, status)
    PROVE  [Lease!Next]_(Lease!vars)
<1>1. /\ grant[g].status \in Open
      /\ grant[g].user \in User
      /\ session[grant[g].user].state \in TakeoverState
    BY DEF EndActive, ActiveUnder, Open, TakeoverState, IInv, GrantInv, GrantsNamed
<1>2. \A h \in Grant : h \in {g} <=> grant[h].status \in Open /\ grant[h].user \in {grant[g].user}
    BY <1>1, OneOpen DEF IInv
<1>3. session' = ReturnControl({grant[g].user}) /\ grant' = Mark({g}, status)
    BY DEF EndActive
<1>4. {grant[g].user} \in SUBSET User /\ {g} \in SUBSET Grant
    BY <1>1
<1> QED
    BY <1>1, <1>2, <1>3, <1>4, ClosingWithdraws

\* A new session opens the browser for the agent; otherwise only links expire.
LEMMA CreateOrResumeRefines ==
    ASSUME IInv, NEW u \in User, CreateOrResume(u)
    PROVE  [Lease!Next]_(Lease!vars)
<1> DEFINE W == Owners(StaleLinks)
<1> DEFINE swept == ReturnControl(W)
<1>1. /\ session' = IF swept[u].state = "ABSENT"
                    THEN [swept EXCEPT ![u] = [state |-> "AGENT_ACTIVE", epoch |-> 1]]
                    ELSE swept
      /\ grant' = Mark(StaleLinks, "EXPIRED")
    BY DEF CreateOrResume
<1>2. /\ StaleLinks \in SUBSET Grant
      /\ W \in SUBSET User
      /\ \A w \in W : session[w].state \in TakeoverState
      /\ \A g \in Grant : g \in StaleLinks <=> grant[g].status \in Open /\ grant[g].user \in W
    BY SweepSelects
<1>3. CASE swept[u].state # "ABSENT"
    BY <1>1, <1>3, SweepRefines
<1>4. CASE swept[u].state = "ABSENT"
    <2>1. session[u].state = "ABSENT" /\ u \notin W
        BY <1>4 DEF ReturnControl
    <2>2. /\ leaseKey' = [x \in User |-> IF x \in W THEN None ELSE leaseKey[x]]
          /\ leaseSpent' = leaseSpent \cup {leaseKey[w] : w \in W}
        <3> HIDE DEF W
        <3> QED
            BY <1>1, <1>2, ClosingSpendsKeys DEF Closed
    <2>3. session' = [x \in User |-> IF x = u THEN [state |-> "AGENT_ACTIVE", epoch |-> 1]
                                     ELSE swept[x]]
        BY <1>1, <1>4 DEF ReturnControl
    <2>4. leaseOwner' = [x \in User |-> IF x = u THEN "agent"
                                        ELSE IF x \in W THEN "returned" ELSE leaseOwner[x]]
        <3> HIDE DEF W
        <3> QED
            BY <2>3, OwnersOfStates DEF leaseOwner, ReturnControl
    <2>5. leaseFence' = [x \in User |-> IF x = u THEN 1
                                        ELSE IF x \in W THEN leaseFence[x] + 1 ELSE leaseFence[x]]
        <3> HIDE DEF W
        <3> QED
            BY <2>3 DEF leaseFence, ReturnControl
    <2>6. leaseOwner[u] = "absent" /\ \A w \in W : leaseOwner[w] \in Lease!HumanSide
        BY <1>2, <2>1, OwnersOfStates DEF leaseOwner
    <2>7. Lease!Open(u, W)
        <3> HIDE DEF W
        <3> QED
            BY <2>2, <2>4, <2>5, <2>6 DEF Lease!Open
    <2> HIDE DEF W
    <2> QED
        BY <1>2, <2>7 DEF Lease!Next
<1> QED
    BY <1>3, <1>4

\* The agent has no grant open, so the new grant is its user's only one.
LEMMA IssueRefines ==
    ASSUME IInv, NEW u \in User, NEW e \in Nat, NEW m, NEW g \in Grant, IssueTakeover(u, e, m, g)
    PROVE  [Lease!Next]_(Lease!vars)
<1> DEFINE row == [status |-> "ISSUED", user |-> u, owner |-> profile[u].email,
                   epoch |-> e + 1, expires |-> now + LinkTtl, activeExpires |-> 0]
<1>1. /\ grant[g].status = "UNISSUED"
      /\ session[u].state = "AGENT_ACTIVE"
      /\ session[u].epoch = e
      /\ session' = [session EXCEPT ![u] = [state |-> "WAITING_FOR_HUMAN", epoch |-> e + 1]]
      /\ grant' = [Mark(OpenGrants(u), "REVOKED") EXCEPT ![g] = row]
    BY DEF IssueTakeover, HoldsLease
<1>2. OpenGrants(u) = {}
    BY <1>1 DEF IInv, GrantInv, GrantMatchesControl, WaitingOn, ActiveUnder, OpenGrants, Open
<1>3. /\ grant'[g].status = "ISSUED"
      /\ grant'[g].user = u
      /\ \A h \in Grant : h # g => grant'[h] = grant[h]
    BY <1>1, <1>2 DEF Mark
<1>4. OpenGrants(u)' = {g}
    BY <1>2, <1>3 DEF OpenGrants, Open
<1>5. \A x \in User : x # u => OpenGrants(x)' = OpenGrants(x)
    BY <1>1, <1>3 DEF OpenGrants, Open
<1>6. KeyOf(u)' = g /\ \A x \in User : x # u => KeyOf(x)' = KeyOf(x)
    BY <1>4, <1>5 DEF KeyOf
<1>7. leaseKey' = [leaseKey EXCEPT ![u] = g]
    BY <1>6 DEF leaseKey
<1>8. leaseSpent' = leaseSpent /\ g \notin leaseSpent
    BY <1>1, <1>3 DEF leaseSpent, Closed
<1>9. \A x \in User : leaseKey[x] # g
    <2>1. None \notin Grant
        BY StoreAssumption
    <2>2. \A x \in User : g \notin OpenGrants(x)
        BY <1>1 DEF OpenGrants, Open
    <2>3. \A x \in User : KeyOf(x) = None \/ KeyOf(x) \in OpenGrants(x)
        BY DEF KeyOf
    <2> QED
        BY <2>1, <2>2, <2>3 DEF leaseKey
<1>10. /\ session'[u] = [state |-> "WAITING_FOR_HUMAN", epoch |-> e + 1]
       /\ \A x \in User : x # u => session'[x] = session[x]
    BY <1>1 DEF IInv, TypeOK
<1>11. leaseOwner' = [leaseOwner EXCEPT ![u] = "offered"]
    <2>1. \A x \in User : OwnerOf(session'[x].state) =
                         IF x = u THEN "offered" ELSE OwnerOf(session[x].state)
        BY <1>10, OwnersOfStates
    <2> QED
        BY <2>1 DEF leaseOwner
<1>12. leaseFence' = [leaseFence EXCEPT ![u] = @ + 1]
    <2>1. \A x \in User : session'[x].epoch =
                         IF x = u THEN session[x].epoch + 1 ELSE session[x].epoch
        BY <1>1, <1>10
    <2> QED
        BY <2>1 DEF leaseFence
<1>13. leaseOwner[u] = "agent"
    BY <1>1, OwnersOfStates DEF leaseOwner
<1>14. Lease!Offer(u, g)
    BY <1>7, <1>8, <1>9, <1>11, <1>12, <1>13 DEF Lease!Offer
<1> QED
    BY <1>14 DEF Lease!Next

\* The human redeems the one grant that is open.
LEMMA RedeemRefines ==
    ASSUME IInv, NEW g \in Grant, NEW d, RedeemTakeover(g, d)
    PROVE  [Lease!Next]_(Lease!vars)
<1> DEFINE u == grant[g].user
<1>1. /\ grant[g].status = "ISSUED"
      /\ session[u].state = "WAITING_FOR_HUMAN"
      /\ session' = [session EXCEPT ![u].state = "HUMAN_ACTIVE"]
      /\ grant' = [grant EXCEPT ![g].status = "REDEEMED", ![g].activeExpires = d]
    BY DEF RedeemTakeover, WaitingOn
<1>2. u \in User
    BY <1>1 DEF IInv, GrantInv, GrantsNamed
<1>3. \A h \in Grant :
        /\ grant'[h].user = grant[h].user
        /\ grant'[h].status = IF h = g THEN "REDEEMED" ELSE grant[h].status
    BY <1>1 DEF IInv, TypeOK, GrantRow
<1>4. \A x \in User : OpenGrants(x)' = OpenGrants(x)
    BY <1>1, <1>3 DEF OpenGrants, Open
<1>5. leaseKey' = leaseKey
    BY <1>4 DEF leaseKey, KeyOf
<1>6. leaseSpent' = leaseSpent
    <2>1. grant[g].status \notin Closed /\ "REDEEMED" \notin Closed
        BY <1>1 DEF Closed
    <2>2. \A h \in Grant : grant'[h].status \in Closed <=> grant[h].status \in Closed
        BY <1>3, <2>1
    <2> QED
        BY <2>2 DEF leaseSpent
<1>7. KeyOf(u) = g
    <2>1. g \in OpenGrants(u)
        BY <1>1 DEF OpenGrants, Open
    <2> HIDE DEF u
    <2> QED
        BY <1>2, <2>1, KeyIsTheOpenGrant
<1>8. leaseKey[u] # None
    BY <1>2, <1>7, StoreAssumption DEF leaseKey
<1>9. /\ session'[u].state = "HUMAN_ACTIVE"
      /\ session'[u].epoch = session[u].epoch
      /\ \A x \in User : x # u => session'[x] = session[x]
    BY <1>1, <1>2 DEF IInv, TypeOK, Session
<1>10. leaseOwner' = [x \in User |-> IF x = u THEN "human" ELSE leaseOwner[x]]
    <2> HIDE DEF u
    <2> QED
        BY <1>2, <1>9, OwnersOfStates DEF leaseOwner
<1>11. leaseFence' = leaseFence
    <2> HIDE DEF u
    <2> QED
        BY <1>9 DEF leaseFence
<1>12. leaseOwner[u] = "offered"
    BY <1>1, <1>2, OwnersOfStates DEF leaseOwner
<1>13. Lease!Claim(u, {})
    <2>1. /\ leaseKey = [x \in User |-> leaseKey[x]]
          /\ leaseFence = [x \in User |-> leaseFence[x]]
        BY DEF leaseKey, leaseFence
    <2> QED
        BY <1>5, <1>6, <1>8, <1>10, <1>11, <1>12, <2>1 DEF Lease!Claim
<1> QED
    BY <1>2, <1>13 DEF Lease!Next

LEMMA ResumeRefines ==
    ASSUME IInv, NEW u \in User, ResumeAgent(u)
    PROVE  [Lease!Next]_(Lease!vars)
<1>1. /\ session[u].state = "READY_TO_RESUME"
      /\ session' = [session EXCEPT ![u] = [state |-> "AGENT_ACTIVE", epoch |-> @.epoch + 1]]
      /\ UNCHANGED grant
    BY DEF ResumeAgent
<1>2. /\ session'[u].state = "AGENT_ACTIVE"
      /\ session'[u].epoch = session[u].epoch + 1
      /\ \A x \in User : x # u => session'[x] = session[x]
    BY <1>1 DEF IInv, TypeOK
<1>3. leaseOwner' = [leaseOwner EXCEPT ![u] = "agent"] /\ leaseOwner[u] = "returned"
    <2>1. \A x \in User : OwnerOf(session'[x].state) =
                         IF x = u THEN "agent" ELSE OwnerOf(session[x].state)
        BY <1>2, OwnersOfStates
    <2>2. OwnerOf(session[u].state) = "returned"
        BY <1>1, OwnersOfStates
    <2> QED
        BY <2>1, <2>2 DEF leaseOwner
<1>4. leaseFence' = [leaseFence EXCEPT ![u] = @ + 1]
    BY <1>2 DEF leaseFence
<1>5. Lease!Regain(u)
    BY <1>1, <1>3, <1>4, SameGrants DEF Lease!Regain
<1> QED
    BY <1>5 DEF Lease!Next

LEMMA RowsUnchangedRefines ==
    ASSUME UNCHANGED <<session, grant>>
    PROVE  UNCHANGED Lease!vars
BY SameGrants DEF Lease!vars, leaseOwner, leaseFence

LEMMA InitRefines == Init => Lease!Init
<1> SUFFICES ASSUME Init PROVE Lease!Init
    OBVIOUS
<1>1. \A u \in User : session[u] = NoSession
    BY DEF Init
<1>2. \A g \in Grant : grant[g].status = "UNISSUED"
    BY DEF Init, NoGrant
<1>3. leaseOwner = [u \in User |-> "absent"] /\ leaseFence = [u \in User |-> 0]
    BY <1>1, OwnersOfStates DEF leaseOwner, leaseFence, NoSession
<1>4. leaseKey = [u \in User |-> None] /\ leaseSpent = {}
    BY <1>2 DEF leaseKey, leaseSpent, KeyOf, OpenGrants, Open, Closed
<1> QED
    BY <1>3, <1>4 DEF Lease!Init

LEMMA NextRefines == IInv /\ [Next]_storeVars => [Lease!Next]_(Lease!vars)
<1> SUFFICES ASSUME IInv, [Next]_storeVars PROVE [Lease!Next]_(Lease!vars)
    OBVIOUS
<1>1. CASE UNCHANGED <<session, grant>>
    BY <1>1, RowsUnchangedRefines
<1>2. ASSUME NEW u \in User, NEW e \in Email \cup {None}, ProvisionNew(u, e) \/ Repin(u, e)
      PROVE  [Lease!Next]_(Lease!vars)
    BY <1>1, <1>2, RepinRefines DEF ProvisionNew
<1>3. CASE SweepLinks \/ SweepAll
    <2>1. PICK G \in SUBSET (StaleLinks \cup PastDeadline) :
            session' = ReturnControl(Owners(G)) /\ grant' = Mark(G, "EXPIRED")
        BY <1>3 DEF SweepLinks, SweepAll
    <2> QED
        BY <2>1, SweepRefines
<1>4. ASSUME NEW u \in User, CreateOrResume(u) \/ ResumeAgent(u) \/ AbortTakeover(u)
      PROVE  [Lease!Next]_(Lease!vars)
    <2>1. AbortTakeover(u) => [Lease!Next]_(Lease!vars)
        BY RevokeRefines DEF AbortTakeover
    <2> QED
        BY <1>4, <2>1, CreateOrResumeRefines, ResumeRefines
<1>5. ASSUME NEW u \in User, NEW m \in Email \cup {None}, NEW g \in Grant,
             NEW e \in 1 .. session[u].epoch, IssueTakeover(u, e, m, g)
      PROVE  [Lease!Next]_(Lease!vars)
    <2>1. e \in Nat
        BY DEF IInv, TypeOK, Session
    <2> QED
        BY <1>5, <2>1, IssueRefines
<1>6. ASSUME NEW g \in Grant, NEW d \in Deadline, RedeemTakeover(g, d)
      PROVE  [Lease!Next]_(Lease!vars)
    BY <1>6, RedeemRefines
<1>7. ASSUME NEW g \in Grant,
             ActiveGrantExpired(g) \/ ExpireActiveGrant(g) \/ CompleteTakeover(g)
      PROVE  [Lease!Next]_(Lease!vars)
    BY <1>7, EndActiveRefines DEF ActiveGrantExpired, ExpireActiveGrant, CompleteTakeover, Closed
<1>8. CASE RecoverFailClosed
    <2>1. \A W \in SUBSET User :
            (\A u \in W : session[u].state \in TakeoverState) /\ Revoke(W) => [Lease!Next]_(Lease!vars)
        BY RevokeRefines
    <2> QED
        BY <2>1, <1>8 DEF RecoverFailClosed
<1>9. CASE Tick
    BY <1>1, <1>9 DEF Tick
<1>10. CASE UNCHANGED storeVars
    BY <1>1, <1>10 DEF storeVars
<1> QED
    BY <1>2, <1>3, <1>4, <1>5, <1>6, <1>7, <1>8, <1>9, <1>10 DEF Next

\* Every behaviour of the store is a behaviour of the lease: one capability at a
\* time per user, none used twice, every change of hands fenced, and no way
\* from the human's side straight back to the agent.
THEOREM StoreImplementsLease == Spec => LeaseSpec
BY InitIInv, NextIInv, InitRefines, NextRefines, PTL DEF Spec, LeaseSpec, Lease!Spec

=============================================================================
