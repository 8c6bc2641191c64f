------------------------ MODULE TakeoverBrokerProofs ------------------------
(***************************************************************************)
(* What the broker's interleavings cannot break, for any users, grants,    *)
(* requests, epochs, retries and failing writes.                           *)
(*                                                                         *)
(* Everything rests on who holds a session's lock.  A task past its        *)
(* acquisition is the first of the session's queue, and nothing else is;   *)
(* so between two awaits of the holder only steps that take no lock can    *)
(* happen: a redemption, a sweep, a dying process, the clock.  BInv says   *)
(* for every place a task or an expiry task can wait at what those steps   *)
(* leave true of its session, browser, viewer and relay, together with     *)
(* what the store keeps by itself (IInv).  The lemmas come in that order:  *)
(* queues, steps of the store as the broker takes them, the invariant,     *)
(* one lemma per handler, the theorems, and last the store seen through    *)
(* the broker.                                                             *)
(***************************************************************************)
EXTENDS TakeoverBroker, TakeoverStoreLeaseProofs, SequenceTheorems

-----------------------------------------------------------------------------
(* Queues: who is in one, and who is first. *)

Waiters(s) == {s[i] : i \in 1 .. Len(s)}
Once(s) == \A i, j \in 1 .. Len(s) : s[i] = s[j] => i = j
First(s, x) == s # <<>> /\ Head(s) = x

LEMMA FirstWaits ==
    ASSUME NEW S, NEW s \in Seq(S), NEW x, First(s, x)
    PROVE  x \in Waiters(s)
<1>1. Len(s) \in Nat \ {0} /\ Head(s) = s[1]
    BY EmptySeq DEF First
<1> QED
    BY <1>1 DEF First, Waiters

\* A newcomer is last, and first only in an empty queue.
LEMMA Joining ==
    ASSUME NEW S, NEW s \in Seq(S), NEW x \in S, x \notin Waiters(s), Once(s)
    PROVE  /\ Append(s, x) \in Seq(S)
           /\ Once(Append(s, x))
           /\ Waiters(Append(s, x)) = Waiters(s) \cup {x}
           /\ \A y : First(s, y) => First(Append(s, x), y)
<1> DEFINE t == Append(s, x)
<1>1. /\ t \in Seq(S) /\ t # <<>> /\ Len(t) = Len(s) + 1 /\ Len(s) \in Nat
      /\ \A i \in 1 .. Len(s) : t[i] = s[i]
      /\ t[Len(s) + 1] = x
    BY AppendProperties, LenProperties
<1>2. \A y : First(s, y) => First(t, y)
    BY <1>1, HeadTailAppend DEF First
<1> HIDE DEF t
<1>3. Once(t)
    BY <1>1 DEF Once, Waiters
<1>4. Waiters(t) = Waiters(s) \cup {x}
    <2>1. Waiters(t) \subseteq Waiters(s) \cup {x}
        BY <1>1 DEF Waiters
    <2>2. \A y \in Waiters(s) : y \in Waiters(t)
        <3> TAKE y \in Waiters(s)
        <3>1. PICK i \in 1 .. Len(s) : s[i] = y
            BY DEF Waiters
        <3>2. i \in 1 .. Len(t) /\ t[i] = y
            BY <1>1, <3>1
        <3> QED
            BY <3>2 DEF Waiters
    <2>3. x \in Waiters(t)
        <3>1. Len(t) \in 1 .. Len(t) /\ t[Len(t)] = x
            BY <1>1
        <3> QED
            BY <3>1 DEF Waiters
    <2> QED
        BY <2>1, <2>2, <2>3
<1> QED
    BY <1>1, <1>2, <1>3, <1>4 DEF t

\* The first one leaves, the others keep their order.
LEMMA Leaving ==
    ASSUME NEW S, NEW s \in Seq(S), NEW x, First(s, x), Once(s)
    PROVE  /\ Tail(s) \in Seq(S)
           /\ Once(Tail(s))
           /\ Waiters(Tail(s)) = Waiters(s) \ {x}
<1> DEFINE t == Tail(s)
<1>1. /\ t \in Seq(S) /\ Len(t) = Len(s) - 1 /\ Len(s) \in Nat \ {0}
      /\ \A i \in 1 .. Len(t) : t[i] = s[i + 1]
      /\ s[1] = x
    BY HeadTailProperties, LenProperties, EmptySeq DEF First
<1> HIDE DEF t
<1>2. Once(t)
    <2> SUFFICES ASSUME NEW i \in 1 .. Len(t), NEW j \in 1 .. Len(t), t[i] = t[j]
                 PROVE  i = j
        BY DEF Once
    <2>1. i + 1 \in 1 .. Len(s) /\ j + 1 \in 1 .. Len(s) /\ s[i + 1] = s[j + 1]
        BY <1>1
    <2>2. i + 1 = j + 1
        BY <2>1 DEF Once
    <2> QED
        BY <2>2
<1>3. ASSUME NEW y \in Waiters(t)
      PROVE  y \in Waiters(s) \ {x}
    <2>1. PICK i \in 1 .. Len(t) : t[i] = y
        BY <1>3 DEF Waiters
    <2>2. i + 1 \in 1 .. Len(s) /\ 1 \in 1 .. Len(s) /\ s[i + 1] = y /\ i + 1 # 1
        BY <1>1, <2>1
    <2>3. y # x
        BY <1>1, <2>2 DEF Once
    <2> QED
        BY <2>2, <2>3 DEF Waiters
<1>4. ASSUME NEW y \in Waiters(s) \ {x}
      PROVE  y \in Waiters(t)
    <2>1. PICK i \in 1 .. Len(s) : s[i] = y
        BY <1>4 DEF Waiters
    <2>2. i - 1 \in 1 .. Len(t) /\ t[i - 1] = y
        BY <1>1, <1>4, <2>1
    <2> QED
        BY <2>2 DEF Waiters
<1> QED
    BY <1>1, <1>2, <1>3, <1>4 DEF t

\* One who is cancelled leaves; whoever is first, if it is not the one, stays first.
LEMMA Cancelling ==
    ASSUME NEW S, NEW s \in Seq(S), NEW x, Once(s)
    PROVE  /\ Without(s, x) \in Seq(S)
           /\ Once(Without(s, x))
           /\ Waiters(Without(s, x)) = Waiters(s) \ {x}
           /\ \A y : y # x /\ First(s, y) => First(Without(s, x), y)
<1>1. CASE x \notin Waiters(s)
    <2>1. Without(s, x) = s
        BY <1>1 DEF Without, Waiters
    <2> QED
        BY <1>1, <2>1
<1>2. CASE x \in Waiters(s)
    <2> DEFINE k == CHOOSE j \in 1 .. Len(s) : s[j] = x
               t == [j \in 1 .. Len(s) - 1 |-> IF j < k THEN s[j] ELSE s[j + 1]]
    <2>1. \E j \in 1 .. Len(s) : s[j] = x
        BY <1>2 DEF Waiters
    <2>2. Without(s, x) = t
        BY <2>1 DEF Without
    <2>3. k \in 1 .. Len(s) /\ s[k] = x
        BY <2>1
    <2>4. Len(s) \in Nat \ {0} /\ \A i \in 1 .. Len(s) : s[i] \in S
        BY <2>3, LenProperties, ElementOfSeq
    <2> HIDE DEF k
    <2>5. t \in [1 .. Len(s) - 1 -> S] /\ Len(s) - 1 \in Nat
        BY <2>3, <2>4
    <2>6. t \in Seq(S) /\ Len(t) = Len(s) - 1
        BY <2>5
    <2>7. \A j \in 1 .. Len(t) : t[j] = IF j < k THEN s[j] ELSE s[j + 1]
        BY <2>6
    <2> HIDE DEF t
    <2>8. Once(t)
        <3> SUFFICES ASSUME NEW i \in 1 .. Len(t), NEW j \in 1 .. Len(t), t[i] = t[j]
                     PROVE  i = j
            BY DEF Once
        <3> DEFINE pos(n) == IF n < k THEN n ELSE n + 1
        <3>1. pos(i) \in 1 .. Len(s) /\ pos(j) \in 1 .. Len(s) /\ s[pos(i)] = s[pos(j)]
            BY <2>4, <2>6, <2>7
        <3>2. pos(i) = pos(j)
            BY <3>1 DEF Once
        <3> QED
            BY <2>3, <3>2
    <2>9. ASSUME NEW y \in Waiters(t)
          PROVE  y \in Waiters(s) \ {x}
        <3>1. PICK i \in 1 .. Len(t) : t[i] = y
            BY <2>9 DEF Waiters
        <3> DEFINE p == IF i < k THEN i ELSE i + 1
        <3>2. p \in 1 .. Len(s) /\ s[p] = y /\ p # k
            BY <2>3, <2>4, <2>6, <2>7, <3>1
        <3>3. y # x
            BY <2>3, <3>2 DEF Once
        <3> QED
            BY <3>2, <3>3 DEF Waiters
    <2>10. ASSUME NEW y \in Waiters(s) \ {x}
           PROVE  y \in Waiters(t)
        <3>1. PICK i \in 1 .. Len(s) : s[i] = y
            BY <2>10 DEF Waiters
        <3> DEFINE p == IF i < k THEN i ELSE i - 1
        <3>2. p \in 1 .. Len(t) /\ t[p] = y
            BY <2>3, <2>4, <2>6, <2>7, <2>10, <3>1
        <3> QED
            BY <3>2 DEF Waiters
    <2>11. ASSUME NEW y, y # x, First(s, y)
           PROVE  First(t, y)
        <3>1. s[1] = y
            BY <2>11 DEF First
        <3>2. k # 1 /\ 1 \in 1 .. Len(t)
            BY <2>3, <2>4, <2>6, <2>11, <3>1
        <3>3. t[1] = y
            BY <2>3, <2>7, <3>1, <3>2
        <3> QED
            BY <2>6, <3>2, <3>3 DEF First
    <2> QED
        BY <2>2, <2>6, <2>8, <2>9, <2>10, <2>11
<1> QED
    BY <1>1, <1>2

-----------------------------------------------------------------------------
(* What a step of the store does to one user. *)

\* The session stays as it is, and with it the grant the human is active under.
Stays(u) ==
    /\ session'[u] = session[u]
    /\ \A g \in Grant : grant[g].user = u /\ ActiveUnder(g) => grant'[g] = grant[g]

\* Control leaves the human's side.
Withdrawn(u) ==
    /\ session[u].state \in TakeoverState
    /\ session'[u].state = "READY_TO_RESUME"
    /\ session'[u].epoch = session[u].epoch + 1

Opened(u) == session[u].state = "ABSENT" /\ session'[u].state = "AGENT_ACTIVE"

\* The human of grant g accepts.
Accepted(u, g) ==
    /\ session[u].state = "WAITING_FOR_HUMAN"
    /\ session'[u].state = "HUMAN_ACTIVE"
    /\ session'[u].epoch = session[u].epoch
    /\ grant[g].user = u
    /\ ActiveUnder(g)'

\* What may happen to a session without its lock.
Outside(u) == Stays(u) \/ Withdrawn(u) \/ Opened(u) \/ \E g \in Grant : Accepted(u, g)

\* The row of a grant is there for good, and its user with it.
RowsStay == \A g \in Issued : g \in Issued' /\ grant'[g].user = grant[g].user

\* Nobody accepts in this step.
Quiet == \A u \in User : Stays(u) \/ Withdrawn(u) \/ Opened(u)

LEMMA ClosingIsQuiet ==
    ASSUME IInv,
           NEW W \in SUBSET User, NEW N \in SUBSET User, NEW G \in SUBSET Grant, NEW status \in Closed,
           \A u \in W : session[u].state \in TakeoverState,
           \A g \in Grant : g \in G <=> grant[g].status \in Open /\ grant[g].user \in W,
           \A u \in N : session[u].state = "ABSENT",
           session' = [u \in User |-> IF u \in N THEN [state |-> "AGENT_ACTIVE", epoch |-> 1]
                                      ELSE ReturnControl(W)[u]],
           grant' = Mark(G, status)
    PROVE  Quiet /\ RowsStay
<1>1. \A g \in Grant : /\ grant'[g].user = grant[g].user
                       /\ g \in G => grant'[g].status = status
                       /\ g \notin G => grant'[g] = grant[g]
    BY DEF Mark, IInv, TypeOK, GrantRow
<1>2. RowsStay
    BY <1>1 DEF RowsStay, Issued, Closed
<1>3. ASSUME NEW u \in User
      PROVE  Stays(u) \/ Withdrawn(u) \/ Opened(u)
    <2>1. CASE u \in N
        BY <2>1 DEF Opened
    <2>2. CASE u \in W /\ u \notin N
        BY <2>2 DEF Withdrawn, ReturnControl
    <2>3. CASE u \notin W /\ u \notin N
        BY <2>3, <1>1 DEF Stays, ReturnControl
    <2> QED
        BY <2>1, <2>2, <2>3
<1> QED
    BY <1>2, <1>3 DEF Quiet

LEMMA ClosingOnlyIsQuiet ==
    ASSUME IInv,
           NEW W \in SUBSET User, NEW G \in SUBSET Grant, NEW status \in Closed,
           \A u \in W : session[u].state \in TakeoverState,
           \A g \in Grant : g \in G <=> grant[g].status \in Open /\ grant[g].user \in W,
           session' = ReturnControl(W),
           grant' = Mark(G, status)
    PROVE  Quiet /\ RowsStay
<1> DEFINE N == {}
<1>1. N \in SUBSET User /\ \A u \in N : session[u].state = "ABSENT"
    OBVIOUS
<1>2. session' = [u \in User |-> IF u \in N THEN [state |-> "AGENT_ACTIVE", epoch |-> 1]
                                 ELSE ReturnControl(W)[u]]
    BY DEF ReturnControl
<1> HIDE DEF N
<1> QED
    BY <1>1, <1>2, ClosingIsQuiet

LEMMA RowsUnchangedIsQuiet ==
    ASSUME UNCHANGED <<session, grant>>
    PROVE  Quiet /\ RowsStay
BY DEF Quiet, Stays, RowsStay, Issued

LEMMA SweepIsQuiet ==
    ASSUME IInv, NEW G \in SUBSET (StaleLinks \cup PastDeadline),
           session' = ReturnControl(Owners(G)), grant' = Mark(G, "EXPIRED")
    PROVE  Quiet /\ RowsStay
<1>1. "EXPIRED" \in Closed
    BY DEF Closed
<1> QED
    BY <1>1, SweepSelects, ClosingOnlyIsQuiet

LEMMA RevokeIsQuiet ==
    ASSUME IInv, NEW W \in SUBSET User,
           \A u \in W : session[u].state \in TakeoverState, Revoke(W)
    PROVE  Quiet /\ RowsStay
<1>1. "REVOKED" \in Closed
    BY DEF Closed
<1> DEFINE G == {g \in Grant : grant[g].status \in Open /\ grant[g].user \in W}
<1>2. /\ G \in SUBSET Grant
      /\ \A g \in Grant : g \in G <=> grant[g].status \in Open /\ grant[g].user \in W
      /\ session' = ReturnControl(W)
      /\ grant' = Mark(G, "REVOKED")
    BY DEF Revoke
<1> HIDE DEF G
<1> QED
    BY <1>1, <1>2, ClosingOnlyIsQuiet

LEMMA RepinIsQuiet ==
    ASSUME IInv, NEW u \in User, NEW e \in Email \cup {None}, Repin(u, e)
    PROVE  Quiet /\ RowsStay
<1> DEFINE W == IF (IF e = None THEN profile[u].email ELSE e) # profile[u].email
                   /\ session[u].state \in TakeoverState THEN {u} ELSE {}
           G == {g \in OpenGrants(u) : u \in W}
<1>1. session' = ReturnControl(W) /\ grant' = Mark(G, "REVOKED")
    BY DEF Repin
<1>2. /\ W \in SUBSET User
      /\ G \in SUBSET Grant
      /\ \A w \in W : session[w].state \in TakeoverState
      /\ \A g \in Grant : g \in G <=> grant[g].status \in Open /\ grant[g].user \in W
    BY DEF OpenGrants
<1>3. "REVOKED" \in Closed
    BY DEF Closed
<1> HIDE DEF W, G
<1> QED
    BY <1>1, <1>2, <1>3, ClosingOnlyIsQuiet

\* A new e-mail that ends a takeover ends that of its user.
LEMMA RepinWithdraws ==
    ASSUME IInv, NEW u \in User, NEW e \in Email \cup {None}, Repin(u, e), session' # session
    PROVE  Withdrawn(u)
<1> DEFINE W == IF (IF e = None THEN profile[u].email ELSE e) # profile[u].email
                   /\ session[u].state \in TakeoverState THEN {u} ELSE {}
<1>1. session' = ReturnControl(W)
    BY DEF Repin
<1>2. W = {u} /\ session[u].state \in TakeoverState
    BY <1>1 DEF ReturnControl, IInv, TypeOK
<1> QED
    BY <1>1, <1>2 DEF ReturnControl, Withdrawn

LEMMA EndActiveIsQuiet ==
    ASSUME IInv, NEW g \in Grant, NEW status \in Closed, EndActive(g, status)
    PROVE  /\ Quiet /\ RowsStay
           /\ grant[g].user \in User /\ Withdrawn(grant[g].user)
<1>1. /\ ActiveUnder(g)
      /\ session' = ReturnControl({grant[g].user})
      /\ grant' = Mark({g}, status)
    BY DEF EndActive
<1>2. /\ grant[g].status \in Open
      /\ grant[g].user \in User
      /\ session[grant[g].user].state \in TakeoverState
    BY <1>1 DEF IInv, GrantInv, GrantsNamed, ActiveUnder, TakeoverState, Open
<1>3. \A h \in Grant : grant[h].status \in Open /\ grant[h].user = grant[g].user => h = g
    BY <1>2, OneOpen DEF IInv
<1>4. Quiet /\ RowsStay
    BY <1>1, <1>2, <1>3, ClosingOnlyIsQuiet
<1>5. Withdrawn(grant[g].user)
    BY <1>1, <1>2 DEF Withdrawn, ReturnControl
<1> QED
    BY <1>2, <1>4, <1>5

LEMMA CreateOrResumeIsQuiet ==
    ASSUME IInv, NEW u \in User, CreateOrResume(u)
    PROVE  Quiet /\ RowsStay
<1> DEFINE W == Owners(StaleLinks)
           N == IF ReturnControl(W)[u].state = "ABSENT" THEN {u} ELSE {}
<1>1. /\ session' = [w \in User |-> IF w \in N THEN [state |-> "AGENT_ACTIVE", epoch |-> 1]
                                    ELSE ReturnControl(W)[w]]
      /\ grant' = Mark(StaleLinks, "EXPIRED")
    BY DEF CreateOrResume, ReturnControl
<1>2. N \in SUBSET User /\ \A w \in N : session[w].state = "ABSENT"
    BY DEF ReturnControl
<1>3. /\ StaleLinks \in SUBSET Grant
      /\ W \in SUBSET User
      /\ \A w \in W : session[w].state \in TakeoverState
      /\ \A g \in Grant : g \in StaleLinks <=> grant[g].status \in Open /\ grant[g].user \in W
    <2>1. StaleLinks \in SUBSET (StaleLinks \cup PastDeadline)
        OBVIOUS
    <2> QED
        BY <2>1, SweepSelects
<1>4. "EXPIRED" \in Closed
    BY DEF Closed
<1> HIDE DEF W, N
<1> QED
    BY <1>1, <1>2, <1>3, <1>4, ClosingIsQuiet

LEMMA IssueHandsOver ==
    ASSUME IInv, NEW u \in User, NEW e \in Nat, NEW m, NEW g \in Grant, IssueTakeover(u, e, m, g)
    PROVE  /\ RowsStay
           /\ \A w \in User \ {u} : Stays(w)
           /\ session[u].state = "AGENT_ACTIVE"
           /\ session'[u].state = "WAITING_FOR_HUMAN"
<1>1. /\ grant[g].status = "UNISSUED"
      /\ HoldsLease(u, e)
      /\ session' = [session EXCEPT ![u] = [state |-> "WAITING_FOR_HUMAN", epoch |-> e + 1]]
      /\ grant' = [Mark(OpenGrants(u), "REVOKED") EXCEPT
                    ![g] = [status |-> "ISSUED", user |-> u, owner |-> profile[u].email,
                            epoch |-> e + 1, expires |-> now + LinkTtl, activeExpires |-> 0]]
    BY DEF IssueTakeover
<1>2. /\ grant'[g].status = "ISSUED"
      /\ \A h \in Grant : /\ h # g => grant'[h].user = grant[h].user
                          /\ h # g /\ h \in OpenGrants(u) => grant'[h].status = "REVOKED"
                          /\ h # g /\ h \notin OpenGrants(u) => grant'[h] = grant[h]
    BY <1>1 DEF Mark, IInv, TypeOK, GrantRow
<1>3. RowsStay
    BY <1>1, <1>2 DEF RowsStay, Issued
<1>4. ASSUME NEW w \in User \ {u}
      PROVE  Stays(w)
    BY <1>1, <1>2 DEF Stays, ActiveUnder, OpenGrants, IInv, TypeOK
<1>5. session[u].state = "AGENT_ACTIVE" /\ session'[u].state = "WAITING_FOR_HUMAN"
    BY <1>1 DEF HoldsLease, IInv, TypeOK
<1> QED
    BY <1>3, <1>4, <1>5

LEMMA ResumeReturns ==
    ASSUME IInv, NEW u \in User, ResumeAgent(u)
    PROVE  /\ RowsStay
           /\ \A w \in User \ {u} : Stays(w)
           /\ session[u].state = "READY_TO_RESUME"
           /\ session'[u].state = "AGENT_ACTIVE"
BY DEF ResumeAgent, RowsStay, Stays, Issued, IInv, TypeOK

\* Redeeming sweeps the links first: the sessions of W are closed, that of g is
\* the human's.
LEMMA SweepThenRedeemStep ==
    ASSUME IInv, NEW g \in Grant, NEW d \in Nat, SweepThenRedeem(g, d)
    PROVE  /\ IInv'
           /\ RowsStay
           /\ grant[g].user \in User
           /\ Accepted(grant[g].user, g)
           /\ \A w \in User \ {grant[g].user} : Stays(w) \/ Withdrawn(w)
<1> DEFINE W == Owners(StaleLinks)
           G == StaleLinks
           o == grant[g].user
<1>1. /\ WaitingOn(g)
      /\ g \notin G
      /\ session' = [ReturnControl(W) EXCEPT ![o].state = "HUMAN_ACTIVE"]
      /\ grant' = [Mark(G, "EXPIRED") EXCEPT ![g].status = "REDEEMED", ![g].activeExpires = d]
      /\ UNCHANGED <<now, profile>>
    BY DEF SweepThenRedeem
<1>2. /\ G \in SUBSET Grant
      /\ W \in SUBSET User
      /\ \A w \in W : session[w].state \in TakeoverState
      /\ \A h \in Grant : h \in G <=> grant[h].status \in Open /\ grant[h].user \in W
    <2>1. StaleLinks \in SUBSET (StaleLinks \cup PastDeadline)
        OBVIOUS
    <2> QED
        BY <2>1, SweepSelects
<1> HIDE DEF W, G
<1>3. /\ o \in User \ W
      /\ grant[g].status = "ISSUED"
      /\ session[o].state = "WAITING_FOR_HUMAN"
      /\ Governs(g)
    BY <1>1, <1>2 DEF IInv, GrantInv, GrantsNamed, WaitingOn, Open
<1>4. /\ grant' \in [Grant -> GrantRow]
      /\ grant'[g].status = "REDEEMED"
      /\ \A h \in Grant : /\ grant'[h].user = grant[h].user
                          /\ grant'[h].epoch = grant[h].epoch
                          /\ grant'[h].owner = grant[h].owner
                          /\ h \in G => grant'[h].status = "EXPIRED"
                          /\ h # g /\ h \notin G => grant'[h] = grant[h]
    <2>1. d \in Nat
        OBVIOUS
    <2>2. /\ Mark(G, "EXPIRED") \in [Grant -> GrantRow]
          /\ \A h \in Grant : /\ Mark(G, "EXPIRED")[h].user = grant[h].user
                              /\ Mark(G, "EXPIRED")[h].epoch = grant[h].epoch
                              /\ Mark(G, "EXPIRED")[h].owner = grant[h].owner
                              /\ h \in G => Mark(G, "EXPIRED")[h].status = "EXPIRED"
                              /\ h \notin G => Mark(G, "EXPIRED")[h] = grant[h]
        BY <1>2 DEF Mark, IInv, TypeOK, GrantRow, GrantStatus, Open, Closed
    <2> DEFINE M == Mark(G, "EXPIRED")
    <2> HIDE DEF M
    <2>3. grant' = [M EXCEPT ![g].status = "REDEEMED", ![g].activeExpires = d]
        BY <1>1 DEF M
    <2>4. M \in [Grant -> GrantRow]
        BY <2>2 DEF M
    <2>5. /\ grant' \in [Grant -> GrantRow]
          /\ grant'[g].status = "REDEEMED"
          /\ grant'[g].user = M[g].user
          /\ grant'[g].epoch = M[g].epoch
          /\ grant'[g].owner = M[g].owner
          /\ \A h \in Grant : h # g => grant'[h] = M[h]
        BY <2>1, <2>3, <2>4 DEF GrantRow, GrantStatus, Open
    <2> QED
        BY <1>1, <2>2, <2>5, SMTT(30) DEF M
<1>5. /\ session' \in [User -> Session]
      /\ session'[o].state = "HUMAN_ACTIVE"
      /\ session'[o].epoch = session[o].epoch
      /\ \A u \in User : /\ u \in W => /\ session'[u].state = "READY_TO_RESUME"
                                       /\ session'[u].epoch = session[u].epoch + 1
                         /\ u \notin W /\ u # o => session'[u] = session[u]
    <2>1. ReturnControl(W) \in [User -> Session] /\ ReturnControl(W)[o] = session[o]
        BY <1>2, <1>3 DEF ReturnControl, IInv, TypeOK, Session, SessionState
    <2>2. /\ session' \in [User -> Session]
          /\ session'[o] = [session[o] EXCEPT !.state = "HUMAN_ACTIVE"]
          /\ \A u \in User : u # o => session'[u] = ReturnControl(W)[u]
        BY <1>1, <1>3, <2>1 DEF Session, SessionState, TakeoverState
    <2>3. session[o] \in Session
        BY <1>3 DEF IInv, TypeOK
    <2> QED
        BY <1>3, <2>2, <2>3 DEF ReturnControl, Session
<1>6. \A h \in Grant : h # g /\ grant[h].status \in Open => grant[h].user \in User \ {o}
    BY <1>3, OneOpen DEF IInv, GrantInv, GrantsNamed, Open
<1>7. ASSUME NEW h \in Grant, h # g, grant'[h].status \in Open
      PROVE  /\ h \notin G /\ grant'[h] = grant[h]
             /\ grant[h].user \in User \ W
             /\ session'[grant[h].user] = session[grant[h].user]
    <2>1. h \notin G /\ grant'[h] = grant[h]
        BY <1>4, <1>7 DEF Open
    <2>2. grant[h].user \in User \ {o} /\ grant[h].user \notin W
        BY <1>2, <1>6, <1>7, <2>1
    <2> QED
        BY <2>1, <2>2, <1>5
<1>8. TypeOK'
    BY <1>1, <1>4, <1>5 DEF IInv, TypeOK
<1>9. GrantsNamed' /\ AbsentAtZero'
    BY <1>2, <1>3, <1>4, <1>5 DEF IInv, GrantInv, GrantsNamed, AbsentAtZero, Open
<1>10. GrantMatchesControl'
    <2>1. ASSUME NEW h \in Grant, grant'[h].status = "ISSUED"
          PROVE  WaitingOn(h)'
        <3>1. h # g
            BY <2>1, <1>4
        <3> QED
            BY <2>1, <3>1, <1>7 DEF IInv, GrantInv, GrantMatchesControl, WaitingOn, Governs, Open
    <2>2. ASSUME NEW h \in Grant, grant'[h].status = "REDEEMED"
          PROVE  ActiveUnder(h)'
        <3>1. CASE h = g
            BY <2>2, <3>1, <1>3, <1>4, <1>5 DEF ActiveUnder, Governs
        <3>2. CASE h # g
            BY <2>2, <3>2, <1>7 DEF IInv, GrantInv, GrantMatchesControl, ActiveUnder, Governs, Open
        <3> QED
            BY <3>1, <3>2
    <2>3. ASSUME NEW u \in User, session'[u].state \in TakeoverState
          PROVE  \E h \in Grant : h \in OpenGrants(u)'
        <3>1. CASE u = o
            BY <3>1, <1>4 DEF OpenGrants, Open
        <3>2. CASE u # o
            <4>1. u \notin W /\ session'[u] = session[u]
                BY <2>3, <3>2, <1>5 DEF TakeoverState
            <4>2. PICK h \in Grant : h \in OpenGrants(u)
                BY <2>3, <4>1 DEF IInv, GrantInv, GrantMatchesControl
            <4>3. h # g /\ h \notin G
                BY <4>1, <4>2, <3>2, <1>2 DEF OpenGrants
            <4> QED
                BY <4>2, <4>3, <1>4 DEF OpenGrants
        <3> QED
            BY <3>1, <3>2
    <2> QED
        BY <2>1, <2>2, <2>3 DEF GrantMatchesControl
<1>11. GrantEpochs'
    <2>1. Issued' = Issued
        BY <1>2, <1>3, <1>4 DEF Issued, Open
    <2>2. ASSUME NEW h \in Grant, grant'[h].status \in Closed
          PROVE  grant'[h].epoch < session'[grant'[h].user].epoch
        <3>1. h # g
            BY <2>2, <1>4 DEF Closed
        <3>2. grant[h].user \in User /\ grant[h].epoch \in Nat /\ session[grant[h].user].epoch \in Nat
            <4>1. h \in Issued
                BY <2>1, <2>2 DEF Issued, Closed
            <4> QED
                BY <4>1 DEF Issued, IInv, GrantInv, GrantsNamed, TypeOK, GrantRow, Session
        <3>3. CASE h \in G
            <4>1. Governs(h) /\ grant[h].user \in W
                BY <3>3, <1>2 DEF IInv, GrantInv, GrantMatchesControl, WaitingOn, ActiveUnder, Open
            <4> QED
                BY <4>1, <3>2, <1>4, <1>5 DEF Governs
        <3>4. CASE h \notin G
            <4>1. grant[h].epoch < session[grant[h].user].epoch
                BY <2>2, <3>1, <3>4, <1>4 DEF IInv, GrantInv, GrantEpochs
            <4> QED
                BY <4>1, <3>2, <1>4, <1>5
        <3> QED
            BY <3>3, <3>4
    <2>3. ASSUME NEW h \in Issued', NEW k \in Issued', h # k, grant'[h].user = grant'[k].user
          PROVE  grant'[h].epoch # grant'[k].epoch
        <3>1. h \in Issued /\ k \in Issued /\ h \in Grant /\ k \in Grant
            BY <2>1 DEF Issued
        <3>2. grant[h].user = grant[k].user
            BY <2>3, <3>1, <1>4
        <3>3. grant[h].epoch # grant[k].epoch
            BY <2>3, <3>1, <3>2 DEF IInv, GrantInv, GrantEpochs
        <3> QED
            BY <3>1, <3>3, <1>4
    <2> QED
        BY <2>2, <2>3 DEF GrantEpochs
<1>12. ProfileInv'
    <2>1. \A h \in Grant : grant'[h].status \in Open => grant[h].status \in Open
        BY <1>3, <1>7 DEF Open
    <2> QED
        BY <2>1, <1>1, <1>4
           DEF IInv, ProfileInv, UnprovisionedEmpty, OwnerIsPinned, ProfilesApart, Provisioned
<1>13. RowsStay
    BY <1>2, <1>3, <1>4 DEF RowsStay, Issued, Open
<1>14. Accepted(o, g)
    BY <1>3, <1>4, <1>5 DEF Accepted, ActiveUnder, Governs
<1>15. ASSUME NEW w \in User \ {o}
       PROVE  Stays(w) \/ Withdrawn(w)
    <2>1. CASE w \in W
        BY <2>1, <1>2, <1>5 DEF Withdrawn
    <2>2. CASE w \notin W
        <3>1. session'[w] = session[w]
            BY <2>2, <1>5
        <3>2. ASSUME NEW h \in Grant, grant[h].user = w, ActiveUnder(h)
              PROVE  grant'[h] = grant[h]
            <4>1. h \notin G /\ h # g
                BY <2>2, <3>2, <1>2
            <4> QED
                BY <4>1, <1>4
        <3> QED
            BY <3>1, <3>2 DEF Stays
    <2> QED
        BY <2>1, <2>2
<1> QED
    BY <1>3, <1>8, <1>9, <1>10, <1>11, <1>12, <1>13, <1>14, <1>15 DEF IInv, GrantInv

-----------------------------------------------------------------------------
(* The session lock: a queue, the requests and the expiry task in it. *)

\* The awaits at which a request is in the queue, and those it reaches only as
\* the first of it.
InLine == {"lock", "expire"}
Holding == {"ensure", "page", "vnc", "web", "stop", "stopped"}
TimerInLine == {"lock", "stop"}

\* Queue q, expiry tasks tm and requests tk agree.
LockOK(q, tm, tk) ==
    /\ q \in [User -> Seq(Task \cup {Timer})]
    /\ \A u \in User : Once(q[u])
    /\ \A u \in User, t \in Task :
        t \in Waiters(q[u]) <=> tk[t].user = u /\ tk[t].await \in InLine \cup Holding
    /\ \A t \in Task : tk[t].await \in InLine \cup Holding => tk[t].user \in User
    /\ \A t \in Task : tk[t].await \in Holding => First(q[tk[t].user], t)
    /\ \A u \in User : Timer \in Waiters(q[u]) <=> tm[u].await \in TimerInLine
    /\ \A u \in User : tm[u].await = "stop" => First(q[u], Timer)

\* Requests whose place in the queues is the same in tk and nk.
SamePlaces(tk, nk, T) ==
    \A t \in T : nk[t].user = tk[t].user /\ nk[t].await = tk[t].await

LEMMA QueueType ==
    ASSUME NEW q \in [User -> Seq(Task \cup {Timer})], NEW u \in User, NEW s \in Seq(Task \cup {Timer})
    PROVE  /\ [q EXCEPT ![u] = s] \in [User -> Seq(Task \cup {Timer})]
           /\ [q EXCEPT ![u] = s][u] = s
           /\ \A w \in User : w # u => [q EXCEPT ![u] = s][w] = q[w]
    OBVIOUS

\* Nobody joins or leaves.
LEMMA LockStays ==
    ASSUME NEW q, NEW tm, NEW tk, NEW nm, NEW nk, NEW T \in SUBSET Task, LockOK(q, tm, tk),
           SamePlaces(tk, nk, Task \ T),
           \A t \in T : /\ tk[t].await \in InLine \cup Holding <=> nk[t].await \in InLine \cup Holding
                        /\ tk[t].await \in InLine \cup Holding => nk[t].user = tk[t].user
                        /\ nk[t].await \in Holding => First(q[nk[t].user], t),
           \A u \in User : /\ nm[u].await \in TimerInLine <=> tm[u].await \in TimerInLine
                           /\ nm[u].await = "stop" => First(q[u], Timer)
    PROVE  LockOK(q, nm, nk)
<1>1. \A u \in User, t \in Task :
        t \in Waiters(q[u]) <=> nk[t].user = u /\ nk[t].await \in InLine \cup Holding
    BY DEF LockOK, SamePlaces
<1>2. \A t \in Task : nk[t].await \in Holding => First(q[nk[t].user], t)
    BY DEF LockOK, SamePlaces
<1>3. \A t \in Task : nk[t].await \in InLine \cup Holding => nk[t].user \in User
    BY DEF LockOK, SamePlaces
<1> QED
    BY <1>1, <1>2, <1>3 DEF LockOK

\* Request t joins the queue of u.
LEMMA LockJoin ==
    ASSUME NEW q, NEW tm, NEW tk, NEW nk, NEW t \in Task, NEW u \in User, LockOK(q, tm, tk),
           SamePlaces(tk, nk, Task \ {t}),
           tk[t].await \notin InLine \cup Holding,
           nk[t].await \in InLine, nk[t].user = u
    PROVE  LockOK([q EXCEPT ![u] = Append(@, t)], tm, nk)
<1> DEFINE s == q[u]
           n == [q EXCEPT ![u] = Append(@, t)]
<1>1. t # Timer /\ t \in Task \cup {Timer}
    BY BrokerAssumption
<1>2. s \in Seq(Task \cup {Timer}) /\ Once(s) /\ t \notin Waiters(s)
    BY DEF LockOK
<1>3. /\ Append(s, t) \in Seq(Task \cup {Timer})
      /\ Once(Append(s, t))
      /\ Waiters(Append(s, t)) = Waiters(s) \cup {t}
      /\ \A y : First(s, y) => First(Append(s, t), y)
    BY <1>1, <1>2, Joining
<1>4. n \in [User -> Seq(Task \cup {Timer})] /\ n[u] = Append(s, t) /\ \A w \in User : w # u => n[w] = q[w]
    BY <1>3, QueueType DEF LockOK
<1> HIDE DEF n
<1>5. \A w \in User : \A x : First(q[w], x) => First(n[w], x)
    BY <1>3, <1>4
<1>6. ASSUME NEW w \in User, NEW x \in Task
      PROVE  x \in Waiters(n[w]) <=> nk[x].user = w /\ nk[x].await \in InLine \cup Holding
    <2>1. CASE x = t
        <3>1. x \notin Waiters(q[w])
            BY <2>1 DEF LockOK
        <3> QED
            BY <2>1, <3>1, <1>3, <1>4
    <2>2. CASE x # t
        <3>1. x \in Waiters(n[w]) <=> x \in Waiters(q[w])
            BY <2>2, <1>3, <1>4
        <3>2. nk[x].user = tk[x].user /\ nk[x].await = tk[x].await
            BY <2>2 DEF SamePlaces
        <3> QED
            BY <3>1, <3>2 DEF LockOK
    <2> QED
        BY <2>1, <2>2
<1>7. \A x \in Task : nk[x].await \in InLine \cup Holding => nk[x].user \in User
    BY DEF LockOK, SamePlaces
<1>8. \A x \in Task : nk[x].await \in Holding => First(n[nk[x].user], x)
    <2> SUFFICES ASSUME NEW x \in Task, nk[x].await \in Holding
                 PROVE  First(n[nk[x].user], x)
        OBVIOUS
    <2>1. x # t
        BY DEF InLine, Holding
    <2>2. tk[x].await \in Holding /\ tk[x].user = nk[x].user
        BY <2>1 DEF SamePlaces
    <2>3. First(q[tk[x].user], x) /\ tk[x].user \in User
        BY <2>2 DEF LockOK
    <2> QED
        BY <2>2, <2>3, <1>5
<1>9. \A w \in User : Timer \in Waiters(n[w]) <=> Timer \in Waiters(q[w])
    BY <1>1, <1>3, <1>4
<1>10. \A w \in User : Once(n[w])
    <2>1. \A w \in User : Once(q[w])
        BY DEF LockOK
    <2> QED
        BY <2>1, <1>3, <1>4
<1>11. \A w \in User : tm[w].await = "stop" => First(n[w], Timer)
    BY <1>5 DEF LockOK
<1>12. \A w \in User : Timer \in Waiters(n[w]) <=> tm[w].await \in TimerInLine
    BY <1>9 DEF LockOK
<1> QED
    BY <1>4, <1>6, <1>7, <1>8, <1>10, <1>11, <1>12 DEF LockOK, n

\* The first request leaves the queue.
LEMMA LockLeave ==
    ASSUME NEW q, NEW tm, NEW tk, NEW nk, NEW t \in Task, NEW u \in User, LockOK(q, tm, tk),
           SamePlaces(tk, nk, Task \ {t}),
           First(q[u], t), tk[t].user = u,
           nk[t].await \notin InLine \cup Holding
    PROVE  LockOK([q EXCEPT ![u] = Tail(@)], tm, nk)
<1> DEFINE s == q[u]
           n == [q EXCEPT ![u] = Tail(@)]
<1>1. t # Timer
    BY BrokerAssumption
<1>2. s \in Seq(Task \cup {Timer}) /\ Once(s)
    BY DEF LockOK
<1>3. /\ Tail(s) \in Seq(Task \cup {Timer})
      /\ Once(Tail(s))
      /\ Waiters(Tail(s)) = Waiters(s) \ {t}
    BY <1>2, Leaving
<1>4. n \in [User -> Seq(Task \cup {Timer})] /\ n[u] = Tail(s) /\ \A w \in User : w # u => n[w] = q[w]
    BY <1>3, QueueType DEF LockOK
<1> HIDE DEF n
<1>5. ASSUME NEW w \in User, NEW x \in Task
      PROVE  x \in Waiters(n[w]) <=> nk[x].user = w /\ nk[x].await \in InLine \cup Holding
    <2>1. CASE x = t
        <3>1. w # u => x \notin Waiters(q[w])
            BY <2>1 DEF LockOK
        <3> QED
            BY <2>1, <3>1, <1>3, <1>4
    <2>2. CASE x # t
        <3>1. x \in Waiters(n[w]) <=> x \in Waiters(q[w])
            BY <2>2, <1>3, <1>4
        <3>2. nk[x].user = tk[x].user /\ nk[x].await = tk[x].await
            BY <2>2 DEF SamePlaces
        <3> QED
            BY <3>1, <3>2 DEF LockOK
    <2> QED
        BY <2>1, <2>2
<1>6. \A x \in Task : nk[x].await \in InLine \cup Holding => nk[x].user \in User
    BY DEF LockOK, SamePlaces
<1>7. ASSUME NEW x \in Task, nk[x].await \in Holding
      PROVE  First(n[nk[x].user], x)
    <2>1. x # t
        BY <1>7
    <2>2. tk[x].await \in Holding /\ tk[x].user = nk[x].user
        BY <1>7, <2>1 DEF SamePlaces
    <2>3. First(q[tk[x].user], x) /\ tk[x].user \in User
        BY <2>2 DEF LockOK
    <2>4. tk[x].user # u
        BY <2>1, <2>3 DEF First
    <2> QED
        BY <2>2, <2>3, <2>4, <1>4
<1>8. \A w \in User : Timer \in Waiters(n[w]) <=> Timer \in Waiters(q[w])
    BY <1>1, <1>3, <1>4
<1>9. \A w \in User : Once(n[w])
    <2>1. \A w \in User : Once(q[w])
        BY DEF LockOK
    <2> QED
        BY <2>1, <1>3, <1>4
<1>10. ASSUME NEW w \in User, tm[w].await = "stop"
       PROVE  First(n[w], Timer)
    <2>1. First(q[w], Timer)
        BY <1>10 DEF LockOK
    <2>2. w # u
        BY <2>1, <1>1 DEF First
    <2> QED
        BY <2>1, <2>2, <1>4
<1>11. \A w \in User : Timer \in Waiters(n[w]) <=> tm[w].await \in TimerInLine
    BY <1>8 DEF LockOK
<1> QED
    BY <1>4, <1>5, <1>6, <1>7, <1>9, <1>10, <1>11 DEF LockOK, n

\* The same two for the expiry task of u.
LEMMA LockTimerJoin ==
    ASSUME NEW q, NEW tm, NEW tk, NEW nm, NEW u \in User, LockOK(q, tm, tk),
           \A w \in User : w # u => nm[w] = tm[w],
           tm[u].await \notin TimerInLine, nm[u].await = "lock"
    PROVE  LockOK([q EXCEPT ![u] = Append(@, Timer)], nm, tk)
<1> DEFINE s == q[u]
           n == [q EXCEPT ![u] = Append(@, Timer)]
<1>1. Timer \notin Task
    BY BrokerAssumption
<1>2. s \in Seq(Task \cup {Timer}) /\ Once(s) /\ Timer \notin Waiters(s)
    BY DEF LockOK
<1>3. /\ Append(s, Timer) \in Seq(Task \cup {Timer})
      /\ Once(Append(s, Timer))
      /\ Waiters(Append(s, Timer)) = Waiters(s) \cup {Timer}
      /\ \A y : First(s, y) => First(Append(s, Timer), y)
    BY <1>2, Joining
<1>4. n \in [User -> Seq(Task \cup {Timer})] /\ n[u] = Append(s, Timer) /\ \A w \in User : w # u => n[w] = q[w]
    BY <1>3, QueueType DEF LockOK
<1> HIDE DEF n
<1>5. \A w \in User : \A x : First(q[w], x) => First(n[w], x)
    BY <1>3, <1>4
<1>6. \A w \in User, x \in Task : x \in Waiters(n[w]) <=> x \in Waiters(q[w])
    BY <1>1, <1>3, <1>4
<1>7. \A w \in User, x \in Task :
        x \in Waiters(n[w]) <=> tk[x].user = w /\ tk[x].await \in InLine \cup Holding
    BY <1>6 DEF LockOK
<1>8. \A x \in Task : tk[x].await \in InLine \cup Holding => tk[x].user \in User
    BY DEF LockOK
<1>9. \A x \in Task : tk[x].await \in Holding => First(n[tk[x].user], x)
    BY <1>5, <1>8 DEF LockOK
<1>10. \A w \in User : Once(n[w])
    <2>1. \A w \in User : Once(q[w])
        BY DEF LockOK
    <2> QED
        BY <2>1, <1>3, <1>4
<1>11. ASSUME NEW w \in User
       PROVE  Timer \in Waiters(n[w]) <=> nm[w].await \in TimerInLine
    <2>1. CASE w = u
        BY <2>1, <1>3, <1>4 DEF TimerInLine
    <2>2. CASE w # u
        BY <2>2, <1>4 DEF LockOK
    <2> QED
        BY <2>1, <2>2
<1>12. \A w \in User : nm[w].await = "stop" => First(n[w], Timer)
    BY <1>5 DEF LockOK
<1> QED
    BY <1>4, <1>7, <1>8, <1>9, <1>10, <1>11, <1>12 DEF LockOK, n

LEMMA LockTimerLeave ==
    ASSUME NEW q, NEW tm, NEW tk, NEW nm, NEW u \in User, LockOK(q, tm, tk),
           \A w \in User : w # u => nm[w] = tm[w],
           First(q[u], Timer), nm[u].await \notin TimerInLine
    PROVE  LockOK([q EXCEPT ![u] = Tail(@)], nm, tk)
<1> DEFINE s == q[u]
           n == [q EXCEPT ![u] = Tail(@)]
<1>1. Timer \notin Task
    BY BrokerAssumption
<1>2. s \in Seq(Task \cup {Timer}) /\ Once(s)
    BY DEF LockOK
<1>3. /\ Tail(s) \in Seq(Task \cup {Timer})
      /\ Once(Tail(s))
      /\ Waiters(Tail(s)) = Waiters(s) \ {Timer}
    BY <1>2, Leaving
<1>4. n \in [User -> Seq(Task \cup {Timer})] /\ n[u] = Tail(s) /\ \A w \in User : w # u => n[w] = q[w]
    BY <1>3, QueueType DEF LockOK
<1> HIDE DEF n
<1>5. \A w \in User, x \in Task : x \in Waiters(n[w]) <=> x \in Waiters(q[w])
    BY <1>1, <1>3, <1>4
<1>6. \A w \in User, x \in Task :
        x \in Waiters(n[w]) <=> tk[x].user = w /\ tk[x].await \in InLine \cup Holding
    BY <1>5 DEF LockOK
<1>7. \A x \in Task : tk[x].await \in InLine \cup Holding => tk[x].user \in User
    BY DEF LockOK
<1>8. ASSUME NEW x \in Task, tk[x].await \in Holding
      PROVE  First(n[tk[x].user], x)
    <2>1. First(q[tk[x].user], x) /\ tk[x].user \in User
        BY <1>8 DEF LockOK
    <2>2. tk[x].user # u
        BY <2>1, <1>1 DEF First
    <2> QED
        BY <2>1, <2>2, <1>4
<1>9. \A w \in User : Once(n[w])
    <2>1. \A w \in User : Once(q[w])
        BY DEF LockOK
    <2> QED
        BY <2>1, <1>3, <1>4
<1>10. ASSUME NEW w \in User
       PROVE  Timer \in Waiters(n[w]) <=> nm[w].await \in TimerInLine
    <2>1. CASE w = u
        BY <2>1, <1>3, <1>4
    <2>2. CASE w # u
        BY <2>2, <1>4 DEF LockOK
    <2> QED
        BY <2>1, <2>2
<1>11. \A w \in User : nm[w].await = "stop" => First(n[w], Timer)
    BY <1>4 DEF LockOK, TimerInLine
<1> QED
    BY <1>4, <1>6, <1>7, <1>8, <1>9, <1>10, <1>11 DEF LockOK, n

\* The expiry task of u is cancelled, wherever it is.
LEMMA LockCancel ==
    ASSUME NEW q, NEW tm, NEW tk, NEW nm, NEW u \in User, LockOK(q, tm, tk),
           \A w \in User : w # u => nm[w] = tm[w],
           nm[u].await \notin TimerInLine
    PROVE  LockOK([q EXCEPT ![u] = Without(@, Timer)], nm, tk)
<1> DEFINE s == q[u]
           n == [q EXCEPT ![u] = Without(@, Timer)]
<1>1. Timer \notin Task
    BY BrokerAssumption
<1>2. s \in Seq(Task \cup {Timer}) /\ Once(s)
    BY DEF LockOK
<1>3. /\ Without(s, Timer) \in Seq(Task \cup {Timer})
      /\ Once(Without(s, Timer))
      /\ Waiters(Without(s, Timer)) = Waiters(s) \ {Timer}
      /\ \A y : y # Timer /\ First(s, y) => First(Without(s, Timer), y)
    BY <1>2, Cancelling
<1>4. n \in [User -> Seq(Task \cup {Timer})] /\ n[u] = Without(s, Timer) /\ \A w \in User : w # u => n[w] = q[w]
    BY <1>3, QueueType DEF LockOK
<1> HIDE DEF n
<1>5. \A w \in User, x \in Task : x \in Waiters(n[w]) <=> x \in Waiters(q[w])
    BY <1>1, <1>3, <1>4
<1>6. \A w \in User, x \in Task :
        x \in Waiters(n[w]) <=> tk[x].user = w /\ tk[x].await \in InLine \cup Holding
    BY <1>5 DEF LockOK
<1>7. \A x \in Task : tk[x].await \in InLine \cup Holding => tk[x].user \in User
    BY DEF LockOK
<1>8. ASSUME NEW x \in Task, tk[x].await \in Holding
      PROVE  First(n[tk[x].user], x)
    <2>1. First(q[tk[x].user], x) /\ tk[x].user \in User /\ x # Timer
        BY <1>1, <1>8 DEF LockOK
    <2> QED
        BY <2>1, <1>3, <1>4
<1>9. \A w \in User : Once(n[w])
    <2>1. \A w \in User : Once(q[w])
        BY DEF LockOK
    <2> QED
        BY <2>1, <1>3, <1>4
<1>10. ASSUME NEW w \in User
       PROVE  Timer \in Waiters(n[w]) <=> nm[w].await \in TimerInLine
    <2>1. CASE w = u
        BY <2>1, <1>3, <1>4
    <2>2. CASE w # u
        BY <2>2, <1>4 DEF LockOK
    <2> QED
        BY <2>1, <2>2
<1>11. \A w \in User : nm[w].await = "stop" => First(n[w], Timer)
    BY <1>4 DEF LockOK, TimerInLine
<1> QED
    BY <1>4, <1>6, <1>7, <1>8, <1>9, <1>10, <1>11 DEF LockOK, n

-----------------------------------------------------------------------------
(* The requests and the expiry tasks there are. *)

AwaitsOf(op) ==
    CASE op = "idle" -> {"idle"}
      [] op \in {"open", "handover"} -> {"lock", "ensure"}
      [] op = "act" -> {"lock", "ensure", "page"}
      [] op = "resume" -> {"lock", "stop", "stopped", "ensure"}
      [] op = "portal" -> {"lock", "ensure", "vnc", "web"}
      [] op = "socket" -> {"lock", "ensure", "vnc", "web", "expire", "stop", "connect", "relay", "hung"}
      [] op \in {"complete", "evict", "abort"} -> {"close", "lock", "stop"}

\* The row of grant g is there, and names user u.
GrantOf(g, u) == g \in Issued /\ grant[g].user = u

TaskOK(r) ==
    /\ r \in Request
    /\ r.await \in AwaitsOf(r.op)
    /\ r.op # "idle" => r.user \in User
    /\ r.op \in ViewerOp \cup {"complete"} => GrantOf(r.grant, r.user)
    /\ r.live => r.await \in {"connect", "relay", "hung"}

TasksOK == task \in [Task -> Request] /\ \A t \in Task : TaskOK(task[t])

TimersOK ==
    /\ timer \in [User -> ExpiryTask]
    /\ \A u \in User : timer[u].await # "none" => GrantOf(timer[u].grant, u)

ProcessesOK ==
    /\ browser \in [User -> {"none", "alive", "dead"}]
    /\ viewer \in [User -> Viewer]
    /\ ws \in [User -> Task \cup {None}]
    /\ cookie \subseteq Issued

-----------------------------------------------------------------------------
(* Who is in control, as the requests under way have to find it. *)

\* The takeover of epoch e is active or has just ended.
Serves(e, s) ==
    \/ s.state = "HUMAN_ACTIVE" /\ s.epoch = e
    \/ s.state = "READY_TO_RESUME" /\ s.epoch = e + 1

\* What a viewer v consists of.
AnyHeld(v) == \E p \in Part : v[p] = "held"
AnyStray(v) == \E p \in Part : v[p] = "stray"
WhollyHeld(v) == \A p \in Part : v[p] = "held"

\* Request r, the session s of its user and their viewer v.
Fits(r, s, v) ==
    /\ r.op \in AgentOp /\ r.await \in Holding => s.state = "AGENT_ACTIVE" /\ s.epoch = r.epoch
    /\ r.op \in ViewerOp /\ r.await \in {"ensure", "vnc", "web"} => Serves(r.epoch, s)
    /\ r.op = "resume" /\ r.await \in {"stopped", "ensure"} => ~AnyHeld(v)
    /\ r.live => AnyStray(v) \/ (WhollyHeld(v) /\ Serves(r.epoch, s))

ControlOK ==
    /\ \A t \in Task : task[t].user \in User =>
            Fits(task[t], session[task[t].user], viewer[task[t].user])
    /\ ViewerNeverWithAgent

BInv ==
    /\ IInv
    /\ ProcessesOK
    /\ TimersOK
    /\ TasksOK
    /\ LockOK(queue, timer, task)
    /\ ControlOK
    /\ OneRelay

-----------------------------------------------------------------------------
(* What keeps the parts of the invariant. *)

\* A step leaves a request alone, but for the upstream it may cut.
Calmer(t) == task'[t] = task[t] \/ task'[t] = [task[t] EXCEPT !.live = FALSE]
Others(T) == task' \in [Task -> Request] /\ \A t \in Task \ T : Calmer(t)

\* Any step of the store but the two that are taken under the session lock.
StoreOutside == IInv' /\ RowsStay /\ \A u \in User : Outside(u)

\* Parts of viewers go down, and with them the upstreams of the requests not in T,
\* but for those that a stray carries.
ViewersFall(T) ==
    /\ viewer' \in [User -> Viewer]
    /\ \A u \in User : AnyHeld(viewer'[u]) => AnyHeld(viewer[u])
    /\ \A u \in User, t \in Task \ T : task[t].user = u =>
            viewer'[u] = viewer[u] \/ ~task'[t].live \/ AnyStray(viewer'[u])

LEMMA ViewerParts ==
    /\ \A u \in User : Held(u) <=> AnyHeld(viewer[u])
    /\ \A u \in User : Strays(u) <=> AnyStray(viewer[u])
    /\ \A u \in User : AllHeld(u) <=> WhollyHeld(viewer[u])
    /\ \A v : WhollyHeld(v) => AnyHeld(v) /\ Carries(v)
BY DEF Held, Strays, AllHeld, AnyHeld, AnyStray, WhollyHeld, Carries, Part

\* Who terminates what the fields name leaves strays only.
LEMMA TerminatedParts ==
    ASSUME NEW v \in Viewer
    PROVE  /\ Terminated(v) \in Viewer
           /\ ~AnyHeld(Terminated(v))
           /\ Carries(Terminated(v)) => AnyStray(Terminated(v))
           /\ [Terminated(v) EXCEPT !["vnc"] = "down"] \in Viewer
           /\ ~AnyHeld([Terminated(v) EXCEPT !["vnc"] = "down"])
<1>1. \A p \in Part : v[p] \in {"down", "held", "stray"}
    BY DEF Viewer
<1>2. /\ Terminated(v) \in Viewer
      /\ \A p \in Part : Terminated(v)[p] \in {"down", "stray"}
    BY <1>1 DEF Terminated, Viewer
<1>3. /\ [Terminated(v) EXCEPT !["vnc"] = "down"] \in Viewer
      /\ \A p \in Part : [Terminated(v) EXCEPT !["vnc"] = "down"][p] \in {"down", "stray"}
    BY <1>2 DEF Viewer
<1>4. "vnc" \in Part
    BY DEF Part
<1> QED
    BY <1>2, <1>3, <1>4 DEF AnyHeld, AnyStray, Carries

\* What listens on both ports is held, or a stray among it.
LEMMA CarriesParts ==
    ASSUME NEW v \in Viewer, Carries(v)
    PROVE  AnyStray(v) \/ WhollyHeld(v)
BY DEF Viewer, Carries, AnyStray, WhollyHeld

\* No expiry task is for another grant than before.
TimersStay ==
    /\ timer' \in [User -> ExpiryTask]
    /\ \A u \in User : timer'[u].await # "none" =>
            timer[u].await # "none" /\ timer'[u].grant = timer[u].grant

LEMMA CalmerFields ==
    ASSUME NEW t \in Task, task \in [Task -> Request], Calmer(t)
    PROVE  /\ task'[t].op = task[t].op /\ task'[t].await = task[t].await
           /\ task'[t].user = task[t].user /\ task'[t].grant = task[t].grant
           /\ task'[t].epoch = task[t].epoch
           /\ task'[t].live => task[t].live
BY DEF Calmer, Request

LEMMA OthersStayPut ==
    ASSUME NEW T \in SUBSET Task, TasksOK, Others(T)
    PROVE  SamePlaces(task, task', Task \ T)
BY CalmerFields DEF Others, SamePlaces, TasksOK

\* The place of t is as it was, at another await.
LEMMA LockMoves ==
    ASSUME NEW q, NEW tm, LockOK(q, tm, task), TasksOK, NEW t \in Task, Others({t}),
           \/ task[t].await \notin InLine \cup Holding /\ task'[t].await \notin InLine \cup Holding
           \/ /\ task[t].await \in InLine \cup Holding /\ task'[t].await \in InLine \cup Holding
              /\ task'[t].user = task[t].user /\ First(q[task[t].user], t)
    PROVE  LockOK(q, tm, task')
<1>1. SamePlaces(task, task', Task \ {t}) /\ {t} \in SUBSET Task
    BY OthersStayPut
<1>2. \A x \in {t} :
        /\ task[x].await \in InLine \cup Holding <=> task'[x].await \in InLine \cup Holding
        /\ task[x].await \in InLine \cup Holding => task'[x].user = task[x].user
        /\ task'[x].await \in Holding => First(q[task'[x].user], x)
    OBVIOUS
<1>3. \A w \in User : /\ tm[w].await \in TimerInLine <=> tm[w].await \in TimerInLine
                      /\ tm[w].await = "stop" => First(q[w], Timer)
    BY DEF LockOK
<1> QED
    BY <1>1, <1>2, <1>3, LockStays

LEMMA TasksKept ==
    ASSUME NEW T \in SUBSET Task, TasksOK, RowsStay, Others(T),
           \A t \in T : TaskOK(task[t])'
    PROVE  TasksOK'
<1>1. ASSUME NEW t \in Task \ T
      PROVE  TaskOK(task[t])'
    <2>1. TaskOK(task[t]) /\ task'[t] \in Request /\ Calmer(t)
        BY DEF TasksOK, Others
    <2>2. GrantOf(task[t].grant, task[t].user) => GrantOf(task[t].grant, task[t].user)'
        BY <2>1, CalmerFields DEF GrantOf, RowsStay, TasksOK
    <2> QED
        BY <2>1, <2>2, CalmerFields DEF TaskOK, TasksOK
<1> QED
    BY <1>1 DEF TasksOK, Others

LEMMA TimersKept ==
    ASSUME TimersOK, RowsStay, TimersStay
    PROVE  TimersOK'
BY DEF TimersOK, RowsStay, TimersStay, GrantOf

\* What a relay serves, no step outside the lock makes another takeover's.
LEMMA ServesStays ==
    ASSUME IInv, IInv', NEW u \in User, Outside(u), NEW e \in Nat, Serves(e, session[u])
    PROVE  Serves(e, session'[u])
<1> DEFINE s == session[u]
           n == session'[u]
<1>1. s.state \in {"HUMAN_ACTIVE", "READY_TO_RESUME"} =>
            \/ n = s
            \/ s.state = "HUMAN_ACTIVE" /\ n.state = "READY_TO_RESUME" /\ n.epoch = s.epoch + 1
    BY DEF Outside, Stays, Withdrawn, Opened, Accepted, TakeoverState
<1>2. s.epoch \in Nat /\ n.epoch \in Nat
    BY DEF IInv, TypeOK, Session
<1> QED
    BY <1>1, <1>2 DEF Serves

LEMMA FitsKept ==
    ASSUME IInv, IInv', NEW u \in User, Outside(u),
           NEW t \in Task, task \in [Task -> Request], Calmer(t), task[t].user = u,
           Fits(task[t], session[u], viewer[u]),
           AnyHeld(viewer'[u]) => AnyHeld(viewer[u]),
           viewer'[u] = viewer[u] \/ ~task'[t].live \/ AnyStray(viewer'[u])
    PROVE  Fits(task'[t], session'[u], viewer'[u])
<1>1. /\ task'[t].op = task[t].op /\ task'[t].await = task[t].await
      /\ task'[t].epoch = task[t].epoch
      /\ task'[t].live => task[t].live
    BY CalmerFields
<1>2. session[u].state = "AGENT_ACTIVE" => session'[u] = session[u]
    BY DEF Outside, Stays, Withdrawn, Opened, Accepted, TakeoverState
<1>3. Serves(task[t].epoch, session[u]) => Serves(task[t].epoch, session'[u])
    BY ServesStays DEF Request
<1> QED
    BY <1>1, <1>2, <1>3 DEF Fits

LEMMA ViewerStaysAway ==
    ASSUME ViewerNeverWithAgent, \A u \in User : Outside(u),
           \A u \in User : AnyHeld(viewer'[u]) => AnyHeld(viewer[u])
    PROVE  ViewerNeverWithAgent'
<1>1. \A u \in User : AnyHeld(viewer[u]) => session[u].state \in {"HUMAN_ACTIVE", "READY_TO_RESUME"}
    BY DEF ViewerNeverWithAgent, Held, AnyHeld
<1>2. \A u \in User : AnyHeld(viewer'[u]) => session'[u].state \in {"HUMAN_ACTIVE", "READY_TO_RESUME"}
    BY <1>1 DEF Outside, Stays, Withdrawn, Opened, Accepted, TakeoverState
<1> QED
    BY <1>2 DEF ViewerNeverWithAgent, Held, AnyHeld

LEMMA ControlKept ==
    ASSUME BInv, NEW T \in SUBSET Task, StoreOutside, Others(T), ViewersFall(T),
           \A t \in T : task'[t].user \in User =>
                Fits(task'[t], session'[task'[t].user], viewer'[task'[t].user])
    PROVE  ControlOK'
<1>1. ASSUME NEW t \in Task \ T, task'[t].user \in User
      PROVE  Fits(task'[t], session'[task'[t].user], viewer'[task'[t].user])
    <2>1. task \in [Task -> Request] /\ Calmer(t)
        BY DEF BInv, TasksOK, Others
    <2>2. PICK u \in User : task[t].user = u
        BY <1>1, <2>1, CalmerFields
    <2>3. Fits(task[t], session[u], viewer[u])
        BY <2>2 DEF BInv, ControlOK
    <2>4. Outside(u) /\ IInv' /\ IInv
        BY DEF StoreOutside, BInv
    <2>5. /\ AnyHeld(viewer'[u]) => AnyHeld(viewer[u])
          /\ viewer'[u] = viewer[u] \/ ~task'[t].live \/ AnyStray(viewer'[u])
        BY <2>2 DEF ViewersFall
    <2>6. Fits(task'[t], session'[u], viewer'[u])
        BY <2>1, <2>2, <2>3, <2>4, <2>5, FitsKept
    <2> QED
        BY <2>1, <2>2, <2>6, CalmerFields
<1>2. ViewerNeverWithAgent'
    <2>1. \A u \in User : AnyHeld(viewer'[u]) => AnyHeld(viewer[u])
        BY DEF ViewersFall
    <2> QED
        BY <2>1, ViewerStaysAway DEF BInv, ControlOK, StoreOutside
<1> QED
    BY <1>1, <1>2 DEF ControlOK

\* No request of T relays, before or after, and the registry is left alone.
LEMMA RelaysKept ==
    ASSUME TasksOK, ProcessesOK, OneRelay, NEW T \in SUBSET Task, Others(T), UNCHANGED ws,
           \A t \in T : task[t].await # "relay" /\ task'[t].await # "relay"
    PROVE  OneRelay'
<1>1. \A t \in Task \ T : /\ task'[t].await = task[t].await /\ task'[t].user = task[t].user
                          /\ task'[t].live => task[t].live
    BY CalmerFields DEF TasksOK, Others
<1>2. \A u \in User : ws[u] # None => ws[u] \in Task \ T
    BY DEF OneRelay, ProcessesOK
<1> QED
    BY <1>1, <1>2 DEF OneRelay

\* All but the part about control.
LEMMA KeptButControl ==
    ASSUME BInv, NEW T \in SUBSET Task, IInv', RowsStay, Others(T), TimersStay,
           viewer' \in [User -> Viewer],
           browser' \in [User -> {"none", "alive", "dead"}],
           ws' \in [User -> Task \cup {None}],
           UNCHANGED cookie,
           \A t \in T : TaskOK(task[t])',
           LockOK(queue, timer, task)', OneRelay'
    PROVE  ControlOK' => BInv'
<1>1. TasksOK'
    BY TasksKept DEF BInv
<1>2. TimersOK'
    BY TimersKept DEF BInv
<1>3. ProcessesOK'
    BY DEF BInv, ProcessesOK, RowsStay
<1> QED
    BY <1>1, <1>2, <1>3 DEF BInv

LEMMA Kept ==
    ASSUME BInv, NEW T \in SUBSET Task, StoreOutside, Others(T), ViewersFall(T), TimersStay,
           browser' \in [User -> {"none", "alive", "dead"}],
           ws' \in [User -> Task \cup {None}],
           UNCHANGED cookie,
           \A t \in T : TaskOK(task[t])',
           \A t \in T : task'[t].user \in User =>
                Fits(task'[t], session'[task'[t].user], viewer'[task'[t].user]),
           LockOK(queue, timer, task)', OneRelay'
    PROVE  BInv'
<1>1. IInv' /\ RowsStay /\ viewer' \in [User -> Viewer]
    BY DEF StoreOutside, ViewersFall
<1>2. ControlOK'
    BY ControlKept
<1> QED
    BY <1>1, <1>2, KeptButControl

-----------------------------------------------------------------------------
(* The forms a step gives the requests. *)

LEMMA Assigned ==
    ASSUME TasksOK, NEW t \in Task, NEW r \in Request, task' = [task EXCEPT ![t] = r]
    PROVE  Others({t}) /\ task'[t] = r
BY DEF TasksOK, Others, Calmer

LEMMA Went ==
    ASSUME TasksOK, NEW t \in Task, NEW a \in Await, Goto(t, a)
    PROVE  Others({t}) /\ task'[t] = [task[t] EXCEPT !.await = a]
<1>1. [task[t] EXCEPT !.await = a] \in Request
    BY DEF TasksOK, Request
<1>2. task' = [task EXCEPT ![t] = [task[t] EXCEPT !.await = a]]
    BY DEF Goto
<1> QED
    BY <1>1, <1>2, Assigned

LEMMA Untouched ==
    ASSUME TasksOK, UNCHANGED task, NEW T \in SUBSET Task
    PROVE  Others(T)
BY DEF TasksOK, Others, Calmer

LEMMA SeveredRequests ==
    ASSUME TasksOK, NEW u \in User
    PROVE  /\ Severed(u) \in [Task -> Request]
           /\ \A t \in Task :
                /\ Severed(u)[t] = task[t] \/ Severed(u)[t] = [task[t] EXCEPT !.live = FALSE]
                /\ task[t].user = u => ~Severed(u)[t].live
                /\ ~task[t].live => Severed(u)[t] = task[t]
BY DEF Severed, TasksOK, Request

LEMMA HungRequests ==
    ASSUME TasksOK, NEW u \in User
    PROVE  /\ Hung(u) \in [Task -> Request]
           /\ \A t \in Task :
                /\ t # ws[u] => Hung(u)[t] = task[t]
                /\ t = ws[u] => Hung(u)[t] = [task[t] EXCEPT !.await = "hung"]
BY DEF Hung, TasksOK, Request, Await

LEMMA AllSevered ==
    ASSUME TasksOK, NEW u \in User, task' = Severed(u)
    PROVE  Others({}) /\ \A x \in Task : task[x].user = u => ~task'[x].live
<1> DEFINE M == Severed(u)
<1>1. /\ M \in [Task -> Request]
      /\ \A x \in Task : /\ M[x] = task[x] \/ M[x] = [task[x] EXCEPT !.live = FALSE]
                         /\ task[x].user = u => ~M[x].live
    BY SeveredRequests
<1> HIDE DEF M
<1>2. task' = M
    BY DEF M
<1> QED
    BY <1>1, <1>2 DEF Others, Calmer

LEMMA SeveredAssigned ==
    ASSUME TasksOK, NEW u \in User, NEW t \in Task, NEW r \in Request,
           task' = [Severed(u) EXCEPT ![t] = r]
    PROVE  /\ Others({t}) /\ task'[t] = r
           /\ \A x \in Task \ {t} : task[x].user = u => ~task'[x].live
<1> DEFINE M == Severed(u)
<1>1. /\ M \in [Task -> Request]
      /\ \A x \in Task : /\ M[x] = task[x] \/ M[x] = [task[x] EXCEPT !.live = FALSE]
                         /\ task[x].user = u => ~M[x].live
    BY SeveredRequests
<1> HIDE DEF M
<1>2. task' = [M EXCEPT ![t] = r]
    BY DEF M
<1> QED
    BY <1>1, <1>2 DEF Others, Calmer

LEMMA SeveredWent ==
    ASSUME TasksOK, NEW u \in User, NEW t \in Task, NEW a \in Await, ~task[t].live,
           task' = [Severed(u) EXCEPT ![t].await = a]
    PROVE  /\ Others({t}) /\ task'[t] = [task[t] EXCEPT !.await = a]
           /\ \A x \in Task \ {t} : task[x].user = u => ~task'[x].live
<1>1. Severed(u)[t] = task[t]
    BY SeveredRequests
<1>2. task' = [Severed(u) EXCEPT ![t] = [task[t] EXCEPT !.await = a]]
    BY <1>1
<1>3. [task[t] EXCEPT !.await = a] \in Request
    BY DEF TasksOK, Request
<1> QED
    BY <1>2, <1>3, SeveredAssigned, ZenonT(40)

LEMMA ThroughRequests ==
    ASSUME TasksOK, NEW u \in User, NEW v
    PROVE  /\ Through(u, v) \in [Task -> Request]
           /\ \A t \in Task :
                /\ Through(u, v)[t] = task[t] \/ Through(u, v)[t] = [task[t] EXCEPT !.live = FALSE]
                /\ task[t].user = u => ~Through(u, v)[t].live \/ Carries(v)
                /\ ~task[t].live => Through(u, v)[t] = task[t]
<1>1. CASE Carries(v)
    BY <1>1 DEF Through, TasksOK
<1>2. CASE ~Carries(v)
    <2>1. Through(u, v) = Severed(u)
        BY <1>2 DEF Through
    <2> QED
        BY <2>1, SeveredRequests
<1> QED
    BY <1>1, <1>2

LEMMA AllThrough ==
    ASSUME TasksOK, NEW u \in User, NEW v, task' = Through(u, v)
    PROVE  Others({}) /\ \A x \in Task : task[x].user = u => ~task'[x].live \/ Carries(v)
<1> DEFINE M == Through(u, v)
<1>1. /\ M \in [Task -> Request]
      /\ \A x \in Task : /\ M[x] = task[x] \/ M[x] = [task[x] EXCEPT !.live = FALSE]
                         /\ task[x].user = u => ~M[x].live \/ Carries(v)
    BY ThroughRequests
<1>2. task' = M
    OBVIOUS
<1> HIDE DEF M
<1> QED
    BY <1>1, <1>2 DEF Others, Calmer

LEMMA ThroughAssigned ==
    ASSUME TasksOK, NEW u \in User, NEW v, NEW t \in Task, NEW r \in Request,
           task' = [Through(u, v) EXCEPT ![t] = r]
    PROVE  /\ Others({t}) /\ task'[t] = r
           /\ \A x \in Task \ {t} : task[x].user = u => ~task'[x].live \/ Carries(v)
<1> DEFINE M == Through(u, v)
<1>1. /\ M \in [Task -> Request]
      /\ \A x \in Task : /\ M[x] = task[x] \/ M[x] = [task[x] EXCEPT !.live = FALSE]
                         /\ task[x].user = u => ~M[x].live \/ Carries(v)
    BY ThroughRequests
<1>2. task' = [M EXCEPT ![t] = r]
    OBVIOUS
<1> HIDE DEF M
<1> QED
    BY <1>1, <1>2 DEF Others, Calmer

LEMMA ThroughIdle ==
    ASSUME TasksOK, NEW u \in User, NEW v, NEW t \in Task, ~task[t].live
    PROVE  Through(u, v)[t] = task[t]
<1>1. Severed(u)[t] = task[t]
    BY SeveredRequests
<1> QED
    BY <1>1 DEF Through

LEMMA ThroughWent ==
    ASSUME TasksOK, NEW u \in User, NEW v, NEW t \in Task, NEW a \in Await, ~task[t].live,
           task' = [Through(u, v) EXCEPT ![t].await = a]
    PROVE  /\ Others({t}) /\ task'[t] = [task[t] EXCEPT !.await = a]
           /\ \A x \in Task \ {t} : task[x].user = u => ~task'[x].live \/ Carries(v)
<1> DEFINE M == Through(u, v)
           r == [task[t] EXCEPT !.await = a]
<1>1. M[t] = task[t]
    BY ThroughIdle
<1>2. task' = [M EXCEPT ![t] = r]
    BY <1>1
<1>3. r \in Request
    BY DEF TasksOK, Request
<1>4. /\ M \in [Task -> Request]
      /\ \A x \in Task : /\ M[x] = task[x] \/ M[x] = [task[x] EXCEPT !.live = FALSE]
                         /\ task[x].user = u => ~M[x].live \/ Carries(v)
    BY ThroughRequests
<1> HIDE DEF r, M
<1>5. /\ task' \in [Task -> Request] /\ task'[t] = r
      /\ \A x \in Task \ {t} : task'[x] = M[x]
    BY <1>2, <1>3, <1>4
<1>6. Others({t})
    BY <1>4, <1>5 DEF Others, Calmer
<1> QED
    BY <1>4, <1>5, <1>6 DEF r

\* The registered relay of u, if there is one, and the request that tells it to close.
ClosingOne(u, t) == {x \in Task : x = t \/ x = ws[u]}

Told(x) == task'[x] = [task[x] EXCEPT !.await = "hung"]

LEMMA HungAssigned ==
    ASSUME TasksOK, NEW u \in User, NEW t \in Task, NEW r \in Request,
           task' = [Hung(u) EXCEPT ![t] = r]
    PROVE  /\ Others(ClosingOne(u, t)) /\ task'[t] = r
           /\ \A x \in Task \ {t} : x = ws[u] => Told(x)
           /\ \A x \in Task \ {t} : x # ws[u] => task'[x] = task[x]
<1> DEFINE M == Hung(u)
<1>1. /\ M \in [Task -> Request]
      /\ \A x \in Task : /\ x # ws[u] => M[x] = task[x]
                         /\ x = ws[u] => M[x] = [task[x] EXCEPT !.await = "hung"]
    BY HungRequests
<1>2. task' = [M EXCEPT ![t] = r]
    OBVIOUS
<1> HIDE DEF M
<1>3. /\ task' \in [Task -> Request] /\ task'[t] = r
      /\ \A x \in Task \ {t} : task'[x] = M[x]
    BY <1>1, <1>2
<1>4. Others(ClosingOne(u, t))
    BY <1>1, <1>3 DEF Others, Calmer, ClosingOne
<1> QED
    BY <1>1, <1>3, <1>4 DEF Told

\* A relay that is told to close is out of the registry, and no relay of another
\* session is.
LEMMA RelaysHungUp ==
    ASSUME BInv, NEW u \in User, NEW t \in Task, task' \in [Task -> Request], CloseSocket(u),
           task[t].await # "relay", task'[t].await # "relay",
           \A x \in Task \ {t} : x = ws[u] => Told(x),
           \A x \in Task \ {t} : x # ws[u] => task'[x] = task[x]
    PROVE  OneRelay' /\ ws' \in [User -> Task \cup {None}]
<1>1. ws \in [User -> Task \cup {None}] /\ ws' = [ws EXCEPT ![u] = None]
    BY DEF BInv, ProcessesOK, CloseSocket
<1>2. /\ ws' \in [User -> Task \cup {None}] /\ ws'[u] = None
      /\ \A w \in User : w # u => ws'[w] = ws[w]
    BY <1>1
<1>3. \A w \in User : ws[w] # None => ws[w] \in Task \ {t} /\ task[ws[w]].await = "relay" /\ task[ws[w]].user = w
    BY <1>1 DEF BInv, OneRelay
<1>4. \A x \in Task : task[x].await = "relay" => ws[task[x].user] = x /\ task[x].user \in User
    BY DEF BInv, OneRelay, TasksOK, TaskOK, AwaitsOf
<1>5. \A x \in Task \ {t} : x = ws[u] => task'[x].await = "hung"
    BY DEF BInv, TasksOK, Request, Told
<1>6. ASSUME NEW x \in Task, task'[x].await = "relay"
      PROVE  ws'[task'[x].user] = x
    <2>1. x # t /\ x # ws[u] /\ task'[x] = task[x]
        BY <1>5, <1>6
    <2>2. ws[task[x].user] = x /\ task[x].user \in User
        BY <1>4, <1>6, <2>1
    <2> QED
        BY <1>2, <2>1, <2>2
<1>7. ASSUME NEW w \in User, ws'[w] # None
      PROVE  task'[ws'[w]].await = "relay" /\ task'[ws'[w]].user = w
    <2>1. w # u /\ ws'[w] = ws[w] /\ ws[w] # None
        BY <1>2, <1>7
    <2>2. ws[w] \in Task \ {t} /\ task[ws[w]].await = "relay" /\ task[ws[w]].user = w
        BY <1>3, <2>1
    <2>3. ws[w] # ws[u]
        BY <1>3, <2>1, <2>2
    <2> QED
        BY <2>1, <2>2, <2>3
<1> QED
    BY <1>2, <1>6, <1>7 DEF OneRelay

-----------------------------------------------------------------------------
(* What a request may do next. *)

LEMMA StoreUnchanged ==
    ASSUME BInv, UNCHANGED storeVars
    PROVE  StoreOutside
<1>1. IInv'
    BY NextIInv DEF BInv
<1>2. Quiet /\ RowsStay
    BY RowsUnchangedIsQuiet DEF storeVars
<1> QED
    BY <1>1, <1>2 DEF StoreOutside, Quiet, Outside

LEMMA HolderFields ==
    ASSUME BInv, NEW t \in Task, Holds(t)
    PROVE  /\ task[t].user \in User /\ First(queue[task[t].user], t)
           /\ task[t].await \in InLine \cup Holding
           /\ ~task[t].live
           /\ task[t] \in Request
           /\ TaskOK(task[t])
           /\ Fits(task[t], session[task[t].user], viewer[task[t].user])
<1>1. TaskOK(task[t])
    BY DEF BInv, TasksOK
<1>2. task[t].user \in User
    BY <1>1 DEF TaskOK, Request, Holds
<1>3. First(queue[task[t].user], t)
    BY DEF Holds, Heads, First
<1>4. t \in Waiters(queue[task[t].user])
    <2>1. queue[task[t].user] \in Seq(Task \cup {Timer})
        BY <1>2 DEF BInv, LockOK
    <2> QED
        BY <1>3, <2>1, FirstWaits
<1>5. task[t].await \in InLine \cup Holding
    BY <1>2, <1>4 DEF BInv, LockOK
<1>6. ~task[t].live
    BY <1>1, <1>5 DEF TaskOK, InLine, Holding
<1> QED
    BY <1>1, <1>2, <1>3, <1>5, <1>6 DEF TaskOK, BInv, ControlOK

LEMMA TimersSame == ASSUME TimersOK, UNCHANGED timer PROVE TimersStay
BY DEF TimersOK, TimersStay

LEMMA ViewersSame ==
    ASSUME ProcessesOK, UNCHANGED viewer, NEW T \in SUBSET Task
    PROVE  ViewersFall(T)
BY DEF ProcessesOK, ViewersFall

LEMMA ViewerFalls ==
    ASSUME ProcessesOK, NEW u \in User, NEW T \in SUBSET Task, NEW v \in Viewer,
           viewer' = [viewer EXCEPT ![u] = v], AnyHeld(v) => AnyHeld(viewer[u]),
           \A x \in Task \ T : task[x].user = u => ~task'[x].live \/ AnyStray(v)
    PROVE  ViewersFall(T)
<1>1. /\ viewer' \in [User -> Viewer] /\ viewer'[u] = v
      /\ \A w \in User : w # u => viewer'[w] = viewer[w]
    BY DEF ProcessesOK
<1> QED
    BY <1>1 DEF ViewersFall

\* What the fields name of the viewer of u is terminated.
LEMMA ViewerTerminated ==
    ASSUME ProcessesOK, NEW u \in User, NEW T \in SUBSET Task,
           viewer' = [viewer EXCEPT ![u] = Terminated(@)],
           \A x \in Task \ T : task[x].user = u => ~task'[x].live \/ Carries(Terminated(viewer[u]))
    PROVE  ViewersFall(T) /\ ~AnyHeld(viewer'[u])
<1>1. viewer[u] \in Viewer /\ viewer \in [User -> Viewer]
    BY DEF ProcessesOK
<1>2. /\ Terminated(viewer[u]) \in Viewer /\ ~AnyHeld(Terminated(viewer[u]))
      /\ Carries(Terminated(viewer[u])) => AnyStray(Terminated(viewer[u]))
    BY <1>1, TerminatedParts
<1>3. viewer' = [viewer EXCEPT ![u] = Terminated(viewer[u])] /\ viewer'[u] = Terminated(viewer[u])
    BY <1>1
<1> HIDE DEF Terminated
<1>4. ViewersFall(T)
    BY <1>2, <1>3, ViewerFalls
<1> QED
    BY <1>2, <1>3, <1>4

LEMMA IdleOK == TaskOK(Idle) /\ TaskOK(Idle)' /\ Idle.await = "idle" /\ Idle.user = None /\ Idle \in Request
BY DEF TaskOK, Idle, Request, Op, Await, AwaitsOf, ViewerOp, AgentOp

\* The request that holds the lock ends and hands the lock on.
LEMMA RequestEndsButControl ==
    ASSUME BInv, NEW t \in Task, IInv', RowsStay, Holds(t), Others({t}), task'[t] = Idle,
           viewer' \in [User -> Viewer],
           browser' \in [User -> {"none", "alive", "dead"}],
           Leave(task[t].user), UNCHANGED <<timer, ws, cookie>>
    PROVE  ControlOK' => BInv'
<1>1. PICK u \in User : task[t].user = u
    BY HolderFields
<1>2. First(queue[u], t) /\ task[t].await \in InLine \cup Holding
    BY <1>1, HolderFields
<1>3. TaskOK(task[t])'
    BY IdleOK DEF TaskOK, GrantOf, Issued
<1>4. SamePlaces(task, task', Task \ {t})
    BY OthersStayPut DEF BInv
<1>5. task'[t].await \notin InLine \cup Holding /\ task'[t].await # "relay"
    BY IdleOK DEF InLine, Holding
<1>6. LockOK(queue, timer, task)'
    BY <1>1, <1>2, <1>4, <1>5, LockLeave DEF BInv, Leave
<1>7. OneRelay'
    BY <1>2, <1>5, RelaysKept DEF BInv, InLine, Holding
<1>8. ws' \in [User -> Task \cup {None}] /\ TimersStay
    BY TimersSame DEF BInv, ProcessesOK
<1> QED
    BY <1>3, <1>6, <1>7, <1>8, KeptButControl

LEMMA RequestEnds ==
    ASSUME BInv, NEW t \in Task, StoreOutside, Holds(t), Others({t}), task'[t] = Idle,
           ViewersFall({t}), browser' \in [User -> {"none", "alive", "dead"}],
           Leave(task[t].user), UNCHANGED <<timer, ws, cookie>>
    PROVE  BInv'
<1>1. task'[t].user \notin User
    BY IdleOK, StoreAssumption
<1>2. ControlOK'
    BY <1>1, ControlKept
<1>3. IInv' /\ RowsStay /\ viewer' \in [User -> Viewer]
    BY DEF StoreOutside, ViewersFall
<1> QED
    BY <1>2, <1>3, RequestEndsButControl

\* It goes on at another await, still first in the queue.
LEMMA RequestGoesOnButControl ==
    ASSUME BInv, NEW t \in Task, IInv', RowsStay, Holds(t), Others({t}),
           NEW a \in Holding, a \in AwaitsOf(task[t].op),
           task'[t] = [task[t] EXCEPT !.await = a],
           viewer' \in [User -> Viewer],
           browser' \in [User -> {"none", "alive", "dead"}],
           UNCHANGED <<queue, timer, ws, cookie>>
    PROVE  ControlOK' => BInv'
<1>1. /\ task[t].user \in User /\ First(queue[task[t].user], t)
      /\ task[t].await \in InLine \cup Holding
      /\ task[t] \in Request /\ TaskOK(task[t])
      /\ ~task[t].live
    BY HolderFields
<1>2. /\ task'[t].op = task[t].op /\ task'[t].await = a
      /\ task'[t].user = task[t].user /\ task'[t].grant = task[t].grant
      /\ ~task'[t].live
      /\ task'[t] \in Request
    BY <1>1 DEF Request, Others
<1>3. TaskOK(task[t])'
    BY <1>1, <1>2 DEF TaskOK, GrantOf, RowsStay
<1>4. SamePlaces(task, task', Task \ {t})
    BY OthersStayPut DEF BInv
<1>5. LockOK(queue, timer, task)'
    <2>1. LockOK(queue, timer, task')
        BY <1>1, <1>2, LockMoves DEF BInv
    <2> QED
        BY <2>1
<1>6. OneRelay'
    BY <1>1, <1>2, RelaysKept DEF BInv, InLine, Holding
<1>7. ws' \in [User -> Task \cup {None}] /\ TimersStay
    BY TimersSame DEF BInv, ProcessesOK
<1> QED
    BY <1>3, <1>5, <1>6, <1>7, KeptButControl

LEMMA RequestGoesOn ==
    ASSUME BInv, NEW t \in Task, StoreOutside, Holds(t), Others({t}),
           NEW a \in Holding, a \in AwaitsOf(task[t].op),
           task'[t] = [task[t] EXCEPT !.await = a],
           Fits(task'[t], session'[task[t].user], viewer'[task[t].user]),
           ViewersFall({t}), browser' \in [User -> {"none", "alive", "dead"}],
           UNCHANGED <<queue, timer, ws, cookie>>
    PROVE  BInv'
<1>1. task'[t].user = task[t].user
    BY HolderFields DEF Request
<1>2. ControlOK'
    BY <1>1, ControlKept
<1>3. IInv' /\ RowsStay /\ viewer' \in [User -> Viewer]
    BY DEF StoreOutside, ViewersFall
<1> QED
    BY <1>2, <1>3, RequestGoesOnButControl

\* It goes for the lock of u, to which it has no claim yet.
LEMMA RequestJoins ==
    ASSUME BInv, NEW t \in Task, NEW u \in User, StoreOutside, Others({t}),
           task[t].await \in {"idle", "close"},
           TaskOK(task[t])', task'[t].user = u, task'[t].await = "lock", ~task'[t].live,
           Join(u, t), UNCHANGED <<browser, viewer, timer, ws, cookie>>
    PROVE  BInv'
<1>1. LockOK(queue, timer, task)'
    <2>1. SamePlaces(task, task', Task \ {t})
        BY OthersStayPut DEF BInv
    <2>2. LockOK([queue EXCEPT ![u] = Append(@, t)], timer, task')
        BY <2>1, LockJoin DEF BInv, InLine, Holding
    <2> QED
        BY <2>2 DEF Join
<1>2. OneRelay'
    BY RelaysKept DEF BInv
<1>3. ws' \in [User -> Task \cup {None}] /\ TimersStay /\ ViewersFall({t})
      /\ browser' \in [User -> {"none", "alive", "dead"}]
    BY TimersSame, ViewersSame DEF BInv, ProcessesOK
<1>4. Fits(task'[t], session'[task'[t].user], viewer'[task'[t].user])
    BY DEF Fits, Holding
<1> QED
    BY <1>1, <1>2, <1>3, <1>4, Kept

-----------------------------------------------------------------------------
(* The steps of the store a handler takes without the session lock. *)

LEMMA QuietOutside ==
    ASSUME BInv, IInv', Quiet, RowsStay
    PROVE  StoreOutside
BY DEF StoreOutside, Quiet, Outside

LEMMA SweepLinksOutside ==
    ASSUME BInv, SweepLinks
    PROVE  StoreOutside
<1>1. IInv'
    BY NextIInv DEF BInv, Next
<1>2. Quiet /\ RowsStay
    BY SweepIsQuiet DEF BInv, SweepLinks
<1> QED
    BY <1>1, <1>2, QuietOutside

LEMMA SweepAllOutside ==
    ASSUME BInv, SweepAll
    PROVE  StoreOutside
<1>1. IInv'
    BY NextIInv DEF BInv, Next
<1>2. Quiet /\ RowsStay
    BY SweepIsQuiet DEF BInv, SweepAll
<1> QED
    BY <1>1, <1>2, QuietOutside

LEMMA ProvisionOutside ==
    ASSUME BInv, NEW u \in User, NEW e \in Email \cup {None}, ProvisionNew(u, e)
    PROVE  StoreOutside
<1>1. IInv'
    BY ProvisionNewStep DEF BInv
<1>2. Quiet /\ RowsStay
    BY RowsUnchangedIsQuiet DEF ProvisionNew
<1> QED
    BY <1>1, <1>2, QuietOutside

LEMMA RepinOutside ==
    ASSUME BInv, NEW u \in User, NEW e \in Email \cup {None}, Repin(u, e)
    PROVE  StoreOutside
<1>1. IInv'
    BY RepinStep DEF BInv
<1>2. Quiet /\ RowsStay
    BY RepinIsQuiet DEF BInv
<1> QED
    BY <1>1, <1>2, QuietOutside

LEMMA CreateOrResumeOutside ==
    ASSUME BInv, NEW u \in User, CreateOrResume(u)
    PROVE  StoreOutside
<1>1. IInv'
    BY CreateOrResumeStep DEF BInv
<1>2. Quiet /\ RowsStay
    BY CreateOrResumeIsQuiet DEF BInv
<1> QED
    BY <1>1, <1>2, QuietOutside

LEMMA RevokeOutside ==
    ASSUME BInv, NEW W \in SUBSET User, \A u \in W : session[u].state \in TakeoverState, Revoke(W)
    PROVE  StoreOutside
<1>1. IInv'
    BY RevokeStep DEF BInv
<1>2. Quiet /\ RowsStay
    BY RevokeIsQuiet DEF BInv
<1> QED
    BY <1>1, <1>2, QuietOutside

LEMMA EndActiveOutside ==
    ASSUME BInv, NEW g \in Grant, NEW status \in Closed, EndActive(g, status)
    PROVE  StoreOutside
<1>1. IInv'
    BY EndActiveStep DEF BInv
<1>2. Quiet /\ RowsStay
    BY EndActiveIsQuiet DEF BInv
<1> QED
    BY <1>1, <1>2, QuietOutside

LEMMA RedeemOutside ==
    ASSUME BInv, NEW g \in Grant, NEW d \in Deadline, SweepThenRedeem(g, d)
    PROVE  StoreOutside
<1>1. d \in Nat
    BY DEF Deadline, BInv, IInv, TypeOK
<1>2. /\ IInv' /\ RowsStay
      /\ Accepted(grant[g].user, g)
      /\ \A w \in User \ {grant[g].user} : Stays(w) \/ Withdrawn(w)
    BY <1>1, SweepThenRedeemStep DEF BInv
<1> QED
    BY <1>2 DEF StoreOutside, Outside

-----------------------------------------------------------------------------
(* Requests that end. *)

LEMMA UsableHolds ==
    ASSUME BInv, NEW t \in Task, Usable(t)
    PROVE  Holds(t) /\ browser' \in [User -> {"none", "alive", "dead"}]
BY DEF Usable, Ensures, BInv, ProcessesOK

\* At an await that only the first of a queue reaches, a request is the first.
LEMMA HolderHolds ==
    ASSUME BInv, NEW t \in Task, task[t].await \in Holding
    PROVE  Holds(t)
<1>1. First(queue[task[t].user], t) /\ task[t].user \in User
    BY DEF BInv, LockOK
<1> QED
    BY <1>1, StoreAssumption DEF Holds, Heads, First

LEMMA Finished ==
    ASSUME BInv, NEW t \in Task, Finish(t)
    PROVE  Others({t}) /\ task'[t] = Idle
BY IdleOK, Assigned DEF BInv, Finish

\* The request ends, and no process is touched.
LEMMA RequestFinishes ==
    ASSUME BInv, NEW t \in Task, StoreOutside, Holds(t), Finish(t), Leave(task[t].user),
           browser' \in [User -> {"none", "alive", "dead"}], UNCHANGED <<viewer, timer, ws, cookie>>
    PROVE  BInv'
<1>1. Others({t}) /\ task'[t] = Idle
    BY Finished
<1>2. ViewersFall({t})
    BY ViewersSame DEF BInv
<1> QED
    BY <1>1, <1>2, RequestEnds

\* The request ends, and its session's viewer with it.
LEMMA RequestStopsViewer ==
    ASSUME BInv, NEW t \in Task, UNCHANGED storeVars, Holds(t), UNCHANGED <<browser, timer, ws, cookie>>,
           viewer' = [viewer EXCEPT ![task[t].user] = Terminated(@)],
           task' = [Through(task[t].user, Terminated(viewer[task[t].user])) EXCEPT ![t] = Idle],
           Leave(task[t].user)
    PROVE  BInv'
<1>1. PICK u \in User : task[t].user = u
    BY HolderFields
<1>2. /\ Others({t}) /\ task'[t] = Idle
      /\ \A x \in Task \ {t} : task[x].user = u => ~task'[x].live \/ Carries(Terminated(viewer[u]))
    BY <1>1, IdleOK, ThroughAssigned DEF BInv
<1>3. ViewersFall({t})
    BY <1>1, <1>2, ViewerTerminated DEF BInv
<1>4. StoreOutside /\ browser' \in [User -> {"none", "alive", "dead"}]
    BY StoreUnchanged DEF BInv, ProcessesOK
<1> QED
    BY <1>2, <1>3, <1>4, RequestEnds

LEMMA EndingKeeps ==
    ASSUME BInv, NEW t \in Task,
           \/ Refused(t) \/ EnsureFails(t) \/ OpenDone(t) \/ ActDone(t) \/ GivesUp(t)
    PROVE  BInv'
<1>1. UNCHANGED storeVars /\ Finish(t) /\ Leave(task[t].user) /\ UNCHANGED <<viewer, timer, ws, cookie>>
    BY DEF Refused, EnsureFails, OpenDone, ActDone, GivesUp
<1>2. Holds(t) /\ browser' \in [User -> {"none", "alive", "dead"}]
    <2>1. CASE Refused(t) \/ EnsureFails(t)
        BY <2>1 DEF Refused, EnsureFails, BInv, ProcessesOK
    <2>2. CASE OpenDone(t) \/ GivesUp(t)
        BY <2>2, UsableHolds DEF OpenDone, GivesUp
    <2>3. CASE ActDone(t)
        BY <2>3, HolderHolds DEF ActDone, At, Holding, BInv, ProcessesOK
    <2> QED
        BY <2>1, <2>2, <2>3
<1> QED
    BY <1>1, <1>2, StoreUnchanged, RequestFinishes

LEMMA RaisingKeeps ==
    ASSUME BInv, NEW t \in Task, SocketExpireRaises(t) \/ CompleteRaises(t) \/ AbortRaises(t)
    PROVE  BInv'
<1>1. /\ Holds(t) /\ Finish(t) /\ Leave(task[t].user)
      /\ UNCHANGED <<viewer, timer, ws, cookie>>
      /\ browser' \in [User -> {"none", "alive", "dead"}]
    BY DEF SocketExpireRaises, CompleteRaises, AbortRaises, BInv, ProcessesOK
<1>2. StoreOutside
    <2>1. CASE UNCHANGED storeVars
        BY <2>1, StoreUnchanged
    <2>2. CASE SocketExpireRaises(t) /\ ~UNCHANGED storeVars
        <3>1. EndActive(task[t].grant, "EXPIRED") /\ task[t].op = "socket"
            BY <2>2 DEF SocketExpireRaises, ExpireActiveGrant, At
        <3>2. task[t].grant \in Grant
            BY <3>1 DEF BInv, TasksOK, TaskOK, ViewerOp, GrantOf, Issued
        <3> QED
            BY <3>1, <3>2, EndActiveOutside DEF Closed
    <2>3. CASE CompleteRaises(t) /\ ~UNCHANGED storeVars
        <3>1. EndActive(task[t].grant, "COMPLETED") /\ task[t].op = "complete"
            BY <2>3 DEF CompleteRaises, CompleteTakeover, At
        <3>2. task[t].grant \in Grant
            BY <3>1 DEF BInv, TasksOK, TaskOK, GrantOf, Issued
        <3> QED
            BY <3>1, <3>2, EndActiveOutside DEF Closed
    <2>4. CASE AbortRaises(t) /\ ~UNCHANGED storeVars
        <3>1. AbortTakeover(task[t].user) /\ task[t].user \in User
            BY <2>4, HolderFields DEF AbortRaises
        <3> QED
            BY <3>1, RevokeOutside DEF AbortTakeover
    <2> QED
        BY <2>1, <2>2, <2>3, <2>4
<1> QED
    BY <1>1, <1>2, RequestFinishes

LEMMA StoppingKeeps ==
    ASSUME BInv, NEW t \in Task, ViewerFails(t) \/ ViewerStopped(t)
    PROVE  BInv'
<1>1. task[t].await \in Holding
    BY DEF ViewerFails, ViewerStopped, Holding
<1> QED
    BY <1>1, HolderHolds, RequestStopsViewer DEF ViewerFails, ViewerStopped

-----------------------------------------------------------------------------
(* Requests that go on. *)

LEMMA WentOn ==
    ASSUME BInv, NEW t \in Task, NEW a \in Holding, Goto(t, a), Holds(t)
    PROVE  /\ Others({t}) /\ task'[t] = [task[t] EXCEPT !.await = a]
           /\ task'[t].op = task[t].op /\ task'[t].await = a /\ task'[t].epoch = task[t].epoch
           /\ ~task'[t].live
<1>1. a \in Await
    BY DEF Holding, Await
<1> QED
    BY <1>1, Went, HolderFields DEF BInv, Request

\* At "stop" nothing is asked of the session.
LEMMA StopFits ==
    ASSUME NEW t \in Task, NEW s, NEW v, task'[t].await = "stop", ~task'[t].live
    PROVE  task'[t].op \notin AgentOp => Fits(task'[t], s, v)
BY DEF Fits

LEMMA GoingToStop ==
    ASSUME BInv, NEW t \in Task, StoreOutside, Holds(t), Goto(t, "stop"),
           task[t].op \in {"resume", "socket", "complete", "evict", "abort"},
           UNCHANGED <<queue, browser, viewer, timer, ws, cookie>>
    PROVE  BInv'
<1>1. "stop" \in Holding /\ "stop" \in AwaitsOf(task[t].op)
    BY DEF Holding, AwaitsOf
<1>2. /\ Others({t}) /\ task'[t] = [task[t] EXCEPT !.await = "stop"]
      /\ task'[t].op = task[t].op /\ task'[t].await = "stop"
      /\ ~task'[t].live
    BY <1>1, WentOn
<1>3. Fits(task'[t], session'[task[t].user], viewer'[task[t].user])
    BY <1>2, StopFits DEF AgentOp
<1>4. ViewersFall({t}) /\ browser' \in [User -> {"none", "alive", "dead"}]
    BY ViewersSame DEF BInv, ProcessesOK
<1> QED
    BY <1>1, <1>2, <1>3, <1>4, RequestGoesOn

LEMMA GoingToStopKeeps ==
    ASSUME BInv, NEW t \in Task,
           ResumeLocked(t) \/ SocketExpires(t) \/ EvictLocked(t) \/ AbortLocked(t)
    PROVE  BInv'
<1>1. /\ Holds(t) /\ Goto(t, "stop") /\ UNCHANGED <<queue, browser, viewer, timer, ws, cookie>>
      /\ task[t].op \in {"resume", "socket", "complete", "evict", "abort"}
    BY DEF ResumeLocked, SocketExpires, EvictLocked, AbortLocked, At
<1>2. StoreOutside
    <2>1. CASE UNCHANGED storeVars
        BY <2>1, StoreUnchanged
    <2>2. CASE SocketExpires(t) /\ ~UNCHANGED storeVars
        <3>1. EndActive(task[t].grant, "EXPIRED") /\ task[t].op = "socket"
            BY <2>2 DEF SocketExpires, ExpireActiveGrant, At
        <3>2. task[t].grant \in Grant
            BY <3>1 DEF BInv, TasksOK, TaskOK, ViewerOp, GrantOf, Issued
        <3> QED
            BY <3>1, <3>2, EndActiveOutside DEF Closed
    <2>3. CASE AbortLocked(t) /\ ~UNCHANGED storeVars
        <3>1. AbortTakeover(task[t].user) /\ task[t].user \in User
            BY <2>3, HolderFields DEF AbortLocked
        <3> QED
            BY <3>1, RevokeOutside DEF AbortTakeover
    <2>4. CASE ResumeLocked(t) \/ EvictLocked(t)
        BY <2>4, StoreUnchanged DEF ResumeLocked, EvictLocked
    <2> QED
        BY <1>1, <2>1, <2>2, <2>3, <2>4
<1> QED
    BY <1>1, <1>2, GoingToStop

\* Who gets as far as the browser was entitled to it, and still is.
LEMMA Entitled ==
    ASSUME BInv, NEW t \in Task, Ensures(t) \/ (Holds(t) /\ task[t].await = "ensure")
    PROVE  /\ Holds(t)
           /\ task[t].op \in {"open", "resume"} \cup AgentOp \cup ViewerOp
           /\ task[t].op \in AgentOp => HoldsLease(task[t].user, task[t].epoch)
           /\ task[t].op \in ViewerOp => Serves(task[t].epoch, session[task[t].user])
           /\ task[t].op = "resume" => ~AnyHeld(viewer[task[t].user])
<1>1. Holds(t)
    BY DEF Ensures
<1>2. TaskOK(task[t]) /\ Fits(task[t], session[task[t].user], viewer[task[t].user])
    BY <1>1, HolderFields
<1>3. CASE task[t].await \in {"stopped", "ensure"}
    BY <1>1, <1>2, <1>3 DEF TaskOK, AwaitsOf, Fits, Holding, HoldsLease, AgentOp, ViewerOp, Request, Op
<1>4. CASE task[t].await \notin {"stopped", "ensure"}
    <2>1. task[t].op \in AgentOp \cup ViewerOp \cup {"open"} /\ Permitted(t)
        BY <1>4 DEF Ensures
    <2> QED
        BY <1>1, <2>1 DEF Permitted, AgentOp, ViewerOp, Serves
<1> QED
    BY <1>3, <1>4

LEMMA UsableEntitled ==
    ASSUME BInv, NEW t \in Task, Usable(t)
    PROVE  Ensures(t) \/ (Holds(t) /\ task[t].await = "ensure")
BY DEF Usable

LEMMA EnsureStartsKeeps ==
    ASSUME BInv, NEW t \in Task, EnsureStarts(t)
    PROVE  BInv'
<1>1. Ensures(t)
    BY DEF EnsureStarts
<1>2. PICK u \in User : task[t].user = u
    BY <1>1, Entitled, HolderFields
<1>3. /\ Holds(t) /\ ~task[t].live /\ task[t] \in Request
      /\ viewer' = [viewer EXCEPT ![u] = [Terminated(@) EXCEPT !["vnc"] = "down"]]
      /\ task' = [Severed(u) EXCEPT ![t].await = "ensure"]
      /\ UNCHANGED storeVars /\ UNCHANGED <<queue, browser, timer, ws, cookie>>
    BY <1>1, <1>2, Entitled, HolderFields DEF EnsureStarts
<1>4. /\ Others({t}) /\ task'[t] = [task[t] EXCEPT !.await = "ensure"]
      /\ \A x \in Task \ {t} : task[x].user = u => ~task'[x].live
    BY <1>3, SeveredWent DEF BInv, Await
<1>5. /\ task'[t].op = task[t].op /\ task'[t].await = "ensure" /\ task'[t].epoch = task[t].epoch
      /\ ~task'[t].live
    BY <1>3, <1>4 DEF Request
<1>6. "ensure" \in Holding /\ "ensure" \in AwaitsOf(task[t].op)
    BY <1>1, Entitled DEF Holding, AwaitsOf, AgentOp, ViewerOp
<1>7. /\ StoreOutside /\ browser' \in [User -> {"none", "alive", "dead"}]
      /\ ViewersFall({t}) /\ ~AnyHeld(viewer'[u])
    <2> DEFINE v == [Terminated(viewer[u]) EXCEPT !["vnc"] = "down"]
    <2>1. v \in Viewer /\ ~AnyHeld(v) /\ viewer \in [User -> Viewer]
        BY TerminatedParts DEF BInv, ProcessesOK
    <2>2. viewer' = [viewer EXCEPT ![u] = v] /\ viewer'[u] = v
        BY <1>3, <2>1
    <2> HIDE DEF v
    <2>3. ViewersFall({t})
        BY <1>4, <2>1, <2>2, ViewerFalls DEF BInv
    <2> QED
        BY <1>3, <2>1, <2>2, <2>3, StoreUnchanged DEF BInv, ProcessesOK
<1>8. Fits(task'[t], session'[u], viewer'[u])
    <2>1. session' = session
        BY <1>3 DEF storeVars
    <2> QED
        BY <1>1, <1>2, <1>5, <1>7, <2>1, Entitled DEF Fits, HoldsLease, AgentOp, ViewerOp
<1> QED
    BY <1>2, <1>3, <1>4, <1>6, <1>7, <1>8, RequestGoesOn

LEMMA ActOnPageKeeps ==
    ASSUME BInv, NEW t \in Task, ActOnPage(t)
    PROVE  BInv'
<1>1. /\ task[t].op = "act" /\ Usable(t) /\ Goto(t, "page")
      /\ UNCHANGED storeVars /\ UNCHANGED <<queue, viewer, timer, ws, cookie>>
    BY DEF ActOnPage
<1>2. Holds(t) /\ browser' \in [User -> {"none", "alive", "dead"}] /\ HoldsLease(task[t].user, task[t].epoch)
    BY <1>1, UsableHolds, UsableEntitled, Entitled DEF AgentOp
<1>3. "page" \in Holding /\ "page" \in AwaitsOf(task[t].op)
    BY <1>1 DEF Holding, AwaitsOf
<1>4. /\ Others({t}) /\ task'[t] = [task[t] EXCEPT !.await = "page"]
      /\ task'[t].op = task[t].op /\ task'[t].await = "page" /\ task'[t].epoch = task[t].epoch
      /\ ~task'[t].live
    BY <1>1, <1>2, <1>3, WentOn
<1>5. Fits(task'[t], session'[task[t].user], viewer'[task[t].user])
    BY <1>1, <1>2, <1>4 DEF Fits, HoldsLease, AgentOp, ViewerOp, storeVars
<1>6. StoreOutside /\ ViewersFall({t})
    BY <1>1, StoreUnchanged, ViewersSame DEF BInv
<1> QED
    BY <1>1, <1>2, <1>3, <1>4, <1>5, <1>6, RequestGoesOn

LEMMA ResumeStopsKeeps ==
    ASSUME BInv, NEW t \in Task, ResumeStops(t)
    PROVE  BInv'
<1>1. task[t].op = "resume" /\ task[t].await = "stop" /\ Holds(t)
    BY HolderHolds DEF ResumeStops, At, Holding
<1>2. PICK u \in User : task[t].user = u
    BY <1>1, HolderFields
<1>3. /\ ~task[t].live /\ task[t] \in Request
      /\ viewer' = [viewer EXCEPT ![u] = Terminated(@)]
      /\ task' = [Through(u, Terminated(viewer[u])) EXCEPT ![t].await = "stopped"]
      /\ UNCHANGED storeVars /\ UNCHANGED <<queue, browser, timer, ws, cookie>>
    BY <1>1, <1>2, HolderFields DEF ResumeStops
<1>4. /\ Others({t}) /\ task'[t] = [task[t] EXCEPT !.await = "stopped"]
      /\ \A x \in Task \ {t} : task[x].user = u => ~task'[x].live \/ Carries(Terminated(viewer[u]))
    BY <1>3, ThroughWent DEF BInv, Await
<1>5. task'[t].op = "resume" /\ ~task'[t].live
    BY <1>1, <1>3, <1>4 DEF Request
<1>6. "stopped" \in Holding /\ "stopped" \in AwaitsOf(task[t].op)
    BY <1>1 DEF Holding, AwaitsOf
<1>7. /\ StoreOutside /\ browser' \in [User -> {"none", "alive", "dead"}]
      /\ ViewersFall({t}) /\ ~AnyHeld(viewer'[u])
    BY <1>3, <1>4, StoreUnchanged, ViewerTerminated DEF BInv, ProcessesOK
<1>8. Fits(task'[t], session'[u], viewer'[u])
    BY <1>5, <1>7 DEF Fits, AgentOp, ViewerOp
<1> QED
    BY <1>1, <1>2, <1>3, <1>4, <1>6, <1>7, <1>8, RequestGoesOn

-----------------------------------------------------------------------------
(* The steps only the holder of the lock may take. *)

\* Two requests of a session are not at once past its lock.
LEMMA OneHolds ==
    ASSUME BInv, NEW t \in Task, NEW x \in Task, Holds(t),
           task[x].await \in Holding, task[x].user = task[t].user
    PROVE  x = t
<1>1. First(queue[task[x].user], x)
    BY DEF BInv, LockOK
<1> QED
    BY <1>1 DEF Holds, Heads, First

\* Where the runtime names no part of the viewer, no other request of the session
\* depends on who is in control.
LEMMA OthersIndifferent ==
    ASSUME BInv, NEW t \in Task, NEW x \in Task, x # t, NEW u \in User, Holds(t), Calmer(x),
           task[t].user = u, task[x].user = u, ~AnyHeld(viewer[u]), NEW s, NEW v,
           AnyStray(viewer[u]) => AnyStray(v)
    PROVE  Fits(task'[x], s, v)
<1>1. task[x].await \notin Holding
    BY OneHolds
<1>2. task[x].live => AnyStray(v)
    BY ViewerParts DEF BInv, ControlOK, Fits
<1>3. task'[x].await = task[x].await /\ (task'[x].live => AnyStray(v))
    BY <1>2, CalmerFields DEF BInv, TasksOK
<1> QED
    BY <1>1, <1>3 DEF Fits, Holding

LEMMA ControlChanges ==
    ASSUME BInv, IInv', NEW t \in Task, NEW u \in User, task[t].user = u, Holds(t), ~AnyHeld(viewer[u]),
           Others({t}), UNCHANGED viewer, \A w \in User \ {u} : Stays(w),
           task'[t].user \in User => task'[t].user = u /\ Fits(task'[t], session'[u], viewer'[u])
    PROVE  ControlOK'
<1>1. ASSUME NEW x \in Task, x # t, task'[x].user \in User
      PROVE  Fits(task'[x], session'[task'[x].user], viewer'[task'[x].user])
    <2>1. Calmer(x) /\ task \in [Task -> Request]
        BY <1>1 DEF Others, BInv, TasksOK
    <2>2. PICK w \in User : task[x].user = w /\ task'[x].user = w
        BY <1>1, <2>1, CalmerFields
    <2>3. CASE w = u
        BY <1>1, <2>1, <2>2, <2>3, OthersIndifferent
    <2>4. CASE w # u
        <3>1. Outside(w) /\ viewer'[w] = viewer[w]
            BY <2>4 DEF Outside
        <3>2. Fits(task[x], session[w], viewer[w]) /\ IInv
            BY <2>2 DEF BInv, ControlOK
        <3>3. Fits(task'[x], session'[w], viewer'[w])
            BY <2>1, <2>2, <3>1, <3>2, FitsKept
        <3> QED
            BY <2>2, <3>3
    <2> QED
        BY <2>3, <2>4
<1>2. ViewerNeverWithAgent'
    <2>1. \A w \in User : Held(w)' => Held(w)
        BY DEF Held
    <2>2. ~Held(u)
        BY ViewerParts
    <2>3. \A w \in User \ {u} : Held(w) => session[w].state \in {"HUMAN_ACTIVE", "READY_TO_RESUME"}
        BY DEF BInv, ControlOK, ViewerNeverWithAgent
    <2> QED
        BY <2>1, <2>2, <2>3 DEF ViewerNeverWithAgent, Stays
<1> QED
    BY <1>1, <1>2 DEF ControlOK

LEMMA HolderUser ==
    ASSUME BInv, NEW t \in Task, Holds(t)
    PROVE  \E u \in User : task[t].user = u
BY HolderFields

\* A part is started: it is held if nobody listens on its port, and a stray
\* otherwise, by which any relay there is goes on.
LEMMA LaunchedParts ==
    ASSUME ProcessesOK, NEW u \in User, NEW p \in Part, viewer' = Launched(u, p)
    PROVE  /\ viewer' \in [User -> Viewer]
           /\ \A w \in User \ {u} : viewer'[w] = viewer[w]
           /\ AnyStray(viewer[u]) \/ WhollyHeld(viewer[u]) => AnyStray(viewer'[u])
<1> DEFINE n == IF viewer[u][p] = "down" THEN "held" ELSE "stray"
           v == [viewer[u] EXCEPT ![p] = n]
<1>1. viewer \in [User -> Viewer] /\ viewer[u] \in [Part -> {"down", "held", "stray"}]
    BY DEF ProcessesOK, Viewer
<1>2. viewer' = [viewer EXCEPT ![u] = v]
    BY <1>1 DEF Launched
<1>3. v \in Viewer /\ v[p] = n /\ \A q \in Part : q # p => v[q] = viewer[u][q]
    BY <1>1 DEF Viewer
<1>4. AnyStray(viewer[u]) \/ WhollyHeld(viewer[u]) => AnyStray(v)
    BY <1>3 DEF AnyStray, WhollyHeld
<1> HIDE DEF v
<1> QED
    BY <1>1, <1>2, <1>3, <1>4

\* The holder of the lock starts a part of the viewer of the takeover it serves.
LEMMA LaunchKeeps ==
    ASSUME BInv, NEW t \in Task, NEW u \in User, task[t].user = u, task[t].op \in ViewerOp,
           Holds(t), Serves(task[t].epoch, session[u]),
           NEW p \in Part, viewer' = Launched(u, p), Goto(t, p),
           browser' \in [User -> {"none", "alive", "dead"}],
           UNCHANGED storeVars, UNCHANGED <<queue, timer, ws, cookie>>
    PROVE  BInv'
<1>1. p \in Holding /\ p \in AwaitsOf(task[t].op) /\ p \in {"vnc", "web"}
    BY DEF Holding, AwaitsOf, ViewerOp, Part
<1>2. /\ Others({t}) /\ task'[t] = [task[t] EXCEPT !.await = p]
      /\ task'[t].op = task[t].op /\ task'[t].await = p /\ task'[t].epoch = task[t].epoch
      /\ ~task'[t].live
    BY <1>1, WentOn
<1>3. task'[t].user = u
    BY <1>2, HolderFields DEF Request
<1>4. /\ viewer' \in [User -> Viewer]
      /\ \A w \in User \ {u} : viewer'[w] = viewer[w]
      /\ AnyStray(viewer[u]) \/ WhollyHeld(viewer[u]) => AnyStray(viewer'[u])
    BY LaunchedParts DEF BInv
<1>5. IInv' /\ RowsStay /\ session' = session
    BY StoreUnchanged DEF StoreOutside, storeVars
<1>6. Fits(task'[t], session'[u], viewer'[u])
    BY <1>2, <1>5 DEF Fits, AgentOp, ViewerOp
<1>7. ASSUME NEW x \in Task, x # t, task'[x].user \in User
      PROVE  Fits(task'[x], session'[task'[x].user], viewer'[task'[x].user])
    <2>1. Calmer(x) /\ task \in [Task -> Request]
        BY <1>2, <1>7 DEF Others, BInv, TasksOK
    <2>2. PICK w \in User : task[x].user = w /\ task'[x].user = w
        BY <1>7, <2>1, CalmerFields
    <2>3. Fits(task[x], session[w], viewer[w])
        BY <2>2 DEF BInv, ControlOK
    <2>4. /\ task'[x].op = task[x].op /\ task'[x].await = task[x].await
          /\ task'[x].epoch = task[x].epoch /\ (task'[x].live => task[x].live)
        BY <2>1, CalmerFields
    <2>5. CASE w = u
        <3>1. task[x].await \notin Holding
            BY <1>7, <2>2, <2>5, OneHolds
        <3>2. task'[x].live => AnyStray(viewer'[u])
            BY <1>4, <2>3, <2>4, <2>5 DEF Fits
        <3>3. Fits(task'[x], session'[u], viewer'[u])
            BY <2>4, <3>1, <3>2 DEF Fits, Holding
        <3> QED
            BY <2>2, <2>5, <3>3
    <2>6. CASE w # u
        <3>1. viewer'[w] = viewer[w]
            BY <1>4, <2>6
        <3>2. Fits(task'[x], session'[w], viewer'[w])
            BY <1>5, <2>3, <2>4, <3>1 DEF Fits
        <3> QED
            BY <2>2, <3>2
    <2> QED
        BY <2>5, <2>6
<1>8. ViewerNeverWithAgent'
    <2>1. \A w \in User \ {u} : Held(w)' => Held(w)
        BY <1>4 DEF Held
    <2>2. session'[u].state \in {"HUMAN_ACTIVE", "READY_TO_RESUME"}
        BY <1>5 DEF Serves
    <2> QED
        BY <1>5, <2>1, <2>2 DEF BInv, ControlOK, ViewerNeverWithAgent
<1>9. ControlOK'
    BY <1>3, <1>6, <1>7, <1>8 DEF ControlOK
<1> QED
    BY <1>1, <1>2, <1>4, <1>5, <1>9, RequestGoesOnButControl

LEMMA VncStartsKeeps ==
    ASSUME BInv, NEW t \in Task, VncStarts(t)
    PROVE  BInv'
<1>1. Usable(t) /\ task[t].op \in ViewerOp
    BY DEF VncStarts
<1>2. PICK u \in User : task[t].user = u
    BY <1>1, UsableHolds, HolderUser
<1>3. /\ Holds(t) /\ browser' \in [User -> {"none", "alive", "dead"}]
      /\ Serves(task[t].epoch, session[u])
    BY <1>1, <1>2, UsableHolds, UsableEntitled, Entitled
<1>4. /\ viewer' = Launched(u, "vnc") /\ Goto(t, "vnc") /\ "vnc" \in Part
      /\ UNCHANGED storeVars /\ UNCHANGED <<queue, timer, ws, cookie>>
    BY <1>2 DEF VncStarts, Part
<1> QED
    BY <1>1, <1>2, <1>3, <1>4, LaunchKeeps

\* A request that waits for a port of the viewer serves its takeover.
LEMMA ViewerAwaited ==
    ASSUME BInv, NEW t \in Task, task[t].await \in {"vnc", "web"}
    PROVE  Holds(t) /\ task[t].op \in ViewerOp /\ Serves(task[t].epoch, session[task[t].user])
<1>1. Holds(t)
    BY HolderHolds DEF Holding
<1>2. TaskOK(task[t]) /\ Fits(task[t], session[task[t].user], viewer[task[t].user])
    BY <1>1, HolderFields
<1>3. task[t].op \in ViewerOp
    BY <1>2 DEF TaskOK, AwaitsOf, ViewerOp, Request, Op, AgentOp
<1> QED
    BY <1>1, <1>2, <1>3 DEF Fits

LEMMA WebStartsKeeps ==
    ASSUME BInv, NEW t \in Task, WebStarts(t)
    PROVE  BInv'
<1>1. Holds(t) /\ task[t].op \in ViewerOp /\ Serves(task[t].epoch, session[task[t].user])
    BY ViewerAwaited DEF WebStarts
<1>2. PICK u \in User : task[t].user = u
    BY <1>1, HolderUser
<1>3. /\ viewer' = Launched(u, "web") /\ Goto(t, "web") /\ "web" \in Part
      /\ UNCHANGED storeVars /\ UNCHANGED <<queue, browser, timer, ws, cookie>>
    BY <1>2 DEF WebStarts, Part
<1> QED
    BY <1>1, <1>2, <1>3, LaunchKeeps DEF BInv, ProcessesOK

\* The lease changes hands: nobody else of the session is past the lock.
LEMMA HandingOverKeeps ==
    ASSUME BInv, NEW t \in Task, NEW u \in User, task[t].user = u, Usable(t), ~AnyHeld(viewer[u]),
           IInv', RowsStay, \A w \in User \ {u} : Stays(w),
           Finish(t), Leave(u), UNCHANGED <<viewer, timer, ws, cookie>>
    PROVE  BInv'
<1>1. Holds(t) /\ browser' \in [User -> {"none", "alive", "dead"}]
    BY UsableHolds
<1>2. Others({t}) /\ task'[t] = Idle
    BY Finished
<1>3. task'[t].user \notin User
    BY <1>2, IdleOK, StoreAssumption
<1>4. viewer' \in [User -> Viewer]
    BY DEF BInv, ProcessesOK
<1>5. ControlOK'
    BY <1>1, <1>2, <1>3, ControlChanges
<1> QED
    BY <1>1, <1>2, <1>4, <1>5, RequestEndsButControl

LEMMA HandOverKeeps ==
    ASSUME BInv, NEW t \in Task, NEW m, NEW g \in Grant, HandOver(t, m, g)
    PROVE  BInv'
<1>1. Usable(t)
    BY DEF HandOver
<1>2. PICK u \in User : task[t].user = u
    BY <1>1, UsableHolds, HolderUser
<1>3. PICK e \in Nat : task[t].epoch = e
    BY DEF BInv, TasksOK, Request
<1>4. IssueTakeover(u, e, m, g) /\ Finish(t) /\ Leave(u) /\ UNCHANGED <<viewer, timer, ws, cookie>>
    BY <1>2, <1>3 DEF HandOver
<1>5. IInv' /\ RowsStay /\ (\A w \in User \ {u} : Stays(w)) /\ session[u].state = "AGENT_ACTIVE"
    BY <1>4, IssueStep, IssueHandsOver DEF BInv
<1>6. ~AnyHeld(viewer[u])
    BY <1>5, ViewerParts DEF BInv, ControlOK, ViewerNeverWithAgent
<1> QED
    BY <1>1, <1>2, <1>4, <1>5, <1>6, HandingOverKeeps

LEMMA ResumeKeeps ==
    ASSUME BInv, NEW t \in Task, Resume(t)
    PROVE  BInv'
<1>1. Usable(t) /\ task[t].op = "resume"
    BY DEF Resume
<1>2. PICK u \in User : task[t].user = u
    BY <1>1, UsableHolds, HolderUser
<1>3. ResumeAgent(u) /\ Finish(t) /\ Leave(u) /\ UNCHANGED <<viewer, timer, ws, cookie>>
    BY <1>2 DEF Resume
<1>4. IInv' /\ RowsStay /\ (\A w \in User \ {u} : Stays(w))
    BY <1>3, ResumeStep, ResumeReturns DEF BInv
<1>5. ~AnyHeld(viewer[u])
    BY <1>1, <1>2, UsableEntitled, Entitled
<1> QED
    BY <1>1, <1>2, <1>3, <1>4, <1>5, HandingOverKeeps

-----------------------------------------------------------------------------
(* The WebSocket of a viewer. *)

\* The holder leaves and queues up again, behind those who waited.
LEMMA LockRequeue ==
    ASSUME BInv, NEW t \in Task, NEW u \in User, task[t].user = u, Holds(t), Others({t}),
           task'[t].await \in InLine, task'[t].user = u, UNCHANGED timer,
           queue' = [queue EXCEPT ![u] = Append(Tail(@), t)]
    PROVE  LockOK(queue, timer, task)'
<1> DEFINE tk == [task EXCEPT ![t].await = "connect"]
           q == [queue EXCEPT ![u] = Tail(@)]
<1>1. /\ task \in [Task -> Request] /\ LockOK(queue, timer, task) /\ First(queue[u], t)
      /\ queue \in [User -> Seq(Task \cup {Timer})]
    BY HolderFields DEF BInv, TasksOK, LockOK
<1>2. /\ SamePlaces(task, tk, Task \ {t}) /\ tk[t].await = "connect" /\ tk[t].user = u
      /\ SamePlaces(tk, task', Task \ {t})
    BY <1>1, OthersStayPut DEF SamePlaces, BInv, Request
<1>3. "connect" \notin InLine \cup Holding
    BY DEF InLine, Holding
<1> HIDE DEF tk
<1>4. LockOK(q, timer, tk)
    BY <1>1, <1>2, <1>3, LockLeave
<1>5. LockOK([q EXCEPT ![u] = Append(@, t)], timer, task')
    <2> HIDE DEF q
    <2> QED
        BY <1>2, <1>3, <1>4, LockJoin
<1>6. [q EXCEPT ![u] = Append(@, t)] = queue'
    BY <1>1
<1> QED
    BY <1>5, <1>6

LEMMA ViewerReturnsKeeps ==
    ASSUME BInv, NEW t \in Task, ViewerReturns(t)
    PROVE  BInv'
<1>1. /\ Holds(t) /\ browser' \in [User -> {"none", "alive", "dead"}]
      /\ task[t].op \in ViewerOp
      /\ Serves(task[t].epoch, session[task[t].user])
    <2>1. CASE task[t].await = "web" /\ UNCHANGED browser
        BY <2>1, ViewerAwaited DEF BInv, ProcessesOK
    <2>2. CASE task[t].op \in ViewerOp /\ Usable(t)
        BY <2>2, UsableHolds, UsableEntitled, Entitled
    <2> QED
        BY <2>1, <2>2 DEF ViewerReturns, Serving
<1>2. PICK u \in User : task[t].user = u
    BY <1>1, HolderUser
<1>3. UNCHANGED storeVars /\ UNCHANGED <<viewer, timer, ws, cookie>>
    BY DEF ViewerReturns
<1>4. StoreOutside /\ TimersStay /\ ViewersFall({t}) /\ ws' \in [User -> Task \cup {None}]
    BY <1>3, StoreUnchanged, TimersSame, ViewersSame DEF BInv, ProcessesOK
<1>5. task[t] \in Request /\ TaskOK(task[t]) /\ First(queue[u], t) /\ task[t].await # "relay"
    BY <1>1, <1>2, HolderFields DEF InLine, Holding
<1>6. CASE Finish(t) /\ Leave(u)
    BY <1>1, <1>2, <1>3, <1>4, <1>6, RequestFinishes
<1>7. CASE /\ task[t].op = "socket" /\ Goto(t, "expire")
           /\ queue' = [queue EXCEPT ![u] = Append(Tail(@), t)]
    <2>1. Others({t}) /\ task'[t] = [task[t] EXCEPT !.await = "expire"]
        BY <1>7, Went DEF BInv, Await
    <2>2. /\ task'[t].user = u /\ task'[t].await = "expire" /\ task'[t].op = "socket"
          /\ task'[t].grant = task[t].grant /\ ~task'[t].live /\ task'[t] \in Request
        BY <1>1, <1>2, <1>5, <1>7, <2>1, HolderFields DEF Request, Others
    <2>3. LockOK(queue, timer, task)'
        <3>1. task'[t].await \in InLine /\ UNCHANGED timer
            BY <1>3, <2>2 DEF InLine
        <3>2. queue' = [queue EXCEPT ![u] = Append(Tail(@), t)]
            BY <1>7
        <3> QED
            BY <1>1, <1>2, <2>1, <2>2, <3>1, <3>2, LockRequeue
    <2>4. OneRelay'
        BY <1>3, <1>5, <2>1, <2>2, RelaysKept DEF BInv
    <2>5. TaskOK(task[t])'
        BY <1>2, <1>4, <1>5, <1>7, <2>2 DEF TaskOK, AwaitsOf, StoreOutside, RowsStay, GrantOf
    <2>6. Fits(task'[t], session'[u], viewer'[u])
        BY <2>2 DEF Fits, Holding, AgentOp, ViewerOp
    <2> QED
        BY <1>1, <1>3, <1>4, <2>1, <2>2, <2>3, <2>4, <2>5, <2>6, Kept
<1>8. CASE /\ task[t].op = "socket" /\ Leave(u)
           /\ task' = [task EXCEPT ![t].await = "connect", ![t].live = Carries(viewer[u])]
    <2> DEFINE r == [task[t] EXCEPT !.await = "connect", !.live = Carries(viewer[u])]
    <2>1. r \in Request /\ r.live = Carries(viewer[u])
        <3>1. Carries(viewer[u]) \in BOOLEAN
            BY DEF Carries
        <3> QED
            BY <1>5, <3>1 DEF Request, Await
    <2>2. task' = [task EXCEPT ![t] = r]
        BY <1>8
    <2>3. Others({t}) /\ task'[t] = r
        BY <2>1, <2>2, Assigned DEF BInv
    <2>4. /\ task'[t].user = u /\ task'[t].await = "connect" /\ task'[t].op = "socket"
          /\ task'[t].grant = task[t].grant /\ task'[t].epoch = task[t].epoch
          /\ task'[t].live = Carries(viewer[u])
          /\ task'[t] \in Request
        <3>1. /\ r.user = task[t].user /\ r.await = "connect" /\ r.op = task[t].op
              /\ r.grant = task[t].grant /\ r.epoch = task[t].epoch
            BY <1>5 DEF Request
        <3> HIDE DEF r
        <3> QED
            BY <1>2, <1>8, <2>1, <2>3, <3>1
    <2> HIDE DEF r
    <2>5. LockOK(queue, timer, task)'
        <3>1. SamePlaces(task, task', Task \ {t})
            BY <2>3, OthersStayPut DEF BInv
        <3>2. LockOK([queue EXCEPT ![u] = Tail(@)], timer, task')
            BY <1>2, <1>5, <2>4, <3>1, LockLeave DEF BInv, InLine, Holding
        <3> QED
            BY <1>3, <1>8, <3>2 DEF Leave
    <2>6. OneRelay'
        BY <1>3, <1>5, <2>3, <2>4, RelaysKept DEF BInv
    <2>7. TaskOK(task[t])'
        BY <1>2, <1>4, <1>5, <1>8, <2>4 DEF TaskOK, AwaitsOf, StoreOutside, RowsStay, GrantOf
    <2>8. Fits(task'[t], session'[u], viewer'[u])
        <3>1. session' = session /\ viewer' = viewer
            BY <1>3 DEF storeVars
        <3>2. Carries(viewer[u]) => AnyStray(viewer[u]) \/ WhollyHeld(viewer[u])
            BY CarriesParts DEF BInv, ProcessesOK
        <3> QED
            BY <1>1, <1>2, <2>4, <3>1, <3>2 DEF Fits, Holding, AgentOp, ViewerOp
    <2> QED
        BY <1>1, <1>3, <1>4, <2>3, <2>4, <2>5, <2>6, <2>7, <2>8, Kept
<1> QED
    BY <1>2, <1>6, <1>7, <1>8 DEF ViewerReturns

\* Outside the lock a request moves on without touching a queue.
LEMMA LockAside ==
    ASSUME BInv, NEW t \in Task, Others({t}), UNCHANGED <<queue, timer>>,
           task[t].await \notin InLine \cup Holding, task'[t].await \notin InLine \cup Holding
    PROVE  LockOK(queue, timer, task)'
<1>1. LockOK(queue, timer, task')
    BY LockMoves DEF BInv
<1> QED
    BY <1>1

LEMMA RegisterKeeps ==
    ASSUME BInv, NEW t \in Task, Register(t)
    PROVE  BInv'
<1>1. /\ task[t].await = "connect" /\ UNCHANGED storeVars
      /\ UNCHANGED <<queue, browser, viewer, timer, cookie>>
    BY DEF Register
<1>2. /\ TaskOK(task[t]) /\ task[t] \in Request
      /\ ws \in [User -> Task \cup {None}]
      /\ task \in [Task -> Request]
    BY DEF BInv, TasksOK, ProcessesOK
<1>3. task[t].op = "socket" /\ task[t].user \in User
    BY <1>1, <1>2 DEF TaskOK, AwaitsOf, Request, Op, AgentOp, ViewerOp
<1>4. PICK u \in User : task[t].user = u
    BY <1>3
<1>5. StoreOutside /\ TimersStay /\ ViewersFall({t}) /\ browser' \in [User -> {"none", "alive", "dead"}]
    BY <1>1, StoreUnchanged, TimersSame, ViewersSame DEF BInv, ProcessesOK
<1>6. CASE Finish(t) /\ UNCHANGED ws
    <2>1. Others({t}) /\ task'[t] = Idle
        BY <1>6, Finished
    <2>2. LockOK(queue, timer, task)'
        BY <1>1, <2>1, IdleOK, LockAside DEF InLine, Holding
    <2>3. OneRelay'
        BY <1>1, <1>6, <2>1, IdleOK, RelaysKept DEF BInv
    <2>4. TaskOK(task[t])' /\ task'[t].user \notin User
        BY <2>1, IdleOK, StoreAssumption DEF TaskOK, GrantOf, Issued
    <2> QED
        BY <1>1, <1>2, <1>5, <1>6, <2>1, <2>2, <2>3, <2>4, Kept
<1>7. CASE ws[u] = None /\ ws' = [ws EXCEPT ![u] = t] /\ Goto(t, "relay")
    <2>1. Others({t}) /\ task'[t] = [task[t] EXCEPT !.await = "relay"]
        BY <1>7, Went DEF BInv, Await
    <2>2. /\ task'[t].user = u /\ task'[t].await = "relay" /\ task'[t].op = "socket"
          /\ task'[t].grant = task[t].grant /\ task'[t].epoch = task[t].epoch
          /\ task'[t].live = task[t].live /\ task'[t] \in Request
        BY <1>2, <1>3, <1>4, <2>1 DEF Request, Others
    <2>3. LockOK(queue, timer, task)'
        BY <1>1, <2>1, <2>2, LockAside DEF InLine, Holding
    <2>4. /\ ws' \in [User -> Task \cup {None}] /\ ws'[u] = t
          /\ \A w \in User : w # u => ws'[w] = ws[w]
        BY <1>2, <1>7
    <2>5. OneRelay'
        <3>1. \A x \in Task \ {t} : /\ task'[x].await = task[x].await /\ task'[x].user = task[x].user
                                    /\ task[x].await = "relay" => task[x].user \in User
            BY <2>1, CalmerFields DEF BInv, TasksOK, TaskOK, Others, AwaitsOf
        <3>2. \A w \in User : w # u /\ ws[w] # None =>
                ws[w] \in Task \ {t} /\ task[ws[w]].await = "relay" /\ task[ws[w]].user = w
            BY <1>1, <1>2 DEF BInv, OneRelay
        <3>3. \A x \in Task : task[x].await = "relay" => ws[task[x].user] = x
            BY DEF BInv, OneRelay
        <3>4. None \notin Task
            BY BrokerAssumption
        <3> QED
            BY <1>7, <2>2, <2>4, <3>1, <3>2, <3>3, <3>4 DEF OneRelay
    <2>6. TaskOK(task[t])'
        BY <1>2, <1>4, <1>5, <2>2, <1>3 DEF TaskOK, AwaitsOf, StoreOutside, RowsStay, GrantOf
    <2>7. Fits(task'[t], session'[u], viewer'[u])
        <3>1. session' = session /\ viewer' = viewer
            BY <1>1 DEF storeVars
        <3>2. Fits(task[t], session[u], viewer[u])
            BY <1>4 DEF BInv, ControlOK
        <3> QED
            BY <1>7, <2>2, <3>1, <3>2 DEF Fits, Holding, AgentOp, ViewerOp
    <2> QED
        BY <1>1, <1>5, <2>1, <2>2, <2>3, <2>4, <2>5, <2>6, <2>7, Kept
<1> QED
    BY <1>4, <1>6, <1>7 DEF Register

LEMMA ConnectFailsKeeps ==
    ASSUME BInv, NEW t \in Task, ConnectFails(t)
    PROVE  BInv'
<1>1. /\ task[t].await = "connect" /\ UNCHANGED storeVars /\ Finish(t)
      /\ UNCHANGED <<queue, browser, viewer, timer, ws, cookie>>
    BY DEF ConnectFails
<1>2. Others({t}) /\ task'[t] = Idle
    BY <1>1, Finished
<1>3. LockOK(queue, timer, task)'
    BY <1>1, <1>2, IdleOK, LockAside DEF InLine, Holding
<1>4. OneRelay'
    BY <1>1, <1>2, IdleOK, RelaysKept DEF BInv
<1>5. TaskOK(task[t])' /\ task'[t].user \notin User
    BY <1>2, IdleOK, StoreAssumption DEF TaskOK, GrantOf, Issued
<1>6. /\ StoreOutside /\ TimersStay /\ ViewersFall({t})
      /\ browser' \in [User -> {"none", "alive", "dead"}] /\ ws' \in [User -> Task \cup {None}]
    BY <1>1, StoreUnchanged, TimersSame, ViewersSame DEF BInv, ProcessesOK
<1> QED
    BY <1>1, <1>2, <1>3, <1>4, <1>5, <1>6, Kept

LEMMA RelayEndsKeeps ==
    ASSUME BInv, NEW t \in Task, RelayEnds(t)
    PROVE  BInv'
<1>1. /\ task[t].await \in {"relay", "hung"} /\ UNCHANGED storeVars /\ Finish(t) /\ Deregister(t)
      /\ UNCHANGED <<queue, browser, viewer, timer, cookie>>
    BY DEF RelayEnds
<1>2. TaskOK(task[t]) /\ ws \in [User -> Task \cup {None}] /\ task \in [Task -> Request]
    BY DEF BInv, TasksOK, ProcessesOK
<1>3. PICK u \in User : task[t].user = u
    BY <1>1, <1>2 DEF TaskOK, AwaitsOf
<1>4. /\ ws' \in [User -> Task \cup {None}]
      /\ ws'[u] = (IF ws[u] = t THEN None ELSE ws[u])
      /\ \A w \in User : w # u => ws'[w] = ws[w]
    BY <1>1, <1>2, <1>3 DEF Deregister
<1>5. Others({t}) /\ task'[t] = Idle
    BY <1>1, Finished
<1>6. StoreOutside /\ TimersStay /\ ViewersFall({t}) /\ browser' \in [User -> {"none", "alive", "dead"}]
    BY <1>1, StoreUnchanged, TimersSame, ViewersSame DEF BInv, ProcessesOK
<1>7. LockOK(queue, timer, task)'
    BY <1>1, <1>5, IdleOK, LockAside DEF InLine, Holding
<1>8. OneRelay'
    <2>1. \A x \in Task \ {t} : /\ task'[x].await = task[x].await /\ task'[x].user = task[x].user
                                /\ task[x].await = "relay" => task[x].user \in User
        BY <1>5, CalmerFields DEF BInv, TasksOK, TaskOK, Others, AwaitsOf
    <2>2. \A w \in User : ws[w] # None =>
            ws[w] \in Task /\ task[ws[w]].await = "relay" /\ task[ws[w]].user = w
        BY <1>2 DEF BInv, OneRelay
    <2>3. \A x \in Task : task[x].await = "relay" => ws[task[x].user] = x
        BY DEF BInv, OneRelay
    <2>4. task'[t].await = "idle"
        BY <1>5, IdleOK
    <2>5. ASSUME NEW x \in Task, task'[x].await = "relay"
          PROVE  ws'[task'[x].user] = x
        BY <1>3, <1>4, <2>1, <2>3, <2>4, <2>5
    <2>6. ASSUME NEW w \in User, ws'[w] # None
          PROVE  task'[ws'[w]].await = "relay" /\ task'[ws'[w]].user = w
        <3>1. ws'[w] = ws[w] /\ ws[w] # t
            BY <1>3, <1>4, <2>2, <2>6
        <3>2. ws[w] \in Task \ {t}
            BY <3>1, <2>2, <2>6
        <3> QED
            BY <3>1, <3>2, <2>1, <2>2, <2>6
    <2> QED
        BY <2>5, <2>6 DEF OneRelay
<1>9. TaskOK(task[t])' /\ task'[t].user \notin User
    BY <1>5, IdleOK, StoreAssumption DEF TaskOK, GrantOf, Issued
<1> QED
    BY <1>1, <1>4, <1>5, <1>6, <1>7, <1>8, <1>9, Kept

-----------------------------------------------------------------------------
(* Completion, eviction and abort. *)

\* The expiry task of u is cancelled, with its place in the queue.
LEMMA TimerCancelled ==
    ASSUME BInv, NEW u \in User, timer' = CancelledTimer(u), NEW q, q = WithoutTimer(u)
    PROVE  /\ TimersStay
           /\ LockOK(q, timer', task)
           /\ \A w \in User, x \in Task : First(queue[w], x) => First(q[w], x)
           /\ \A w \in User : timer'[w].await = "stop" => timer[w].await = "stop" /\ w # u
<1>1. /\ timer \in [User -> ExpiryTask] /\ queue \in [User -> Seq(Task \cup {Timer})]
      /\ LockOK(queue, timer, task)
    BY DEF BInv, TimersOK, LockOK
<1>2. NoTimer \in ExpiryTask /\ NoTimer.await = "none"
    BY DEF NoTimer, ExpiryTask
<1>3. timer' \in [User -> ExpiryTask] /\ timer'[u] = NoTimer /\ \A w \in User : w # u => timer'[w] = timer[w]
    BY <1>1, <1>2 DEF CancelledTimer
<1>4. LockOK(q, timer', task)
    <2>1. timer'[u].await \notin TimerInLine
        BY <1>2, <1>3 DEF TimerInLine
    <2> QED
        BY <1>1, <1>3, <2>1, LockCancel DEF WithoutTimer
<1>5. \A w \in User, x \in Task : First(queue[w], x) => First(q[w], x)
    <2> SUFFICES ASSUME NEW w \in User, NEW x \in Task, First(queue[w], x) PROVE First(q[w], x)
        OBVIOUS
    <2>1. x # Timer /\ queue[w] \in Seq(Task \cup {Timer}) /\ Once(queue[w])
        BY <1>1, BrokerAssumption DEF LockOK
    <2>2. First(Without(queue[w], Timer), x)
        BY <2>1, Cancelling
    <2>3. q[w] = IF w = u THEN Without(queue[w], Timer) ELSE queue[w]
        BY <1>1 DEF WithoutTimer
    <2> QED
        BY <2>2, <2>3
<1>6. TimersStay
    BY <1>1, <1>2, <1>3 DEF TimersStay
<1>7. \A w \in User : timer'[w].await = "stop" => timer[w].await = "stop" /\ w # u
    BY <1>2, <1>3
<1> QED
    BY <1>4, <1>5, <1>6, <1>7

LEMMA SocketClosedKeeps ==
    ASSUME BInv, NEW t \in Task, SocketClosed(t)
    PROVE  BInv'
<1>1. /\ task[t].op \in {"complete", "evict"} /\ task[t].await = "close" /\ Goto(t, "lock")
      /\ UNCHANGED storeVars /\ UNCHANGED <<browser, viewer, timer, ws, cookie>>
    BY DEF SocketClosed
<1>2. TaskOK(task[t]) /\ task[t] \in Request
    BY DEF BInv, TasksOK
<1>3. PICK u \in User : task[t].user = u
    BY <1>1, <1>2 DEF TaskOK
<1>4. Others({t}) /\ task'[t] = [task[t] EXCEPT !.await = "lock"]
    BY <1>1, Went DEF BInv, Await
<1>5. /\ task'[t].op = task[t].op /\ task'[t].await = "lock" /\ task'[t].user = u
      /\ task'[t].grant = task[t].grant /\ ~task'[t].live /\ task'[t] \in Request
    BY <1>1, <1>2, <1>3, <1>4 DEF Request, TaskOK, Others
<1>6. StoreOutside
    BY <1>1, StoreUnchanged
<1>7. TaskOK(task[t])'
    BY <1>1, <1>2, <1>3, <1>5, <1>6 DEF TaskOK, AwaitsOf, StoreOutside, RowsStay, GrantOf
<1>8. Join(u, t)
    BY <1>3 DEF SocketClosed
<1> QED
    BY <1>1, <1>4, <1>5, <1>6, <1>7, <1>8, RequestJoins

LEMMA CompleteLockedKeeps ==
    ASSUME BInv, NEW t \in Task, CompleteLocked(t)
    PROVE  BInv'
<1>1. Holds(t) /\ task[t].op = "complete" /\ Goto(t, "stop") /\ UNCHANGED <<browser, viewer, ws, cookie>>
    BY DEF CompleteLocked, At
<1>2. PICK u \in User : task[t].user = u
    BY <1>1, HolderUser
<1>3. timer' = CancelledTimer(u) /\ queue' = WithoutTimer(u) /\ EndActive(task[t].grant, "COMPLETED")
    BY <1>2 DEF CompleteLocked, CompleteTakeover
<1>4. /\ TaskOK(task[t]) /\ task[t] \in Request /\ First(queue[u], t)
      /\ task[t].await \in InLine \cup Holding
    BY <1>1, <1>2, HolderFields
<1>5. StoreOutside
    <2>1. task[t].grant \in Grant
        BY <1>1, <1>4 DEF TaskOK, GrantOf, Issued
    <2> QED
        BY <1>3, <2>1, EndActiveOutside DEF Closed
<1>6. "stop" \in Holding
    BY DEF Holding
<1>7. /\ Others({t}) /\ task'[t] = [task[t] EXCEPT !.await = "stop"]
      /\ task'[t].op = "complete" /\ task'[t].await = "stop" /\ ~task'[t].live
    BY <1>1, <1>6, WentOn
<1>8. task'[t].user = u /\ task'[t].grant = task[t].grant /\ task'[t] \in Request
    BY <1>2, <1>4, <1>7 DEF Request, Others
<1>9. TaskOK(task[t])'
    BY <1>1, <1>2, <1>4, <1>5, <1>7, <1>8 DEF TaskOK, AwaitsOf, StoreOutside, RowsStay, GrantOf
<1>10. Fits(task'[t], session'[u], viewer'[u])
    BY <1>7, StopFits DEF AgentOp
<1>11. /\ TimersStay
       /\ LockOK(queue', timer', task)
       /\ \A w \in User, x \in Task : First(queue[w], x) => First(queue'[w], x)
    BY <1>3, TimerCancelled
<1>12. LockOK(queue, timer, task)'
    <2>1. LockOK(queue', timer', task')
        BY <1>2, <1>4, <1>6, <1>7, <1>8, <1>11, LockMoves DEF BInv
    <2> QED
        BY <2>1
<1>13. OneRelay'
    BY <1>1, <1>4, <1>7, RelaysKept DEF BInv, InLine, Holding
<1>14. ViewersFall({t}) /\ browser' \in [User -> {"none", "alive", "dead"}] /\ ws' \in [User -> Task \cup {None}]
    BY <1>1, ViewersSame DEF BInv, ProcessesOK
<1> QED
    BY <1>1, <1>5, <1>7, <1>8, <1>9, <1>10, <1>11, <1>12, <1>13, <1>14, Kept

LEMMA AbortListsKeeps ==
    ASSUME BInv, NEW t \in Task, AbortLists(t)
    PROVE  BInv'
<1>1. /\ task[t].op = "abort" /\ task[t].await = "close"
      /\ UNCHANGED storeVars /\ UNCHANGED <<browser, viewer, ws, cookie>>
    BY DEF AbortLists, At
<1>2. TaskOK(task[t]) /\ task[t] \in Request
    BY DEF BInv, TasksOK
<1>3. PICK u \in User : task[t].user = u
    BY <1>1, <1>2 DEF TaskOK
<1>4. StoreOutside /\ ViewersFall({t}) /\ browser' \in [User -> {"none", "alive", "dead"}]
      /\ ws' \in [User -> Task \cup {None}]
    BY <1>1, StoreUnchanged, ViewersSame DEF BInv, ProcessesOK
<1>5. CASE UNCHANGED <<timer, queue>> /\ Finish(t)
    <2>1. Others({t}) /\ task'[t] = Idle
        BY <1>5, Finished
    <2>2. LockOK(queue, timer, task)'
        BY <1>1, <1>5, <2>1, IdleOK, LockAside DEF InLine, Holding
    <2>3. OneRelay' /\ TimersStay
        BY <1>1, <1>5, <2>1, IdleOK, RelaysKept, TimersSame DEF BInv
    <2>4. TaskOK(task[t])' /\ task'[t].user \notin User
        BY <2>1, IdleOK, StoreAssumption DEF TaskOK, GrantOf, Issued
    <2> QED
        BY <1>1, <1>4, <2>1, <2>2, <2>3, <2>4, Kept
<1>6. CASE /\ timer' = CancelledTimer(u) /\ Goto(t, "lock")
           /\ queue' = [WithoutTimer(u) EXCEPT ![u] = Append(@, t)]
    <2>1. Others({t}) /\ task'[t] = [task[t] EXCEPT !.await = "lock"]
        BY <1>6, Went DEF BInv, Await
    <2>2. /\ task'[t].op = "abort" /\ task'[t].await = "lock" /\ task'[t].user = u
          /\ ~task'[t].live /\ task'[t] \in Request
        BY <1>1, <1>2, <1>3, <2>1 DEF Request, TaskOK, Others
    <2>3. TaskOK(task[t])'
        BY <1>3, <2>2 DEF TaskOK, AwaitsOf, ViewerOp
    <2>4. TimersStay /\ LockOK(WithoutTimer(u), timer', task)
        BY <1>6, TimerCancelled
    <2>5. LockOK(queue, timer, task)'
        <3>1. SamePlaces(task, task', Task \ {t})
            BY <2>1, OthersStayPut DEF BInv
        <3>2. task[t].await \notin InLine \cup Holding /\ task'[t].await \in InLine
            BY <1>1, <2>2 DEF InLine, Holding
        <3>3. \A q : LockOK(q, timer', task) => LockOK([q EXCEPT ![u] = Append(@, t)], timer', task')
            BY <2>2, <3>1, <3>2, LockJoin
        <3>4. LockOK([WithoutTimer(u) EXCEPT ![u] = Append(@, t)], timer', task')
            BY <2>4, <3>3
        <3> QED
            BY <1>6, <3>4
    <2>6. OneRelay'
        BY <1>1, <2>1, <2>2, RelaysKept DEF BInv
    <2>7. Fits(task'[t], session'[u], viewer'[u])
        BY <2>2 DEF Fits, AgentOp, ViewerOp
    <2> QED
        BY <1>1, <1>4, <2>1, <2>2, <2>3, <2>4, <2>5, <2>6, <2>7, Kept
<1> QED
    BY <1>3, <1>5, <1>6 DEF AbortLists

-----------------------------------------------------------------------------
(* Requests that arrive. *)

\* A request of u that g, if it names one, is a grant of.
LEMMA BeginOK ==
    ASSUME BInv, RowsStay, NEW op \in Op \ {"idle"}, NEW u \in User, NEW g \in Grant \cup {None}, NEW e \in Nat,
           NEW await \in AwaitsOf(op),
           op \in ViewerOp \cup {"complete"} => GrantOf(g, u)
    PROVE  LET r == Begin(op, u, g, e, await)
           IN  /\ r \in Request /\ r.op = op /\ r.user = u /\ r.await = await
               /\ r.grant = g /\ ~r.live /\ TaskOK(r)
               /\ op \in ViewerOp \cup {"complete"} => GrantOf(g, u)'
<1> DEFINE r == Begin(op, u, g, e, await)
<1>1. await \in Await
    BY DEF AwaitsOf, Await, Op, AgentOp, ViewerOp
<1>2. /\ r \in Request /\ r.op = op /\ r.user = u /\ r.await = await /\ r.grant = g /\ ~r.live
    BY <1>1 DEF Begin, Request
<1>3. GrantOf(g, u) => GrantOf(g, u)'
    BY DEF GrantOf, RowsStay
<1>4. TaskOK(r)
    BY <1>2 DEF TaskOK
<1> QED
    BY <1>2, <1>3, <1>4

LEMMA Arrives ==
    ASSUME BInv, StoreOutside, NEW t \in Task, Free(t),
           NEW op \in Op \ {"idle"}, NEW u \in User, NEW g \in Grant \cup {None}, NEW e \in Nat,
           "lock" \in AwaitsOf(op),
           op \in ViewerOp \cup {"complete"} => GrantOf(g, u),
           task' = [task EXCEPT ![t] = Begin(op, u, g, e, "lock")],
           Join(u, t), UNCHANGED <<browser, viewer, timer, ws, cookie>>
    PROVE  BInv'
<1> DEFINE r == Begin(op, u, g, e, "lock")
<1>1. /\ r \in Request /\ r.op = op /\ r.user = u /\ r.await = "lock"
      /\ r.grant = g /\ ~r.live /\ TaskOK(r)
      /\ op \in ViewerOp \cup {"complete"} => GrantOf(g, u)'
    BY BeginOK DEF StoreOutside
<1>2. task' = [task EXCEPT ![t] = r]
    OBVIOUS
<1> HIDE DEF r
<1>3. Others({t}) /\ task'[t] = r
    BY <1>1, <1>2, Assigned DEF BInv
<1>4. TaskOK(task[t])'
    BY <1>1, <1>3 DEF TaskOK
<1>5. task[t].await = "idle"
    BY IdleOK DEF Free
<1> QED
    BY <1>1, <1>3, <1>4, <1>5, RequestJoins

LEMMA ArrivalKeeps ==
    ASSUME BInv, NEW t \in Task, NEW u \in User,
           StartAct(t, u) \/ StartHandover(t, u) \/ StartResume(t, u) \/ StartOpen(t, u)
    PROVE  BInv'
<1>1. /\ Free(t) /\ Join(u, t) /\ UNCHANGED <<browser, viewer, timer, ws, cookie>>
    BY DEF StartAct, StartHandover, StartResume, StartOpen
<1>2. StoreOutside
    <2>1. CASE UNCHANGED storeVars
        BY <2>1, StoreUnchanged
    <2>2. CASE StartOpen(t, u)
        BY <2>2, CreateOrResumeOutside DEF StartOpen
    <2> QED
        BY <2>1, <2>2 DEF StartAct, StartHandover, StartResume
<1>3. PICK e \in Nat : session[u].epoch = e
    BY DEF BInv, IInv, TypeOK, Session
<1>4. PICK op \in {"act", "handover", "resume", "open"}, f \in Nat :
        task' = [task EXCEPT ![t] = Begin(op, u, None, f, "lock")]
    BY <1>3 DEF StartAct, StartHandover, StartResume, StartOpen
<1>5. /\ op \in Op \ {"idle"} /\ "lock" \in AwaitsOf(op)
      /\ op \notin ViewerOp \cup {"complete"}
    BY DEF Op, AgentOp, ViewerOp, AwaitsOf
<1>6. None \in Grant \cup {None}
    OBVIOUS
<1> QED
    BY <1>1, <1>2, <1>4, <1>5, <1>6, Arrives

LEMMA RecognisedGrant ==
    ASSUME BInv, NEW g \in Grant, Recognised(g)
    PROVE  grant[g].user \in User /\ GrantOf(g, grant[g].user)
BY DEF Recognised, ActiveUnder, GrantOf, Issued, BInv, IInv, GrantInv, GrantsNamed

LEMMA StartViewingKeeps ==
    ASSUME BInv, NEW t \in Task, NEW op \in ViewerOp, NEW g \in Grant, StartViewing(t, op, g)
    PROVE  BInv'
<1>1. PICK u \in User : grant[g].user = u /\ GrantOf(g, u)
    BY RecognisedGrant DEF StartViewing
<1>2. PICK e \in Nat : session[u].epoch = e
    BY DEF BInv, IInv, TypeOK, Session
<1>3. /\ Free(t) /\ Join(u, t) /\ UNCHANGED <<browser, viewer, timer, ws, cookie>>
      /\ UNCHANGED storeVars
      /\ task' = [task EXCEPT ![t] = Begin(op, u, g, e, "lock")]
    BY <1>1, <1>2 DEF StartViewing
<1>4. op \in Op \ {"idle"} /\ "lock" \in AwaitsOf(op) /\ g \in Grant \cup {None}
    BY DEF Op, AgentOp, ViewerOp, AwaitsOf
<1> QED
    BY <1>1, <1>3, <1>4, StoreUnchanged, Arrives

\* Requests outside the lock move on, or to it, without touching a queue.
LEMMA LockAsideAll ==
    ASSUME NEW q, NEW tm, LockOK(q, tm, task), TasksOK, NEW T \in SUBSET Task, Others(T),
           \A x \in T : task[x].await \notin InLine \cup Holding /\ task'[x].await \notin InLine \cup Holding
    PROVE  LockOK(q, tm, task')
<1>1. SamePlaces(task, task', Task \ T)
    BY OthersStayPut
<1>2. \A x \in T : /\ task[x].await \in InLine \cup Holding <=> task'[x].await \in InLine \cup Holding
                   /\ task[x].await \in InLine \cup Holding => task'[x].user = task[x].user
                   /\ task'[x].await \in Holding => First(q[task'[x].user], x)
    OBVIOUS
<1>3. \A w \in User : /\ tm[w].await \in TimerInLine <=> tm[w].await \in TimerInLine
                      /\ tm[w].await = "stop" => First(q[w], Timer)
    BY DEF LockOK
<1> QED
    BY <1>1, <1>2, <1>3, LockStays

\* What a relay that is told to close leaves true.
LEMMA RelayTold ==
    ASSUME BInv, StoreOutside, UNCHANGED viewer, NEW u \in User, NEW x \in Task, x = ws[u], Told(x)
    PROVE  /\ task[x].await = "relay" /\ task'[x].await = "hung" /\ task'[x].user = u
           /\ TaskOK(task[x])' /\ Fits(task'[x], session'[u], viewer'[u])
<1>1. task[x].await = "relay" /\ task[x].user = u /\ TaskOK(task[x]) /\ task[x] \in Request
    BY BrokerAssumption DEF BInv, OneRelay, TasksOK
<1>2. /\ task'[x].op = task[x].op /\ task'[x].await = "hung" /\ task'[x].user = u
      /\ task'[x].grant = task[x].grant /\ task'[x].epoch = task[x].epoch
      /\ task'[x].live = task[x].live /\ task'[x] \in Request
    BY <1>1 DEF Request, Await, Told
<1>3. task[x].op = "socket"
    BY <1>1 DEF TaskOK, AwaitsOf, Request, Op, AgentOp, ViewerOp
<1>4. TaskOK(task[x])'
    BY <1>1, <1>2, <1>3 DEF TaskOK, AwaitsOf, StoreOutside, RowsStay, GrantOf
<1>5. Fits(task[x], session'[u], viewer'[u])
    <2>1. Fits(task[x], session[u], viewer[u]) /\ Outside(u) /\ IInv /\ IInv' /\ task \in [Task -> Request]
        BY <1>1 DEF BInv, ControlOK, StoreOutside, TasksOK
    <2>2. task[x].epoch \in Nat
        BY <1>1 DEF Request
    <2>3. Serves(task[x].epoch, session[u]) => Serves(task[x].epoch, session'[u])
        BY <2>1, <2>2, ServesStays
    <2> QED
        BY <1>1, <1>3, <2>1, <2>3 DEF Fits, Holding, AgentOp, ViewerOp
<1>6. Fits(task'[x], session'[u], viewer'[u])
    BY <1>1, <1>2, <1>3, <1>5 DEF Fits, Holding, AgentOp, ViewerOp
<1> QED
    BY <1>1, <1>2, <1>4, <1>6

\* A request that first closes the WebSocket, or has none to close.
LEMMA Closes ==
    ASSUME BInv, StoreOutside, NEW t \in Task, Free(t),
           NEW op \in {"complete", "evict", "abort"}, NEW u \in User, NEW g \in Grant \cup {None},
           op = "complete" => GrantOf(g, u),
           NEW r, r = Begin(op, u, g, 0, "close"),
           \/ task' = [Hung(u) EXCEPT ![t] = r] /\ CloseSocket(u)
           \/ task' = [task EXCEPT ![t] = r] /\ UNCHANGED ws,
           \/ UNCHANGED <<queue, timer>>
           \/ timer' = CancelledTimer(u) /\ queue' = WithoutTimer(u),
           UNCHANGED <<browser, viewer, cookie>>
    PROVE  BInv'
<1>1. /\ r \in Request /\ r.op = op /\ r.user = u /\ r.await = "close"
      /\ r.grant = g /\ ~r.live /\ TaskOK(r)
      /\ op = "complete" => GrantOf(g, u)'
    <2>1. /\ op \in Op \ {"idle"} /\ "close" \in AwaitsOf(op) /\ 0 \in Nat
          /\ op \in ViewerOp \cup {"complete"} => GrantOf(g, u)
        BY DEF Op, AgentOp, ViewerOp, AwaitsOf
    <2> QED
        BY <2>1, BeginOK DEF StoreOutside
<1>2. task[t].await = "idle"
    BY IdleOK DEF Free
<1>3. PICK T \in SUBSET Task :
        /\ Others(T) /\ t \in T /\ task'[t] = r
        /\ \A x \in T \ {t} : x = ws[u] /\ Told(x)
        /\ OneRelay' /\ ws' \in [User -> Task \cup {None}]
    <2>1. CASE task' = [task EXCEPT ![t] = r] /\ UNCHANGED ws
        <3>1. Others({t}) /\ task'[t] = r
            BY <1>1, <2>1, Assigned DEF BInv
        <3>2. OneRelay'
            BY <1>1, <1>2, <2>1, <3>1, RelaysKept DEF BInv
        <3> QED
            BY <2>1, <3>1, <3>2 DEF BInv, ProcessesOK
    <2>2. CASE task' = [Hung(u) EXCEPT ![t] = r] /\ CloseSocket(u)
        <3>1. /\ Others(ClosingOne(u, t)) /\ task'[t] = r
              /\ \A x \in Task \ {t} : x = ws[u] => Told(x)
              /\ \A x \in Task \ {t} : x # ws[u] => task'[x] = task[x]
            <4>1. TasksOK /\ r \in Request /\ task' = [Hung(u) EXCEPT ![t] = r]
                BY <1>1, <2>2 DEF BInv
            <4> QED
                BY <4>1, HungAssigned, ZenonT(60)
        <3>2. OneRelay' /\ ws' \in [User -> Task \cup {None}]
            BY <1>1, <1>2, <2>2, <3>1, RelaysHungUp DEF Others
        <3> QED
            BY <3>1, <3>2 DEF ClosingOne
    <2> QED
        BY <2>1, <2>2
<1>4. \A x \in T \ {t} :
        /\ task[x].await = "relay" /\ task'[x].await = "hung" /\ task'[x].user = u
        /\ TaskOK(task[x])' /\ Fits(task'[x], session'[u], viewer'[u])
    BY <1>3, RelayTold
<1>5. TaskOK(task[t])'
    BY <1>1, <1>3 DEF TaskOK, ViewerOp
<1>6. \A x \in T : task[x].await \notin InLine \cup Holding /\ task'[x].await \notin InLine \cup Holding
    BY <1>1, <1>2, <1>3, <1>4 DEF InLine, Holding
<1>7. TimersStay /\ LockOK(queue, timer, task)'
    <2>1. TimersStay /\ LockOK(queue', timer', task)
        <3>1. CASE UNCHANGED <<queue, timer>>
            BY <3>1, TimersSame DEF BInv
        <3>2. CASE timer' = CancelledTimer(u) /\ queue' = WithoutTimer(u)
            BY <3>2, TimerCancelled
        <3> QED
            BY <3>1, <3>2
    <2>2. LockOK(queue', timer', task')
        BY <1>3, <1>6, <2>1, LockAsideAll DEF BInv
    <2> QED
        BY <2>1, <2>2
<1>8. Fits(task'[t], session'[u], viewer'[u]) /\ task'[t].user = u
    BY <1>1, <1>3 DEF Fits, AgentOp, ViewerOp
<1>9. ViewersFall(T) /\ browser' \in [User -> {"none", "alive", "dead"}]
    BY ViewersSame DEF BInv, ProcessesOK
<1>10. \A x \in T : /\ TaskOK(task[x])'
                    /\ task'[x].user = u /\ Fits(task'[x], session'[u], viewer'[u])
    BY <1>4, <1>5, <1>8
<1> QED
    BY <1>3, <1>7, <1>9, <1>10, Kept

LEMMA ClosingArrivalKeeps ==
    ASSUME BInv, NEW t \in Task,
           \/ \E g \in Grant : StartComplete(t, g)
           \/ \E u \in User : StartAbort(t, u)
           \/ \E u \in User, e \in Email : StartEvict(t, u, e)
    PROVE  BInv'
<1>1. ASSUME NEW g \in Grant, StartComplete(t, g)
      PROVE  BInv'
    <2>1. PICK u \in User : grant[g].user = u /\ GrantOf(g, u)
        BY <1>1, RecognisedGrant DEF StartComplete
    <2>2. /\ Free(t) /\ UNCHANGED storeVars
          /\ task' = [Hung(u) EXCEPT ![t] = Begin("complete", u, g, 0, "close")] /\ CloseSocket(u)
          /\ UNCHANGED <<queue, timer>> /\ UNCHANGED <<browser, viewer, cookie>>
        BY <1>1, <2>1 DEF StartComplete
    <2> QED
        BY <2>1, <2>2, StoreUnchanged, Closes
<1>2. ASSUME NEW u \in User, StartAbort(t, u)
      PROVE  BInv'
    <2>1. /\ Free(t) /\ UNCHANGED storeVars
          /\ \/ task' = [Hung(u) EXCEPT ![t] = Begin("abort", u, None, 0, "close")] /\ CloseSocket(u)
             \/ task' = [task EXCEPT ![t] = Begin("abort", u, None, 0, "close")] /\ UNCHANGED ws
          /\ UNCHANGED <<queue, timer>> /\ UNCHANGED <<browser, viewer, cookie>>
        BY <1>2 DEF StartAbort
    <2> QED
        BY <2>1, StoreUnchanged, Closes
<1>3. ASSUME NEW u \in User, NEW e \in Email, StartEvict(t, u, e)
      PROVE  BInv'
    <2>1. /\ Free(t) /\ Repin(u, e)
          /\ task' = [Hung(u) EXCEPT ![t] = Begin("evict", u, None, 0, "close")] /\ CloseSocket(u)
          /\ timer' = CancelledTimer(u) /\ queue' = WithoutTimer(u)
          /\ UNCHANGED <<browser, viewer, cookie>>
        BY <1>3 DEF StartEvict
    <2>2. StoreOutside
        BY <2>1, RepinOutside
    <2> QED
        BY <2>1, <2>2, Closes
<1> QED
    BY <1>1, <1>2, <1>3

-----------------------------------------------------------------------------
(* The expiry task, the requests served at once and the environment. *)

\* No request is touched but for its upstream, no process but viewers that go.
LEMMA NoRequestKeeps ==
    ASSUME BInv, StoreOutside, Others({}), ViewersFall({}), TimersStay,
           browser' \in [User -> {"none", "alive", "dead"}],
           UNCHANGED <<ws, cookie>>, LockOK(queue', timer', task)
    PROVE  BInv'
<1>1. LockOK(queue, timer, task)'
    <2>1. SamePlaces(task, task', Task \ {}) /\ {} \in SUBSET Task
        BY OthersStayPut DEF BInv
    <2>2. \A w \in User : /\ timer'[w].await \in TimerInLine <=> timer'[w].await \in TimerInLine
                          /\ timer'[w].await = "stop" => First(queue'[w], Timer)
        BY DEF LockOK
    <2>3. LockOK(queue', timer', task')
        BY <2>1, <2>2, LockStays
    <2> QED
        BY <2>3
<1>2. OneRelay'
    BY RelaysKept DEF BInv
<1>3. ws' \in [User -> Task \cup {None}]
    BY DEF BInv, ProcessesOK
<1> QED
    BY <1>1, <1>2, <1>3, Kept

\* The store moves, and nothing else.
LEMMA StoreMovesKeeps ==
    ASSUME BInv, StoreOutside, UNCHANGED brokerVars
    PROVE  BInv'
<1>1. Others({}) /\ ViewersFall({}) /\ TimersStay /\ UNCHANGED <<ws, cookie, queue, timer>>
      /\ browser' \in [User -> {"none", "alive", "dead"}]
    BY Untouched, ViewersSame, TimersSame DEF BInv, ProcessesOK, brokerVars
<1>2. LockOK(queue', timer', task)
    BY <1>1 DEF BInv
<1> QED
    BY <1>1, <1>2, NoRequestKeeps

LEMMA TimerFiresKeeps ==
    ASSUME BInv, NEW u \in User, TimerFires(u)
    PROVE  BInv'
<1>1. /\ timer[u].await \in {"sleep", "retry"}
      /\ timer' = [timer EXCEPT ![u].await = "lock"] /\ Join(u, Timer)
      /\ UNCHANGED storeVars /\ UNCHANGED <<browser, viewer, task, ws, cookie>>
    BY DEF TimerFires
<1>2. /\ timer' \in [User -> ExpiryTask] /\ timer'[u].await = "lock" /\ timer'[u].grant = timer[u].grant
      /\ \A w \in User : w # u => timer'[w] = timer[w]
    BY <1>1 DEF BInv, TimersOK, ExpiryTask
<1>3. TimersStay
    BY <1>1, <1>2 DEF TimersStay
<1>4. LockOK(queue', timer', task)
    <2>1. LockOK([queue EXCEPT ![u] = Append(@, Timer)], timer', task)
        BY <1>1, <1>2, LockTimerJoin DEF BInv, TimerInLine
    <2> QED
        BY <1>1, <2>1 DEF Join
<1>5. StoreOutside /\ Others({}) /\ ViewersFall({}) /\ browser' \in [User -> {"none", "alive", "dead"}]
    BY <1>1, StoreUnchanged, Untouched, ViewersSame DEF BInv, ProcessesOK
<1> QED
    BY <1>1, <1>3, <1>4, <1>5, NoRequestKeeps

LEMMA TimerGrant ==
    ASSUME BInv, NEW u \in User, timer[u].await # "none"
    PROVE  timer[u].grant \in Grant /\ grant[timer[u].grant].user = u
BY DEF BInv, TimersOK, GrantOf, Issued

LEMMA TimerExpiresKeeps ==
    ASSUME BInv, NEW u \in User, TimerExpires(u)
    PROVE  BInv'
<1>1. /\ timer[u].await = "lock" /\ First(queue[u], Timer)
      /\ timer' = [timer EXCEPT ![u].await = "stop"]
      /\ UNCHANGED <<queue, browser, viewer, task, ws, cookie>>
    BY DEF TimerExpires, Heads, First
<1>2. /\ timer' \in [User -> ExpiryTask] /\ timer'[u].await = "stop" /\ timer'[u].grant = timer[u].grant
      /\ \A w \in User : w # u => timer'[w] = timer[w]
    BY <1>1 DEF BInv, TimersOK, ExpiryTask
<1>3. TimersStay
    BY <1>1, <1>2 DEF TimersStay
<1>4. LockOK(queue', timer', task)
    <2>1. LockOK(queue, timer, task) /\ SamePlaces(task, task, Task \ {}) /\ {} \in SUBSET Task
        BY DEF BInv, SamePlaces
    <2>2. \A w \in User : /\ timer'[w].await \in TimerInLine <=> timer[w].await \in TimerInLine
                          /\ timer'[w].await = "stop" => First(queue[w], Timer)
        BY <1>1, <1>2, <2>1 DEF LockOK, TimerInLine
    <2>3. LockOK(queue, timer', task)
        BY <2>1, <2>2, LockStays, ZenonT(40)
    <2> QED
        BY <1>1, <2>3
<1>5. StoreOutside
    <2>1. CASE UNCHANGED storeVars
        BY <2>1, StoreUnchanged
    <2>2. CASE EndActive(timer[u].grant, "EXPIRED")
        BY <1>1, <2>2, TimerGrant, EndActiveOutside DEF Closed
    <2> QED
        BY <2>1, <2>2 DEF TimerExpires, ExpireActiveGrant
<1>6. Others({}) /\ ViewersFall({}) /\ browser' \in [User -> {"none", "alive", "dead"}]
    BY <1>1, Untouched, ViewersSame DEF BInv, ProcessesOK
<1> QED
    BY <1>1, <1>3, <1>4, <1>5, <1>6, NoRequestKeeps

LEMMA TimerStopsKeeps ==
    ASSUME BInv, NEW u \in User, TimerStops(u)
    PROVE  BInv'
<1>1. /\ timer[u].await = "stop" /\ viewer' = [viewer EXCEPT ![u] = Terminated(@)]
      /\ task' = Through(u, Terminated(viewer[u])) /\ timer' = CancelledTimer(u) /\ Leave(u)
      /\ UNCHANGED storeVars /\ UNCHANGED <<browser, ws, cookie>>
    BY DEF TimerStops
<1>2. NoTimer \in ExpiryTask /\ NoTimer.await = "none"
    BY DEF NoTimer, ExpiryTask
<1>3. timer' \in [User -> ExpiryTask] /\ timer'[u] = NoTimer /\ \A w \in User : w # u => timer'[w] = timer[w]
    BY <1>1, <1>2 DEF CancelledTimer, BInv, TimersOK
<1>4. TimersStay
    BY <1>2, <1>3 DEF TimersStay
<1>5. LockOK(queue', timer', task)
    <2>1. LockOK(queue, timer, task) /\ First(queue[u], Timer) /\ timer'[u].await \notin TimerInLine
        BY <1>1, <1>2, <1>3 DEF BInv, LockOK, TimerInLine
    <2>2. LockOK([queue EXCEPT ![u] = Tail(@)], timer', task)
        BY <1>3, <2>1, LockTimerLeave
    <2> QED
        BY <1>1, <2>2 DEF Leave
<1>6. Others({}) /\ \A x \in Task : task[x].user = u => ~task'[x].live \/ Carries(Terminated(viewer[u]))
    BY <1>1, AllThrough DEF BInv
<1>7. ViewersFall({}) /\ StoreOutside /\ browser' \in [User -> {"none", "alive", "dead"}]
    BY <1>1, <1>6, ViewerTerminated, StoreUnchanged DEF BInv, ProcessesOK
<1> QED
    BY <1>1, <1>4, <1>5, <1>6, <1>7, NoRequestKeeps

LEMMA TimerRaisesKeeps ==
    ASSUME BInv, NEW u \in User, TimerRaises(u)
    PROVE  BInv'
<1>1. /\ timer[u].await = "lock" /\ First(queue[u], Timer) /\ Leave(u)
      /\ UNCHANGED <<browser, viewer, task, ws, cookie>>
    BY DEF TimerRaises, Heads, First
<1>2. NoTimer \in ExpiryTask /\ NoTimer.await = "none"
    BY DEF NoTimer, ExpiryTask
<1>3. /\ timer' \in [User -> ExpiryTask] /\ timer'[u].await \in {"none", "retry"}
      /\ timer'[u].await # "none" => timer'[u].grant = timer[u].grant
      /\ \A w \in User : w # u => timer'[w] = timer[w]
    <2>1. CASE timer' = CancelledTimer(u)
        BY <1>2, <2>1 DEF CancelledTimer, BInv, TimersOK
    <2>2. CASE timer[u].tries < 2 /\ timer' = [timer EXCEPT ![u].await = "retry", ![u].tries = @ + 1]
        <3> DEFINE n == timer[u].tries + 1
                   M == [timer EXCEPT ![u].await = "retry"]
        <3>1. timer[u] \in ExpiryTask /\ timer \in [User -> ExpiryTask]
            BY DEF BInv, TimersOK
        <3>2. n \in 0 .. 3
            <4>1. timer[u].tries \in 0 .. 3
                BY <3>1 DEF ExpiryTask
            <4> QED
                BY <2>2, <4>1
        <3>3. /\ M \in [User -> ExpiryTask] /\ M[u].await = "retry" /\ M[u].grant = timer[u].grant
              /\ M[u].tries = timer[u].tries
              /\ \A w \in User : w # u => M[w] = timer[w]
            BY <3>1 DEF ExpiryTask
        <3>4. timer' = [M EXCEPT ![u].tries = @ + 1]
            BY <2>2
        <3> HIDE DEF M
        <3>5. timer' = [M EXCEPT ![u].tries = n]
            BY <3>3, <3>4
        <3> HIDE DEF n
        <3>6. /\ timer' \in [User -> ExpiryTask] /\ timer'[u].await = "retry"
              /\ timer'[u].grant = timer[u].grant
              /\ \A w \in User : w # u => timer'[w] = timer[w]
            BY <3>2, <3>3, <3>5 DEF ExpiryTask
        <3> QED
            BY <3>6
    <2> QED
        BY <2>1, <2>2 DEF TimerRaises
<1>4. TimersStay
    BY <1>1, <1>3 DEF TimersStay
<1>5. LockOK(queue', timer', task)
    <2>1. LockOK([queue EXCEPT ![u] = Tail(@)], timer', task)
        BY <1>1, <1>3, LockTimerLeave DEF BInv, TimerInLine
    <2> QED
        BY <1>1, <2>1 DEF Leave
<1>6. StoreOutside
    <2>1. CASE UNCHANGED storeVars
        BY <2>1, StoreUnchanged
    <2>2. CASE EndActive(timer[u].grant, "EXPIRED")
        BY <1>1, <2>2, TimerGrant, EndActiveOutside DEF Closed
    <2> QED
        BY <2>1, <2>2 DEF TimerRaises, ExpireActiveGrant
<1>7. Others({}) /\ ViewersFall({}) /\ browser' \in [User -> {"none", "alive", "dead"}]
    BY <1>1, Untouched, ViewersSame DEF BInv, ProcessesOK
<1> QED
    BY <1>1, <1>4, <1>5, <1>6, <1>7, NoRequestKeeps

LEMMA RedeemKeeps ==
    ASSUME BInv, NEW g \in Grant, NEW d \in Deadline, Redeem(g, d)
    PROVE  BInv'
<1>1. d \in Nat /\ SweepThenRedeem(g, d)
    BY DEF Redeem, Deadline, BInv, IInv, TypeOK
<1>2. StoreOutside
    BY <1>1, RedeemOutside
<1>3. PICK u \in User : grant[g].user = u
    BY <1>1, SweepThenRedeemStep DEF BInv
<1>4. Accepted(u, g) /\ RowsStay /\ IInv'
    BY <1>1, <1>3, SweepThenRedeemStep DEF BInv
<1>5. GrantOf(g, u)'
    <2>1. g \in Issued
        BY <1>1 DEF SweepThenRedeem, WaitingOn, Issued
    <2> QED
        BY <1>3, <1>4, <2>1 DEF GrantOf, RowsStay
<1>6. /\ timer' = [timer EXCEPT ![u] = [grant |-> g, await |-> "sleep", tries |-> 0]]
      /\ queue' = WithoutTimer(u) /\ cookie' = cookie \cup {g}
      /\ UNCHANGED <<browser, viewer, task, ws>>
    BY <1>3 DEF Redeem
<1>7. /\ timer' \in [User -> ExpiryTask] /\ timer'[u].await = "sleep" /\ timer'[u].grant = g
      /\ \A w \in User : w # u => timer'[w] = timer[w]
    BY <1>6 DEF BInv, TimersOK, ExpiryTask
<1>8. TimersOK'
    BY <1>4, <1>5, <1>7 DEF TimersOK, BInv, GrantOf, RowsStay
<1>9. LockOK(queue, timer, task)'
    <2>1. LockOK(WithoutTimer(u), timer', task)
        BY <1>7, LockCancel DEF BInv, WithoutTimer, TimerInLine
    <2> QED
        BY <1>6, <2>1
<1>10. Others({}) /\ ViewersFall({})
    BY <1>6, Untouched, ViewersSame DEF BInv
<1>11. TasksOK' /\ ControlOK' /\ OneRelay'
    BY <1>2, <1>4, <1>6, <1>10, TasksKept, ControlKept, RelaysKept DEF BInv
<1>12. ProcessesOK'
    BY <1>4, <1>5, <1>6 DEF BInv, ProcessesOK, RowsStay, GrantOf
<1> QED
    BY <1>4, <1>8, <1>9, <1>11, <1>12 DEF BInv

LEMMA AtOnceKeeps ==
    ASSUME BInv, AtOnce
    PROVE  BInv'
<1>1. CASE Status
    BY <1>1, SweepAllOutside, StoreMovesKeeps DEF Status
<1>2. CASE LookupLink
    BY <1>2, SweepLinksOutside, StoreMovesKeeps DEF LookupLink
<1>3. ASSUME NEW u \in User, OpenRefused(u)
      PROVE  BInv'
    BY <1>3, CreateOrResumeOutside, StoreMovesKeeps DEF OpenRefused
<1>4. ASSUME NEW u \in User, NEW e \in Email \cup {None}, Provision(u, e) \/ EvictUnaudited(u, e)
      PROVE  BInv'
    BY <1>4, ProvisionOutside, RepinOutside, StoreMovesKeeps DEF Provision, EvictUnaudited
<1>5. ASSUME NEW g \in Grant, PortalTooLate(g)
      PROVE  BInv'
    <2>1. EndActive(g, "EXPIRED") /\ UNCHANGED brokerVars
        BY <1>5 DEF PortalTooLate, ActiveGrantExpired
    <2> QED
        BY <2>1, EndActiveOutside, StoreMovesKeeps DEF Closed
<1>6. ASSUME NEW g \in Grant, NEW d \in Deadline, Redeem(g, d)
      PROVE  BInv'
    BY <1>6, RedeemKeeps
<1>7. ASSUME NEW g \in Grant, NEW d \in Deadline, RedeemUnaudited(g, d)
      PROVE  BInv'
    BY <1>7, RedeemOutside, StoreMovesKeeps DEF RedeemUnaudited
<1> QED
    BY <1>1, <1>2, <1>3, <1>4, <1>5, <1>6, <1>7 DEF AtOnce

LEMMA BrowserDiesKeeps ==
    ASSUME BInv, NEW u \in User, BrowserDies(u)
    PROVE  BInv'
<1>1. /\ browser' \in [User -> {"none", "alive", "dead"}]
      /\ UNCHANGED storeVars /\ UNCHANGED <<queue, viewer, timer, task, ws, cookie>>
    BY DEF BrowserDies, BInv, ProcessesOK
<1>2. StoreOutside /\ Others({}) /\ ViewersFall({}) /\ TimersStay
    BY <1>1, StoreUnchanged, Untouched, ViewersSame, TimersSame DEF BInv
<1>3. LockOK(queue', timer', task)
    BY <1>1 DEF BInv
<1> QED
    BY <1>1, <1>2, <1>3, NoRequestKeeps

LEMMA PartDown ==
    ASSUME BInv, NEW u \in User, NEW p \in Part, viewer' = [viewer EXCEPT ![u][p] = "down"],
           task' = Severed(u), UNCHANGED storeVars, UNCHANGED <<queue, timer, ws, cookie>>,
           browser' \in [User -> {"none", "alive", "dead"}]
    PROVE  BInv'
<1>1. Others({}) /\ \A x \in Task : task[x].user = u => ~task'[x].live
    BY AllSevered DEF BInv
<1>2. ViewersFall({})
    <2> DEFINE v == [viewer[u] EXCEPT ![p] = "down"]
    <2>1. v \in Viewer /\ (AnyHeld(v) => AnyHeld(viewer[u]))
        BY DEF BInv, ProcessesOK, Viewer, AnyHeld
    <2>2. viewer' = [viewer EXCEPT ![u] = v]
        BY DEF BInv, ProcessesOK, Viewer
    <2>3. ProcessesOK /\ v \in Viewer /\ {} \in SUBSET Task
        BY <2>1 DEF BInv
    <2>4. \A x \in Task \ {} : task[x].user = u => ~task'[x].live \/ AnyStray(v)
        BY <1>1
    <2> HIDE DEF v
    <2> QED
        BY <2>1, <2>2, <2>3, <2>4, ViewerFalls
<1>3. StoreOutside /\ TimersStay
    BY StoreUnchanged, TimersSame DEF BInv
<1>4. LockOK(queue', timer', task)
    BY DEF BInv
<1> QED
    BY <1>1, <1>2, <1>3, <1>4, NoRequestKeeps

LEMMA DisplayDiesKeeps ==
    ASSUME BInv, NEW u \in User, DisplayDies(u)
    PROVE  BInv'
<1>1. browser' \in [User -> {"none", "alive", "dead"}] /\ "vnc" \in Part
    BY DEF DisplayDies, BInv, ProcessesOK, Part
<1> QED
    BY <1>1, PartDown DEF DisplayDies

LEMMA PartDiesKeeps ==
    ASSUME BInv, NEW u \in User, NEW p \in Part, PartDies(u, p)
    PROVE  BInv'
BY PartDown DEF PartDies, BInv, ProcessesOK

\* Nothing runs, whatever the store holds.
Resting ==
    /\ queue = [u \in User |-> <<>>]
    /\ browser = [u \in User |-> "none"]
    /\ viewer = [u \in User |-> NoViewer]
    /\ timer = [u \in User |-> NoTimer]
    /\ task = [t \in Task |-> Idle]
    /\ ws = [u \in User |-> None]
    /\ IInv
    /\ cookie \subseteq Issued

LEMMA AtRest == Resting => BInv
<1> SUFFICES ASSUME Resting PROVE BInv
    OBVIOUS
<1> USE DEF Resting
<1>1. ProcessesOK
    BY DEF ProcessesOK, NoViewer, Viewer
<1>2. TimersOK
    BY DEF TimersOK, NoTimer, ExpiryTask
<1>3. TasksOK
    BY IdleOK DEF TasksOK
<1>4. Idle.await = "idle" /\ Idle.user = None /\ Idle.op = "idle" /\ Idle.live = FALSE
    BY DEF Idle
<1>5. LockOK(queue, timer, task)
    <2>1. <<>> \in Seq(Task \cup {Timer}) /\ Waiters(<<>>) = {} /\ Once(<<>>)
        BY DEF Waiters, Once
    <2>2. NoTimer.await = "none"
        BY DEF NoTimer
    <2> QED
        BY <1>4, <2>1, <2>2 DEF LockOK, InLine, Holding, TimerInLine
<1>6. ControlOK
    BY <1>4, StoreAssumption DEF ControlOK, ViewerNeverWithAgent, Held, NoViewer, Part
<1>7. OneRelay
    BY <1>4 DEF OneRelay
<1> QED
    BY <1>1, <1>2, <1>3, <1>5, <1>6, <1>7 DEF BInv

LEMMA RestartKeeps ==
    ASSUME BInv, Restart
    PROVE  BInv'
<1>1. StoreOutside
    <2>1. {u \in User : session[u].state \in TakeoverState} \in SUBSET User
        OBVIOUS
    <2> QED
        BY <2>1, RevokeOutside DEF Restart, RecoverFailClosed
<1>2. /\ queue' = [u \in User |-> <<>>] /\ browser' = [u \in User |-> "none"]
      /\ viewer' = [u \in User |-> NoViewer] /\ timer' = [u \in User |-> NoTimer]
      /\ task' = [t \in Task |-> Idle] /\ ws' = [u \in User |-> None]
      /\ cookie' = cookie
    BY DEF Restart
<1>3. IInv' /\ cookie' \subseteq Issued'
    BY <1>1, <1>2 DEF StoreOutside, RowsStay, BInv, ProcessesOK
<1> QED
    <2>1. Resting'
        BY <1>2, <1>3 DEF Resting
    <2> QED
        BY <2>1, AtRest, PTL

LEMMA PassesKeeps ==
    ASSUME BInv, Passes
    PROVE  BInv'
<1>1. now' \in Nat /\ UNCHANGED <<profile, session, grant>> /\ UNCHANGED brokerVars
    BY DEF Passes, Tick, BInv, IInv, TypeOK
<1>2. IInv' /\ Quiet /\ RowsStay
    BY <1>1, RowsUnchangedStep, RowsUnchangedIsQuiet DEF BInv
<1> QED
    BY <1>1, <1>2, QuietOutside, StoreMovesKeeps

LEMMA TaskStepKeeps ==
    ASSUME BInv, NEW t \in Task, TaskStep(t)
    PROVE  BInv'
<1>1. CASE Refused(t) \/ EnsureFails(t) \/ OpenDone(t) \/ ActDone(t) \/ GivesUp(t)
    BY <1>1, EndingKeeps
<1>2. CASE SocketExpireRaises(t) \/ CompleteRaises(t) \/ AbortRaises(t)
    BY <1>2, RaisingKeeps
<1>3. CASE ViewerFails(t) \/ ViewerStopped(t)
    BY <1>3, StoppingKeeps
<1>4. CASE ResumeLocked(t) \/ SocketExpires(t) \/ EvictLocked(t) \/ AbortLocked(t)
    BY <1>4, GoingToStopKeeps
<1>5. CASE EnsureStarts(t) \/ ActOnPage(t) \/ ResumeStops(t) \/ VncStarts(t) \/ WebStarts(t)
    BY <1>5, EnsureStartsKeeps, ActOnPageKeeps, ResumeStopsKeeps, VncStartsKeeps, WebStartsKeeps
<1>6. CASE \E m \in Email \cup {None}, g \in Grant : HandOver(t, m, g)
    BY <1>6, HandOverKeeps
<1>7. CASE Resume(t) \/ ViewerReturns(t) \/ Register(t) \/ SocketClosed(t) \/ CompleteLocked(t) \/ AbortLists(t)
    BY <1>7, ResumeKeeps, ViewerReturnsKeeps, RegisterKeeps, SocketClosedKeeps, CompleteLockedKeeps,
       AbortListsKeeps
<1>8. CASE RelayMustEnd(t) \/ ConnectFails(t)
    BY <1>8, RelayEndsKeeps, ConnectFailsKeeps DEF RelayMustEnd
<1> QED
    BY <1>1, <1>2, <1>3, <1>4, <1>5, <1>6, <1>7, <1>8 DEF TaskStep, Proceeds

LEMMA BrokerStepKeeps ==
    ASSUME BInv, [BrokerNext]_vars
    PROVE  BInv'
<1>1. CASE Passes
    BY <1>1, PassesKeeps
<1>2. CASE AtOnce
    BY <1>2, AtOnceKeeps
<1>3. ASSUME NEW t \in Task, Arrival(t)
      PROVE  BInv'
    <2>1. ASSUME NEW u \in User,
                 StartAct(t, u) \/ StartHandover(t, u) \/ StartResume(t, u) \/ StartOpen(t, u)
          PROVE  BInv'
        BY <2>1, ArrivalKeeps
    <2>2. ASSUME NEW g \in Grant, NEW op \in ViewerOp, StartViewing(t, op, g)
          PROVE  BInv'
        BY <2>2, StartViewingKeeps
    <2> QED
        BY <1>3, <2>1, <2>2, ClosingArrivalKeeps DEF Arrival
<1>4. ASSUME NEW t \in Task, TaskStep(t)
      PROVE  BInv'
    BY <1>4, TaskStepKeeps
<1>5. ASSUME NEW u \in User, TimerStep(u)
      PROVE  BInv'
    BY <1>5, TimerFiresKeeps, TimerExpiresKeeps, TimerStopsKeeps, TimerRaisesKeeps DEF TimerStep
<1>6. CASE Environment
    BY <1>6, RelayEndsKeeps, BrowserDiesKeeps, DisplayDiesKeeps, PartDiesKeeps, RestartKeeps
       DEF Environment, HumanLeaves
<1>7. CASE UNCHANGED vars
    BY <1>7, StoreUnchanged, StoreMovesKeeps DEF vars
<1> QED
    BY <1>1, <1>2, <1>3, <1>4, <1>5, <1>6, <1>7 DEF BrokerNext

LEMMA BrokerStarts == BrokerInit => BInv
<1> SUFFICES ASSUME BrokerInit PROVE BInv
    OBVIOUS
<1>1. IInv
    BY InitIInv DEF BrokerInit
<1> QED
    BY <1>1, AtRest DEF BrokerInit, Resting

LEMMA BrokerInv == BrokerSafety => []BInv
<1>1. BInv /\ [BrokerNext]_vars => BInv'
    BY BrokerStepKeeps
<1> QED
    BY <1>1, BrokerStarts, PTL DEF BrokerSafety

-----------------------------------------------------------------------------
(* Deadlines.  Between the commit of a redemption and the schedule of its     *)
(* expiry task a failed audit write ends the request, so what follows is for  *)
(* a store and an audit log that can be written.                              *)

Writable == "database" \notin Faults /\ "audit" \notin Faults

Aborts(t, u) == At(t, "abort", "lock") /\ task[t].user = u

Watched(u) ==
    \/ timer[u].await \in {"sleep", "lock"} /\ ActiveUnder(timer[u].grant)
    \/ \E t \in Task : Aborts(t, u)

WatchedIfActive(u) == session[u].state = "HUMAN_ACTIVE" => Watched(u)

\* The aborts under way go on, but for those of the requests in T.
AbortsStay(T) == \A t \in Task \ T, u \in User : Aborts(t, u) => Aborts(t, u)'

LEMMA WatchIsKept ==
    ASSUME BInv, NEW u \in User, WatchedIfActive(u), Stays(u), NEW T \in SUBSET Task, AbortsStay(T),
           \A t \in T : ~Aborts(t, u),
           timer'[u] = timer[u] \/ timer[u].await = "stop"
             \/ (timer'[u].await = "lock" /\ timer'[u].grant = timer[u].grant)
    PROVE  WatchedIfActive(u)'
<1> SUFFICES ASSUME session'[u].state = "HUMAN_ACTIVE" PROVE Watched(u)'
    BY DEF WatchedIfActive
<1>1. session[u].state = "HUMAN_ACTIVE"
    BY DEF Stays
<1>2. CASE \E t \in Task : Aborts(t, u)
    <2>1. PICK t \in Task \ T : Aborts(t, u)
        BY <1>2
    <2>2. Aborts(t, u)'
        BY <2>1 DEF AbortsStay
    <2> QED
        BY <2>2 DEF Watched
<1>3. CASE timer[u].await \in {"sleep", "lock"} /\ ActiveUnder(timer[u].grant)
    <2>1. PICK g \in Grant : timer[u].grant = g /\ grant[g].user = u
        BY <1>3, TimerGrant
    <2>2. ActiveUnder(g) /\ grant'[g] = grant[g] /\ session'[u] = session[u]
        BY <1>3, <2>1 DEF Stays
    <2>3. ActiveUnder(g)'
        BY <2>1, <2>2 DEF ActiveUnder, Governs
    <2>4. timer'[u].await \in {"sleep", "lock"} /\ timer'[u].grant = g
        BY <1>3, <2>1
    <2>5. ActiveUnder(timer[u].grant)'
        BY <2>3, <2>4 DEF ActiveUnder, Governs
    <2> QED
        BY <2>4, <2>5 DEF Watched
<1> QED
    BY <1>1, <1>2, <1>3 DEF WatchedIfActive, Watched

WatchInv == \A u \in User : WatchedIfActive(u)

LEMMA QuietlyWatched ==
    ASSUME BInv, WatchInv, Quiet, UNCHANGED timer, NEW T \in SUBSET Task, AbortsStay(T),
           \A u \in User, t \in T : Aborts(t, u) => session'[u].state # "HUMAN_ACTIVE"
    PROVE  WatchInv'
<1> SUFFICES ASSUME NEW u \in User PROVE WatchedIfActive(u)'
    BY DEF WatchInv
<1>1. CASE session'[u].state # "HUMAN_ACTIVE"
    BY <1>1 DEF WatchedIfActive
<1>2. CASE session'[u].state = "HUMAN_ACTIVE"
    <2>1. Stays(u)
        BY <1>2 DEF Quiet, Withdrawn, Opened
    <2> QED
        BY <1>2, <2>1, WatchIsKept DEF WatchInv
<1> QED
    BY <1>1, <1>2

\* When the control of u ends, or its new abort goes for the lock, the rest is quiet.
LEMMA WatchedButOne ==
    ASSUME BInv, WatchInv, NEW u \in User, \A w \in User \ {u} : Stays(w) \/ Withdrawn(w) \/ Opened(w),
           \A w \in User \ {u} : timer'[w] = timer[w],
           NEW T \in SUBSET Task, AbortsStay(T), \A t \in T : task[t].await = "lock" => task[t].user = u,
           WatchedIfActive(u)'
    PROVE  WatchInv'
<1> SUFFICES ASSUME NEW w \in User \ {u} PROVE WatchedIfActive(w)'
    BY DEF WatchInv
<1>1. CASE session'[w].state # "HUMAN_ACTIVE"
    BY <1>1 DEF WatchedIfActive
<1>2. CASE session'[w].state = "HUMAN_ACTIVE"
    <2>1. Stays(w) /\ timer'[w] = timer[w]
        BY <1>2 DEF Withdrawn, Opened
    <2>2. \A t \in T : ~Aborts(t, w)
        BY DEF Aborts, At
    <2> QED
        BY <2>1, <2>2, WatchIsKept DEF WatchInv
<1> QED
    BY <1>1, <1>2

\* A step of request t may cut upstreams and tell a relay to close, but no abort.
LEMMA OtherAbortsStay ==
    ASSUME BInv, NEW t \in Task, NEW u \in User, NEW v,
           NEW M \in {task, Severed(u), Through(u, v), Hung(u)},
           \A x \in Task \ {t} : task'[x] = M[x]
    PROVE  AbortsStay({t})
<1>1. /\ \A x \in Task : x # ws[u] => M[x] = task[x] \/ M[x] = [task[x] EXCEPT !.live = FALSE]
      /\ task \in [Task -> Request]
    <2>1. TasksOK
        BY DEF BInv
    <2>2. CASE M = task
        BY <2>1, <2>2 DEF TasksOK
    <2>3. CASE M = Severed(u)
        BY <2>1, <2>3, SeveredRequests DEF TasksOK
    <2>4. CASE M = Through(u, v)
        BY <2>1, <2>4, ThroughRequests DEF TasksOK
    <2>5. CASE M = Hung(u)
        BY <2>1, <2>5, HungRequests DEF TasksOK
    <2> QED
        BY <2>2, <2>3, <2>4, <2>5
<1>2. \A x \in Task : x = ws[u] => task[x].await = "relay"
    BY BrokerAssumption DEF BInv, OneRelay
<1>3. ASSUME NEW x \in Task \ {t}, NEW w \in User, Aborts(x, w)
      PROVE  Aborts(x, w)'
    <2>1. task[x] \in Request /\ task'[x] = M[x] /\ x # ws[u]
        BY <1>1, <1>2, <1>3 DEF Aborts, At
    <2>2. M[x] = task[x] \/ M[x] = [task[x] EXCEPT !.live = FALSE]
        BY <1>1, <2>1
    <2> HIDE DEF Severed, Through, Hung
    <2>3. task'[x].op = task[x].op /\ task'[x].await = task[x].await /\ task'[x].user = task[x].user
        BY <2>1, <2>2 DEF Request
    <2> QED
        BY <1>3, <2>3 DEF Aborts, At
<1> QED
    BY <1>3 DEF AbortsStay

LEMMA PlainAbortsStay ==
    ASSUME BInv, NEW t \in Task, \A x \in Task \ {t} : task'[x] = task[x]
    PROVE  AbortsStay({t})
BY DEF AbortsStay, Aborts, At

LEMMA PlainSteps ==
    ASSUME BInv, NEW t \in Task, NEW f, task' = [task EXCEPT ![t] = f]
    PROVE  AbortsStay({t})
<1>1. \A x \in Task \ {t} : task'[x] = task[x]
    BY DEF BInv, TasksOK
<1> QED
    BY <1>1, PlainAbortsStay

\* The steps of a request that touch neither the store nor an expiry task.
LEMMA IdleWatch ==
    ASSUME BInv, WatchInv, NEW t \in Task, UNCHANGED storeVars, UNCHANGED timer, AbortsStay({t}),
           ~At(t, "abort", "lock")
    PROVE  WatchInv'
<1>1. Quiet
    BY RowsUnchangedIsQuiet DEF storeVars
<1>2. \A u \in User, x \in {t} : Aborts(x, u) => session'[u].state # "HUMAN_ACTIVE"
    BY DEF Aborts
<1> QED
    BY <1>1, <1>2, QuietlyWatched

LEMMA PlainStepsWatched ==
    ASSUME BInv, WatchInv, Writable, NEW t \in Task,
           \/ Refused(t) \/ EnsureFails(t) \/ OpenDone(t) \/ ActOnPage(t) \/ ActDone(t) \/ GivesUp(t)
           \/ ResumeLocked(t) \/ VncStarts(t) \/ WebStarts(t) \/ ViewerReturns(t) \/ Register(t)
           \/ ConnectFails(t) \/ RelayMustEnd(t)
           \/ SocketClosed(t) \/ EvictLocked(t) \/ CompleteRaises(t) \/ RelayEnds(t)
           \/ \E u \in User : StartAct(t, u) \/ StartHandover(t, u) \/ StartResume(t, u)
           \/ \E op \in ViewerOp, g \in Grant : StartViewing(t, op, g)
    PROVE  WatchInv'
<1>1. UNCHANGED storeVars /\ UNCHANGED timer
    BY DEF Refused, EnsureFails, OpenDone, ActOnPage, ActDone, GivesUp, ResumeLocked, VncStarts,
           WebStarts, ViewerReturns, Register, ConnectFails, RelayMustEnd, RelayEnds, SocketClosed, EvictLocked, CompleteRaises, Writable,
           StartAct, StartHandover, StartResume, StartViewing
<1>2. AbortsStay({t})
    <2>1. \E f : task' = [task EXCEPT ![t] = f]
        BY DEF Refused, EnsureFails, OpenDone, ActOnPage, ActDone, GivesUp, ResumeLocked, VncStarts,
               WebStarts, ViewerReturns, Register, ConnectFails, RelayMustEnd, RelayEnds, SocketClosed, EvictLocked, CompleteRaises,
               StartAct, StartHandover, StartResume, StartViewing, Finish, Goto
    <2> QED
        BY <2>1, PlainSteps
<1>3. ~At(t, "abort", "lock")
    <2>1. CASE Refused(t)
        BY <2>1 DEF Refused, Permitted, At, AgentOp, ViewerOp
    <2>2. CASE OpenDone(t) \/ ActOnPage(t) \/ GivesUp(t) \/ VncStarts(t)
        BY <2>2, SMTT(30) DEF OpenDone, ActOnPage, GivesUp, VncStarts, ViewerOp, At
    <2>3. CASE ViewerReturns(t)
        BY <2>3 DEF ViewerReturns, Serving, ViewerOp, At
    <2>4. CASE \/ \E u \in User : StartAct(t, u) \/ StartHandover(t, u) \/ StartResume(t, u)
               \/ \E op \in ViewerOp, g \in Grant : StartViewing(t, op, g)
        BY <2>4, IdleOK DEF StartAct, StartHandover, StartResume, StartViewing, Free, At
    <2>5. CASE \/ EnsureFails(t) \/ ActDone(t) \/ ResumeLocked(t) \/ WebStarts(t) \/ Register(t)
               \/ ConnectFails(t) \/ RelayMustEnd(t) \/ RelayEnds(t) \/ SocketClosed(t) \/ EvictLocked(t) \/ CompleteRaises(t)
        BY <2>5 DEF EnsureFails, ActDone, ResumeLocked, WebStarts, Register, ConnectFails, RelayMustEnd, RelayEnds, SocketClosed,
                    EvictLocked, CompleteRaises, At
    <2> QED
        BY <2>1, <2>2, <2>3, <2>4, <2>5
<1> QED
    BY <1>1, <1>2, <1>3, IdleWatch

LEMMA SeveringStepsWatched ==
    ASSUME BInv, WatchInv, NEW t \in Task,
           EnsureStarts(t) \/ ResumeStops(t) \/ ViewerFails(t) \/ ViewerStopped(t)
    PROVE  WatchInv'
<1>1. UNCHANGED storeVars /\ UNCHANGED timer
    BY SMTT(30) DEF EnsureStarts, ResumeStops, ViewerFails, ViewerStopped
<1>2. ~At(t, "abort", "lock")
    BY SMTT(30) DEF EnsureStarts, Ensures, ResumeStops, ViewerFails, ViewerStopped, At, AgentOp, ViewerOp
<1>3. Holds(t)
    BY HolderHolds DEF EnsureStarts, Ensures, ResumeStops, ViewerFails, ViewerStopped, At, Holding
<1>4. PICK u \in User : task[t].user = u
    BY <1>3, HolderUser
<1>5. /\ Severed(u) \in [Task -> Request]
      /\ Through(u, Terminated(viewer[u])) \in [Task -> Request]
    BY SeveredRequests, ThroughRequests DEF BInv
<1>6. PICK M \in {Severed(u), Through(u, Terminated(viewer[u]))} : \E f : task' = [M EXCEPT ![t] = f]
    BY <1>4 DEF EnsureStarts, ResumeStops, ViewerFails, ViewerStopped
<1>7. AbortsStay({t})
    <2>1. \A x \in Task \ {t} : task'[x] = M[x]
        BY <1>5, <1>6
    <2> QED
        BY <2>1, OtherAbortsStay
<1> QED
    BY <1>1, <1>2, <1>7, IdleWatch, SMTT(30)

LEMMA ClosingArrivalsWatched ==
    ASSUME BInv, WatchInv, NEW t \in Task,
           \/ \E g \in Grant : StartComplete(t, g)
           \/ \E u \in User : StartAbort(t, u)
    PROVE  WatchInv'
<1>1. UNCHANGED storeVars /\ UNCHANGED timer /\ Free(t)
    BY DEF StartComplete, StartAbort
<1>2. PICK u \in User : \E f : task' = [Hung(u) EXCEPT ![t] = f] \/ task' = [task EXCEPT ![t] = f]
    BY RecognisedGrant DEF StartComplete, StartAbort
<1>3. Hung(u) \in [Task -> Request] /\ task \in [Task -> Request]
    BY HungRequests DEF BInv, TasksOK
<1>4. (\A x \in Task \ {t} : task'[x] = Hung(u)[x]) \/ \A x \in Task \ {t} : task'[x] = task[x]
    BY <1>2, <1>3
<1>5. AbortsStay({t})
    BY <1>4, OtherAbortsStay, PlainAbortsStay
<1>6. ~At(t, "abort", "lock")
    BY <1>1, IdleOK DEF Free, At
<1> QED
    BY <1>1, <1>5, <1>6, IdleWatch

\* The steps of a request that change the store.
LEMMA StoringStepsWatched ==
    ASSUME BInv, WatchInv, Writable, NEW t \in Task,
           \/ \E u \in User : StartOpen(t, u)
           \/ SocketExpires(t) \/ AbortLocked(t) \/ SocketExpireRaises(t) \/ AbortRaises(t)
    PROVE  WatchInv'
<1>1. ~SocketExpireRaises(t) /\ ~AbortRaises(t)
    BY DEF SocketExpireRaises, AbortRaises, Writable
<1>2. UNCHANGED timer /\ \E f : task' = [task EXCEPT ![t] = f]
    BY <1>1 DEF StartOpen, SocketExpires, AbortLocked, Goto
<1>3. AbortsStay({t})
    BY <1>2, PlainSteps
<1>4. CASE \E u \in User : StartOpen(t, u)
    <2>1. Quiet
        BY <1>4, CreateOrResumeIsQuiet DEF StartOpen, BInv
    <2>2. \A w \in User, x \in {t} : Aborts(x, w) => session'[w].state # "HUMAN_ACTIVE"
        BY <1>4, IdleOK DEF StartOpen, Free, Aborts, At
    <2> QED
        BY <1>2, <1>3, <2>1, <2>2, QuietlyWatched
<1>5. CASE SocketExpires(t)
    <2>1. Quiet
        <3>1. CASE UNCHANGED storeVars
            BY <3>1, RowsUnchangedIsQuiet DEF storeVars
        <3>2. CASE EndActive(task[t].grant, "EXPIRED")
            <4>1. task[t].grant \in Grant
                BY <1>5 DEF SocketExpires, At, BInv, TasksOK, TaskOK, ViewerOp, GrantOf, Issued
            <4> QED
                BY <3>2, <4>1, EndActiveIsQuiet DEF BInv, Closed
        <3> QED
            BY <1>5, <3>1, <3>2 DEF SocketExpires, ExpireActiveGrant
    <2>2. \A w \in User, x \in {t} : Aborts(x, w) => session'[w].state # "HUMAN_ACTIVE"
        BY <1>5 DEF SocketExpires, Aborts, At
    <2> QED
        BY <1>2, <1>3, <2>1, <2>2, QuietlyWatched
<1>6. CASE AbortLocked(t)
    <2>1. PICK u \in User : task[t].user = u
        BY <1>6, HolderUser DEF AbortLocked
    <2>2. Quiet /\ session'[u].state # "HUMAN_ACTIVE"
        <3>1. CASE session[u].state \in TakeoverState
            <4>1. Revoke({u}) /\ {u} \in SUBSET User
                BY <1>6, <2>1, <3>1 DEF AbortLocked, AbortTakeover
            <4>2. Quiet
                BY <3>1, <4>1, RevokeIsQuiet DEF BInv
            <4> QED
                BY <4>1, <4>2 DEF Revoke, ReturnControl
        <3>2. CASE session[u].state \notin TakeoverState
            <4>1. UNCHANGED storeVars
                BY <1>6, <2>1, <3>2 DEF AbortLocked
            <4> QED
                BY <3>2, <4>1, RowsUnchangedIsQuiet DEF storeVars, TakeoverState
        <3> QED
            BY <3>1, <3>2
    <2>3. \A w \in User, x \in {t} : Aborts(x, w) => session'[w].state # "HUMAN_ACTIVE"
        BY <2>1, <2>2 DEF Aborts
    <2> QED
        BY <1>2, <1>3, <2>2, <2>3, QuietlyWatched
<1> QED
    BY <1>1, <1>4, <1>5, <1>6

\* The control of u is over, and with it the need of an expiry task.
LEMMA OverWatched ==
    ASSUME BInv, WatchInv, NEW u \in User, NEW t \in Task, AbortsStay({t}),
           task[t].await = "lock" => task[t].user = u,
           \A w \in User \ {u} : Stays(w) \/ Withdrawn(w) \/ Opened(w),
           \A w \in User \ {u} : timer'[w] = timer[w],
           session'[u].state # "HUMAN_ACTIVE"
    PROVE  WatchInv'
<1>1. WatchedIfActive(u)'
    BY DEF WatchedIfActive
<1> QED
    BY <1>1, WatchedButOne

LEMMA OtherTimers ==
    ASSUME BInv, NEW u \in User, timer' = CancelledTimer(u)
    PROVE  \A w \in User \ {u} : timer'[w] = timer[w]
BY DEF CancelledTimer, BInv, TimersOK

LEMMA HandOversWatched ==
    ASSUME BInv, WatchInv, NEW t \in Task,
           Resume(t) \/ \E m \in Email \cup {None}, g \in Grant : HandOver(t, m, g)
    PROVE  WatchInv'
<1>1. Holds(t) /\ UNCHANGED timer /\ \E f : task' = [task EXCEPT ![t] = f]
    BY UsableHolds DEF Resume, HandOver, Finish
<1>2. PICK u \in User : task[t].user = u
    BY <1>1, HolderUser
<1>3. AbortsStay({t})
    BY <1>1, PlainSteps
<1>4. (\A w \in User \ {u} : Stays(w)) /\ session'[u].state # "HUMAN_ACTIVE"
    <2>1. CASE Resume(t)
        BY <1>2, <2>1, ResumeReturns DEF Resume, BInv
    <2>2. ASSUME NEW m \in Email \cup {None}, NEW g \in Grant, HandOver(t, m, g)
          PROVE  (\A w \in User \ {u} : Stays(w)) /\ session'[u].state # "HUMAN_ACTIVE"
        <3>1. PICK e \in Nat : task[t].epoch = e
            BY DEF BInv, TasksOK, Request
        <3>2. IssueTakeover(u, e, m, g)
            BY <1>2, <2>2, <3>1 DEF HandOver
        <3> QED
            BY <3>2, IssueHandsOver DEF BInv
    <2> QED
        BY <2>1, <2>2
<1> QED
    BY <1>1, <1>2, <1>3, <1>4, OverWatched

LEMMA CancellingStepsWatched ==
    ASSUME BInv, WatchInv, NEW t \in Task,
           \/ CompleteLocked(t) \/ AbortLists(t)
           \/ \E u \in User, e \in Email : StartEvict(t, u, e)
    PROVE  WatchInv'
<1>1. CASE CompleteLocked(t)
    <2>1. PICK u \in User : task[t].user = u
        BY <1>1, HolderUser DEF CompleteLocked
    <2>2. PICK g \in Grant : task[t].grant = g /\ grant[g].user = u
        BY <1>1, <2>1 DEF CompleteLocked, At, BInv, TasksOK, TaskOK, GrantOf, Issued
    <2>3. EndActive(g, "COMPLETED") /\ timer' = CancelledTimer(u)
        BY <1>1, <2>1, <2>2 DEF CompleteLocked, CompleteTakeover
    <2>4. Quiet /\ Withdrawn(u)
        BY <2>2, <2>3, EndActiveIsQuiet DEF BInv, Closed
    <2>5. AbortsStay({t})
        <3>1. \E f : task' = [task EXCEPT ![t] = f]
            BY <1>1 DEF CompleteLocked, Goto
        <3> QED
            BY <3>1, PlainSteps
    <2>6. session'[u].state # "HUMAN_ACTIVE"
        BY <2>4 DEF Withdrawn
    <2>7. \A w \in User \ {u} : Stays(w) \/ Withdrawn(w) \/ Opened(w)
        BY <2>4 DEF Quiet
    <2> QED
        BY <2>1, <2>3, <2>5, <2>6, <2>7, OtherTimers, OverWatched
<1>2. CASE AbortLists(t)
    <2>1. /\ task[t].op = "abort" /\ task[t].await = "close" /\ UNCHANGED storeVars
        BY <1>2 DEF AbortLists, At
    <2>2. PICK u \in User : task[t].user = u
        BY <2>1 DEF BInv, TasksOK, TaskOK
    <2>3. AbortsStay({t}) /\ Quiet
        <3>1. \E f : task' = [task EXCEPT ![t] = f]
            BY <1>2 DEF AbortLists, Goto, Finish
        <3> QED
            BY <2>1, <3>1, PlainSteps, RowsUnchangedIsQuiet DEF storeVars
    <2>4. CASE session[u].state \in TakeoverState
        <3>1. timer' = CancelledTimer(u) /\ Goto(t, "lock")
            BY <1>2, <2>2, <2>4 DEF AbortLists
        <3>2. Aborts(t, u)'
            <4>1. task'[t] = [task[t] EXCEPT !.await = "lock"] /\ task[t] \in Request
                BY <3>1, Went DEF BInv, TasksOK, Await
            <4> QED
                BY <2>1, <2>2, <4>1 DEF Aborts, At, Request
        <3>3. WatchedIfActive(u)'
            BY <3>2 DEF WatchedIfActive, Watched
        <3>4. \A w \in User \ {u} : Stays(w) \/ Withdrawn(w) \/ Opened(w)
            BY <2>3 DEF Quiet
        <3>5. \A x \in {t} : task[x].await = "lock" => task[x].user = u
            BY <2>1
        <3>6. {t} \in SUBSET Task
            OBVIOUS
        <3> QED
            BY <2>3, <3>1, <3>3, <3>4, <3>5, <3>6, OtherTimers, WatchedButOne
    <2>5. CASE session[u].state \notin TakeoverState
        <3>1. UNCHANGED timer
            BY <1>2, <2>2, <2>5 DEF AbortLists
        <3> QED
            BY <2>1, <2>3, <3>1, IdleWatch DEF At
    <2> QED
        BY <2>4, <2>5
<1>3. ASSUME NEW u \in User, NEW e \in Email, StartEvict(t, u, e)
      PROVE  WatchInv'
    <2>1. /\ Free(t) /\ Repin(u, e) /\ session' # session /\ timer' = CancelledTimer(u)
          /\ \E f : task' = [Hung(u) EXCEPT ![t] = f]
        BY <1>3 DEF StartEvict
    <2>2. Quiet /\ Withdrawn(u)
        BY <2>1, RepinIsQuiet, RepinWithdraws DEF BInv
    <2>3. AbortsStay({t})
        <3>1. Hung(u) \in [Task -> Request]
            BY HungRequests DEF BInv
        <3>2. \A x \in Task \ {t} : task'[x] = Hung(u)[x]
            BY <2>1, <3>1
        <3> QED
            BY <3>2, OtherAbortsStay
    <2>4. task[t].await # "lock"
        BY <2>1, IdleOK DEF Free
    <2>5. session'[u].state # "HUMAN_ACTIVE"
        BY <2>2 DEF Withdrawn
    <2>6. \A w \in User \ {u} : Stays(w) \/ Withdrawn(w) \/ Opened(w)
        BY <2>2 DEF Quiet
    <2> QED
        BY <2>1, <2>3, <2>4, <2>5, <2>6, OtherTimers, OverWatched
<1> QED
    BY <1>1, <1>2, <1>3

\* No request moves but for its upstream: the aborts under way go on.
LEMMA NoAbortMoves ==
    ASSUME BInv, NEW u \in User, NEW v, task' = task \/ task' = Severed(u) \/ task' = Through(u, v)
    PROVE  AbortsStay({})
<1>1. \A x \in Task : task'[x] = task[x] \/ task'[x] = [task[x] EXCEPT !.live = FALSE]
    BY SeveredRequests, ThroughRequests DEF BInv
<1>2. \A x \in Task : task[x] \in Request
    BY DEF BInv, TasksOK
<1> QED
    BY <1>1, <1>2 DEF AbortsStay, Aborts, At, Request

LEMMA TimerStepsWatched ==
    ASSUME BInv, WatchInv, Writable, NEW u \in User, TimerStep(u)
    PROVE  WatchInv'
<1>1. ~TimerRaises(u)
    BY DEF TimerRaises, Writable
<1>2. AbortsStay({}) /\ {} \in SUBSET Task /\ \A x \in {} : task[x].await = "lock" => task[x].user = u
    <2>1. task' = task \/ task' = Through(u, Terminated(viewer[u]))
        BY <1>1 DEF TimerStep, TimerFires, TimerExpires, TimerStops
    <2> QED
        BY <2>1, NoAbortMoves
<1>3. \A w \in User \ {u} : timer'[w] = timer[w]
    <2>1. \E f : timer' = [timer EXCEPT ![u] = f]
        BY <1>1 DEF TimerStep, TimerFires, TimerExpires, TimerStops, CancelledTimer
    <2> QED
        BY <2>1 DEF BInv, TimersOK
<1>4. CASE TimerFires(u) \/ TimerStops(u)
    <2>1. Quiet
        BY <1>4, RowsUnchangedIsQuiet DEF TimerFires, TimerStops, storeVars
    <2>2. timer[u].await = "stop" \/ (timer'[u].await = "lock" /\ timer'[u].grant = timer[u].grant)
        BY <1>4 DEF TimerFires, TimerStops, BInv, TimersOK, ExpiryTask
    <2>3. WatchedIfActive(u)'
        <3>1. CASE session'[u].state # "HUMAN_ACTIVE"
            BY <3>1 DEF WatchedIfActive
        <3>2. CASE session'[u].state = "HUMAN_ACTIVE"
            <4>1. Stays(u)
                BY <2>1, <3>2 DEF Quiet, Withdrawn, Opened
            <4> QED
                BY <1>2, <2>2, <4>1, WatchIsKept DEF WatchInv
        <3> QED
            BY <3>1, <3>2
    <2> QED
        BY <1>2, <1>3, <2>1, <2>3, WatchedButOne DEF Quiet
<1>5. CASE TimerExpires(u)
    <2>1. PICK g \in Grant : timer[u].grant = g /\ grant[g].user = u
        BY <1>5, TimerGrant DEF TimerExpires
    <2>2. CASE ActiveUnder(g)
        <3>1. EndActive(g, "EXPIRED")
            BY <1>5, <2>1, <2>2 DEF TimerExpires, ExpireActiveGrant
        <3>2. Quiet /\ Withdrawn(u)
            BY <2>1, <3>1, EndActiveIsQuiet DEF BInv, Closed
        <3>3. WatchedIfActive(u)'
            BY <3>2 DEF WatchedIfActive, Withdrawn
        <3> QED
            BY <1>2, <1>3, <3>2, <3>3, WatchedButOne DEF Quiet
    <2>3. CASE ~ActiveUnder(g)
        <3>1. UNCHANGED storeVars /\ UNCHANGED task
            BY <1>5, <2>1, <2>3 DEF TimerExpires
        <3>2. WatchedIfActive(u)'
            <4>1. CASE session[u].state # "HUMAN_ACTIVE"
                BY <3>1, <4>1 DEF WatchedIfActive, storeVars
            <4>2. CASE \E t \in Task : Aborts(t, u)
                BY <3>1, <4>2 DEF WatchedIfActive, Watched, Aborts, At
            <4> QED
                BY <2>1, <2>3, <4>1, <4>2 DEF WatchInv, WatchedIfActive, Watched
        <3>3. Quiet
            BY <3>1, RowsUnchangedIsQuiet DEF storeVars
        <3> QED
            BY <1>2, <1>3, <3>2, <3>3, WatchedButOne DEF Quiet
    <2> QED
        BY <2>2, <2>3
<1> QED
    BY <1>1, <1>4, <1>5 DEF TimerStep

\* The redemption of g replaces whatever expiry task its user has.
LEMMA RedeemWatched ==
    ASSUME BInv, WatchInv, NEW g \in Grant, NEW d \in Deadline, Redeem(g, d)
    PROVE  WatchInv'
<1>1. d \in Nat /\ SweepThenRedeem(g, d)
    BY DEF Redeem, Deadline, BInv, IInv, TypeOK
<1>2. PICK u \in User : grant[g].user = u
    BY <1>1, SweepThenRedeemStep DEF BInv
<1>3. Accepted(u, g) /\ \A w \in User \ {u} : Stays(w) \/ Withdrawn(w)
    BY <1>1, <1>2, SweepThenRedeemStep DEF BInv
<1>4. timer' = [timer EXCEPT ![u] = [grant |-> g, await |-> "sleep", tries |-> 0]] /\ UNCHANGED task
    BY <1>2 DEF Redeem
<1>5. /\ timer'[u].await = "sleep" /\ timer'[u].grant = g
      /\ \A w \in User \ {u} : timer'[w] = timer[w]
    BY <1>4 DEF BInv, TimersOK
<1>6. WatchedIfActive(u)'
    <2>1. ActiveUnder(g)'
        BY <1>3 DEF Accepted
    <2>2. ActiveUnder(timer[u].grant)'
        BY <1>5, <2>1 DEF ActiveUnder, Governs
    <2> QED
        BY <1>5, <2>2 DEF WatchedIfActive, Watched
<1>7. AbortsStay({}) /\ {} \in SUBSET Task /\ \A x \in {} : task[x].await = "lock" => task[x].user = u
    BY <1>4, NoAbortMoves
<1> QED
    BY <1>3, <1>5, <1>6, <1>7, WatchedButOne

LEMMA AtOnceWatched ==
    ASSUME BInv, WatchInv, Writable, AtOnce
    PROVE  WatchInv'
<1>1. CASE Quiet /\ UNCHANGED brokerVars
    <2>1. AbortsStay({}) /\ {} \in SUBSET Task /\ UNCHANGED timer
        BY <1>1 DEF AbortsStay, Aborts, At, brokerVars
    <2> QED
        BY <1>1, <2>1, QuietlyWatched
<1>2. CASE Status \/ LookupLink
    <2>1. Quiet
        <3>1. CASE Status
            <4>1. session' = ReturnControl(Owners(StaleLinks \cup PastDeadline))
                  /\ grant' = Mark(StaleLinks \cup PastDeadline, "EXPIRED")
                BY <3>1 DEF Status, SweepAll
            <4> QED
                BY <4>1, SweepIsQuiet DEF BInv
        <3>2. CASE LookupLink
            <4>1. session' = ReturnControl(Owners(StaleLinks)) /\ grant' = Mark(StaleLinks, "EXPIRED")
                  /\ StaleLinks \in SUBSET (StaleLinks \cup PastDeadline)
                BY <3>2 DEF LookupLink, SweepLinks
            <4> QED
                BY <4>1, SweepIsQuiet DEF BInv
        <3> QED
            BY <1>2, <3>1, <3>2
    <2> QED
        BY <1>1, <1>2, <2>1 DEF Status, LookupLink
<1>3. ASSUME NEW u \in User, OpenRefused(u)
      PROVE  WatchInv'
    BY <1>1, <1>3, CreateOrResumeIsQuiet DEF OpenRefused, BInv
<1>4. ASSUME NEW u \in User, NEW e \in Email \cup {None}, Provision(u, e) \/ EvictUnaudited(u, e)
      PROVE  WatchInv'
    <2>1. CASE ProvisionNew(u, e) /\ UNCHANGED brokerVars
        BY <1>1, <2>1, RowsUnchangedIsQuiet DEF ProvisionNew
    <2>2. CASE Repin(u, e) /\ UNCHANGED brokerVars
        BY <1>1, <2>2, RepinIsQuiet DEF BInv
    <2> QED
        BY <1>4, <2>1, <2>2 DEF Provision, EvictUnaudited
<1>5. ASSUME NEW g \in Grant, PortalTooLate(g)
      PROVE  WatchInv'
    <2>1. EndActive(g, "EXPIRED") /\ UNCHANGED brokerVars
        BY <1>5 DEF PortalTooLate, ActiveGrantExpired
    <2> QED
        BY <1>1, <2>1, EndActiveIsQuiet DEF BInv, Closed
<1>6. ASSUME NEW g \in Grant, NEW d \in Deadline, Redeem(g, d) \/ RedeemUnaudited(g, d)
      PROVE  WatchInv'
    BY <1>6, RedeemWatched DEF RedeemUnaudited, Writable
<1> QED
    BY <1>2, <1>3, <1>4, <1>5, <1>6 DEF AtOnce

LEMMA EnvironmentWatched ==
    ASSUME BInv, WatchInv, Writable, Environment
    PROVE  WatchInv'
<1>1. CASE \E t \in Task : RelayEnds(t)
    BY <1>1, PlainStepsWatched
<1>2. ASSUME NEW u \in User, BrowserDies(u) \/ DisplayDies(u) \/ \E p \in Part : PartDies(u, p)
      PROVE  WatchInv'
    <2>1. UNCHANGED storeVars /\ UNCHANGED timer /\ (task' = task \/ task' = Severed(u))
        BY <1>2 DEF BrowserDies, DisplayDies, PartDies
    <2>2. AbortsStay({}) /\ {} \in SUBSET Task /\ Quiet
        BY <2>1, NoAbortMoves, RowsUnchangedIsQuiet DEF storeVars
    <2> QED
        BY <2>1, <2>2, QuietlyWatched
<1>3. CASE Restart
    <2>1. session' = ReturnControl({u \in User : session[u].state \in TakeoverState})
        BY <1>3 DEF Restart, RecoverFailClosed, Revoke
    <2>2. \A u \in User : session'[u].state # "HUMAN_ACTIVE"
        BY <2>1 DEF ReturnControl, TakeoverState
    <2> QED
        BY <2>2 DEF WatchInv, WatchedIfActive
<1> QED
    BY <1>1, <1>2, <1>3 DEF Environment, HumanLeaves

LEMMA StillWatched ==
    ASSUME BInv, WatchInv, Writable, [BrokerNext]_vars
    PROVE  WatchInv'
<1>1. CASE Passes \/ UNCHANGED vars
    <2>1. Quiet /\ UNCHANGED timer /\ AbortsStay({}) /\ {} \in SUBSET Task
        BY <1>1, RowsUnchangedIsQuiet DEF Passes, Tick, vars, storeVars, brokerVars, AbortsStay, Aborts, At
    <2> QED
        BY <2>1, QuietlyWatched
<1>2. ASSUME NEW t \in Task, Arrival(t)
      PROVE  WatchInv'
    BY <1>2, PlainStepsWatched, ClosingArrivalsWatched, StoringStepsWatched, CancellingStepsWatched
       DEF Arrival
<1>3. ASSUME NEW t \in Task, TaskStep(t)
      PROVE  WatchInv'
    <2>1. CASE EnsureStarts(t) \/ ResumeStops(t) \/ ViewerFails(t) \/ ViewerStopped(t)
        BY <2>1, SeveringStepsWatched
    <2>2. CASE SocketExpires(t) \/ AbortLocked(t) \/ SocketExpireRaises(t) \/ AbortRaises(t)
        BY <2>2, StoringStepsWatched
    <2>3. CASE CompleteLocked(t) \/ AbortLists(t)
        BY <2>3, CancellingStepsWatched
    <2>4. CASE Resume(t) \/ \E m \in Email \cup {None}, g \in Grant : HandOver(t, m, g)
        BY <2>4, HandOversWatched
    <2>5. CASE \/ Refused(t) \/ EnsureFails(t) \/ OpenDone(t) \/ ActOnPage(t) \/ ActDone(t)
               \/ GivesUp(t) \/ ResumeLocked(t) \/ VncStarts(t) \/ WebStarts(t) \/ ViewerReturns(t)
               \/ Register(t) \/ ConnectFails(t) \/ RelayMustEnd(t) \/ SocketClosed(t) \/ EvictLocked(t)
               \/ CompleteRaises(t)
        BY <2>5, PlainStepsWatched
    <2> QED
        BY <1>3, <2>1, <2>2, <2>3, <2>4, <2>5 DEF TaskStep, Proceeds
<1> QED
    BY <1>1, <1>2, <1>3, AtOnceWatched, TimerStepsWatched, EnvironmentWatched DEF BrokerNext

LEMMA WatchStarts == BrokerInit => WatchInv
BY DEF BrokerInit, Init, NoSession, WatchInv, WatchedIfActive

LEMMA DeadlinesWatched == WatchInv <=> DeadlineIsWatched
BY DEF WatchInv, WatchedIfActive, Watched, Aborts, DeadlineIsWatched

-----------------------------------------------------------------------------
(* What the broker promises, whatever the constants. *)

\* The state of the broker is what its handlers take it for: every queue holds
\* requests and the expiry task of its session, every cookie is that of a grant.
THEOREM BrokerTypes == BrokerSafety => []BrokerTypeOK
<1>1. BInv => BrokerTypeOK
    BY DEF BInv, IInv, ProcessesOK, TimersOK, TasksOK, LockOK, Issued, BrokerTypeOK
<1> QED
    BY <1>1, BrokerInv, PTL

\* The session lock excludes: of the requests of a session, one at most is past
\* its acquire and not yet done with it, at whatever await it is suspended.
THEOREM LockExcludes ==
    BrokerSafety => [](\A t, x \in Task : task[t].await \in Holding /\ task[x].await \in Holding
                                          /\ task[t].user = task[x].user => t = x)
<1>1. BInv => \A t, x \in Task : task[t].await \in Holding /\ task[x].await \in Holding
                                 /\ task[t].user = task[x].user => t = x
    BY DEF BInv, LockOK, First
<1> QED
    BY <1>1, BrokerInv, PTL

\* The agent holds the lease it presented for as long as it waits for the page:
\* no path that ends its turn, under the lock or beside it, overtakes the await.
THEOREM AgentKeepsLease == BrokerSafety => []AgentHoldsLease
<1>1. BInv => AgentHoldsLease
    <2> SUFFICES ASSUME BInv, NEW t \in Task, At(t, "act", "page")
                 PROVE  HoldsLease(task[t].user, task[t].epoch)
        BY DEF AgentHoldsLease
    <2>1. task[t].user \in User
        BY DEF At, BInv, TasksOK, TaskOK
    <2> QED
        BY <2>1 DEF At, BInv, ControlOK, Fits, AgentOp, Holding, HoldsLease
<1> QED
    BY <1>1, BrokerInv, PTL

\* While the agent drives, or an offer of control is pending, the runtime has no
\* process of a viewer: what can still listen is a stray, which it lost track of
\* when it launched a part again beside one that ran.
THEOREM ViewerOnlyForHuman == BrokerSafety => []ViewerNeverWithAgent
<1>1. BInv => ViewerNeverWithAgent
    BY DEF BInv, ControlOK
<1> QED
    BY <1>1, BrokerInv, PTL

\* A relay that can still pass input serves the takeover it was opened for, or
\* leads to a stray: whichever request it belongs to, registered or told to close,
\* and whatever parts of the viewer died and were launched again.
THEOREM RelaysServeTheirTakeover == BrokerSafety => []RelayServesItsTakeover
<1>1. BInv => RelayServesItsTakeover
    <2> SUFFICES ASSUME BInv, NEW t \in Task, task[t].live
                 PROVE  \/ AnyStray(viewer[task[t].user])
                        \/ /\ WhollyHeld(viewer[task[t].user])
                           /\ Serves(task[t].epoch, session[task[t].user])
        BY DEF RelayServesItsTakeover, Serves, AnyStray, WhollyHeld, Strays, AllHeld
    <2>1. TaskOK(task[t])
        BY DEF BInv, TasksOK
    <2>2. task[t].await # "idle"
        BY <2>1 DEF TaskOK
    <2>3. task[t].user \in User
        BY <2>1, <2>2 DEF TaskOK, AwaitsOf
    <2> QED
        BY <2>3 DEF BInv, ControlOK, Fits
<1> QED
    BY <1>1, BrokerInv, PTL

\* The registry of relays and the relays that run agree, but for those that were
\* told to close: each of these is out of the registry before its successor is in,
\* and removes nobody else's entry when it ends at last.
THEOREM OneRelayPerSession == BrokerSafety => []OneRelay
<1>1. BInv => OneRelay
    BY DEF BInv
<1> QED
    BY <1>1, BrokerInv, PTL

\* As long as the store and the audit log can be written, every active takeover
\* is watched by an expiry task of its own grant or by an operator's abort.
THEOREM DeadlinesAreWatched == Writable => (BrokerSafety => []DeadlineIsWatched)
<1> SUFFICES ASSUME Writable PROVE BrokerSafety => []DeadlineIsWatched
    OBVIOUS
<1>1. BInv /\ WatchInv /\ [BrokerNext]_vars => WatchInv'
    BY StillWatched
<1>2. BInv /\ WatchInv => DeadlineIsWatched
    BY DeadlinesWatched
<1> QED
    BY <1>1, <1>2, WatchStarts, BrokerInv, PTL DEF BrokerSafety

\* The broker calls the store in orders of its own, two transactions at a time
\* where the code does: what the store promises by itself still holds.
THEOREM StoreHoldsUnderBroker ==
    BrokerSafety => [](GrantMatchesControl /\ GrantEpochs /\ OwnerIsPinned /\ ProfilesApart)
<1>1. BInv => GrantMatchesControl /\ GrantEpochs /\ OwnerIsPinned /\ ProfilesApart
    BY DEF BInv, IInv, GrantInv, ProfileInv
<1> QED
    BY <1>1, BrokerInv, PTL

-----------------------------------------------------------------------------
(* What the broker asks of the store in one step. *)

\* One transaction, as the store offers them, or the two of a redemption.
StoreStep ==
    \/ Next
    \/ UNCHANGED storeVars
    \/ \E u \in User, e \in Nat, m \in Email \cup {None}, g \in Grant : IssueTakeover(u, e, m, g)
    \/ \E g \in Grant, d \in Nat : SweepThenRedeem(g, d)

LEMMA TaskStoreStep ==
    ASSUME BInv, NEW t \in Task, TaskStep(t)
    PROVE  StoreStep
<1>1. CASE \/ Refused(t) \/ EnsureStarts(t) \/ EnsureFails(t) \/ OpenDone(t) \/ ActOnPage(t) \/ ActDone(t)
           \/ GivesUp(t) \/ ResumeLocked(t) \/ ResumeStops(t) \/ VncStarts(t) \/ WebStarts(t) \/ ViewerFails(t)
           \/ ViewerReturns(t) \/ ViewerStopped(t) \/ Register(t) \/ ConnectFails(t) \/ RelayMustEnd(t)
           \/ SocketClosed(t)
           \/ EvictLocked(t) \/ AbortLists(t)
    <2>1. UNCHANGED storeVars
        BY <1>1 DEF Refused, EnsureStarts, EnsureFails, OpenDone, ActOnPage, ActDone, GivesUp, ResumeLocked,
                    ResumeStops, VncStarts, WebStarts, ViewerFails, ViewerReturns, ViewerStopped, Register,
                    ConnectFails, RelayMustEnd, RelayEnds, SocketClosed, EvictLocked, AbortLists
    <2> QED
        BY <2>1, SMTT(30) DEF StoreStep
<1>2. ASSUME NEW m \in Email \cup {None}, NEW g \in Grant, HandOver(t, m, g)
      PROVE  StoreStep
    <2>1. Holds(t) /\ IssueTakeover(task[t].user, task[t].epoch, m, g)
        BY <1>2, UsableHolds DEF HandOver
    <2>2. task[t].user \in User /\ task[t].epoch \in Nat
        BY <2>1, HolderUser DEF BInv, TasksOK, Request
    <2> QED
        BY <2>1, <2>2 DEF StoreStep
<1>3. CASE Resume(t)
    <2>1. ResumeAgent(task[t].user) /\ task[t].user \in User
        BY <1>3, UsableHolds, HolderUser DEF Resume
    <2> QED
        BY <2>1 DEF StoreStep, Next
<1>4. CASE SocketExpires(t) \/ SocketExpireRaises(t) \/ CompleteLocked(t) \/ CompleteRaises(t)
    <2>1. task[t].grant \in Grant
        BY <1>4 DEF SocketExpires, SocketExpireRaises, CompleteLocked, CompleteRaises, At, BInv, TasksOK,
                    TaskOK, ViewerOp, GrantOf, Issued
    <2>2. \/ UNCHANGED storeVars
          \/ ExpireActiveGrant(task[t].grant)
          \/ CompleteTakeover(task[t].grant)
        BY <1>4 DEF SocketExpires, SocketExpireRaises, CompleteLocked, CompleteRaises
    <2> QED
        BY <2>1, <2>2 DEF StoreStep, Next
<1>5. CASE AbortLocked(t) \/ AbortRaises(t)
    <2>1. task[t].user \in User
        BY <1>5, HolderUser DEF AbortLocked, AbortRaises
    <2>2. UNCHANGED storeVars \/ AbortTakeover(task[t].user)
        BY <1>5 DEF AbortLocked, AbortRaises
    <2> QED
        BY <2>1, <2>2 DEF StoreStep, Next
<1> QED
    BY <1>1, <1>2, <1>3, <1>4, <1>5 DEF TaskStep, Proceeds

LEMMA BrokerStoreStep ==
    ASSUME BInv, [BrokerNext]_vars
    PROVE  StoreStep
<1>1. CASE Passes \/ UNCHANGED vars
    BY <1>1 DEF Passes, vars, StoreStep, Next
<1>2. CASE AtOnce
    <2>1. CASE Status \/ LookupLink
        BY <2>1 DEF Status, LookupLink, StoreStep, Next
    <2>2. ASSUME NEW u \in User, OpenRefused(u)
          PROVE  StoreStep
        BY <2>2 DEF OpenRefused, StoreStep, Next
    <2>3. ASSUME NEW u \in User, NEW e \in Email \cup {None}, Provision(u, e) \/ EvictUnaudited(u, e)
          PROVE  StoreStep
        BY <2>3 DEF Provision, EvictUnaudited, StoreStep, Next
    <2>4. ASSUME NEW g \in Grant, PortalTooLate(g)
          PROVE  StoreStep
        BY <2>4 DEF PortalTooLate, StoreStep, Next
    <2>5. ASSUME NEW g \in Grant, NEW d \in Deadline, Redeem(g, d) \/ RedeemUnaudited(g, d)
          PROVE  StoreStep
        <3>1. SweepThenRedeem(g, d) /\ d \in Nat
            BY <2>5 DEF Redeem, RedeemUnaudited, Deadline, BInv, IInv, TypeOK
        <3> QED
            BY <3>1 DEF StoreStep
    <2> QED
        BY <1>2, <2>1, <2>2, <2>3, <2>4, <2>5 DEF AtOnce
<1>3. ASSUME NEW t \in Task, Arrival(t)
      PROVE  StoreStep
    <2>1. ASSUME NEW u \in User,
                 StartAct(t, u) \/ StartHandover(t, u) \/ StartResume(t, u) \/ StartAbort(t, u)
          PROVE  UNCHANGED storeVars
        BY <2>1 DEF StartAct, StartHandover, StartResume, StartAbort
    <2>2. ASSUME NEW u \in User, StartOpen(t, u)
          PROVE  StoreStep
        BY <2>2 DEF StartOpen, StoreStep, Next
    <2>3. ASSUME NEW u \in User, NEW e \in Email, StartEvict(t, u, e)
          PROVE  StoreStep
        BY <2>3 DEF StartEvict, StoreStep, Next
    <2>4. ASSUME NEW g \in Grant, StartComplete(t, g) \/ \E op \in ViewerOp : StartViewing(t, op, g)
          PROVE  UNCHANGED storeVars
        BY <2>4 DEF StartComplete, StartViewing
    <2>5. UNCHANGED storeVars => StoreStep
        BY DEF StoreStep
    <2> QED
        BY <1>3, <2>1, <2>2, <2>3, <2>4, <2>5 DEF Arrival
<1>4. ASSUME NEW u \in User, TimerStep(u)
      PROVE  StoreStep
    <2>1. CASE TimerFires(u) \/ TimerStops(u)
        BY <2>1 DEF TimerFires, TimerStops, StoreStep
    <2>2. CASE TimerExpires(u) \/ TimerRaises(u)
        <3>1. timer[u].grant \in Grant
            BY <2>2, TimerGrant DEF TimerExpires, TimerRaises
        <3>2. UNCHANGED storeVars \/ ExpireActiveGrant(timer[u].grant)
            BY <2>2 DEF TimerExpires, TimerRaises
        <3> QED
            BY <3>1, <3>2 DEF StoreStep, Next
    <2> QED
        BY <1>4, <2>1, <2>2 DEF TimerStep
<1>5. CASE Environment
    <2>1. CASE Restart
        BY <2>1 DEF Restart, StoreStep, Next
    <2>2. CASE \/ \E t \in Task : RelayEnds(t)
               \/ \E u \in User : BrowserDies(u) \/ DisplayDies(u) \/ \E p \in Part : PartDies(u, p)
        BY <2>2 DEF RelayEnds, BrowserDies, DisplayDies, PartDies, StoreStep
    <2> QED
        BY <1>5, <2>1, <2>2 DEF Environment, HumanLeaves
<1> QED
    BY <1>1, <1>2, <1>3, <1>4, <1>5, TaskStoreStep DEF BrokerNext

LEMMA StoreStepFences ==
    ASSUME IInv, StoreStep
    PROVE  (\A u \in User : HandsChange(u)) /\ \A g \in Grant : GrantMoves(g)
<1> USE DEF IInv
<1>1. CASE Next
    BY <1>1, HandsChangeStep, GrantMovesStep
<1>2. CASE UNCHANGED storeVars
    <2>1. \A u \in User : HandsChange(u)
        BY <1>2 DEF storeVars, HandsChange, TypeOK, Session
    <2> QED
        BY <1>2, <2>1 DEF storeVars, GrantMoves, Closed
<1>3. ASSUME NEW u \in User, NEW e \in Nat, NEW m \in Email \cup {None}, NEW g \in Grant,
             IssueTakeover(u, e, m, g)
      PROVE  (\A w \in User : HandsChange(w)) /\ \A h \in Grant : GrantMoves(h)
    <2>1. \A w \in User : HandsChange(w)
        BY <1>3 DEF IssueTakeover, HoldsLease, TypeOK, Session, HandsChange
    <2>2. \A h \in Grant : /\ h # g /\ grant[h].status \notin Open => grant'[h] = grant[h]
                           /\ h # g /\ grant[h].status \in Open =>
                                grant'[h] = grant[h] \/ grant'[h].status = "REVOKED"
                           /\ grant[g].status = "UNISSUED"
                           /\ grant'[g].status = "ISSUED"
        BY <1>3 DEF IssueTakeover, Mark, OpenGrants, TypeOK, GrantRow
    <2> QED
        BY <2>1, <2>2 DEF GrantMoves, Open, Closed
<1>4. ASSUME NEW g \in Grant, NEW d \in Nat, SweepThenRedeem(g, d)
      PROVE  (\A w \in User : HandsChange(w)) /\ \A h \in Grant : GrantMoves(h)
    <2>1. /\ WaitingOn(g) /\ g \notin StaleLinks
          /\ grant' = [Mark(StaleLinks, "EXPIRED") EXCEPT ![g].status = "REDEEMED", ![g].activeExpires = d]
        BY <1>4 DEF SweepThenRedeem
    <2>2. \A w \in User : Stays(w) \/ Withdrawn(w) \/ Accepted(w, g)
        BY <1>4, SweepThenRedeemStep
    <2>3. \A w \in User : session[w].epoch \in Nat
        BY DEF TypeOK, Session
    <2>4. \A w \in User : HandsChange(w)
        BY <2>2, <2>3, SMTT(30) DEF Stays, Withdrawn, Accepted, HandsChange
    <2>5. grant[g].status = "ISSUED" /\ now <= grant[g].expires
        BY <2>1 DEF WaitingOn, StaleLinks, TypeOK, GrantRow
    <2>6. \A h \in StaleLinks : grant[h].status = "ISSUED"
        BY DEF StaleLinks, WaitingOn
    <2>7. \A h \in Grant : h # g => \/ grant'[h] = grant[h]
                                    \/ grant[h].status = "ISSUED" /\ grant'[h].status = "EXPIRED"
        BY <2>1, <2>6 DEF Mark, TypeOK, GrantRow
    <2> QED
        BY <2>4, <2>5, <2>7 DEF GrantMoves, Closed
<1> QED
    BY <1>1, <1>2, <1>3, <1>4 DEF StoreStep

\* Under the broker, too, an epoch that was left never comes back and a grant is
\* spent once: the handlers, whose calls interleave at every await, bring the
\* store no step that a stale lease or a spent grant could survive.
THEOREM BrokerFences == BrokerSafety => Fenced /\ SingleUse
<1>1. BInv /\ [BrokerNext]_vars => /\ [\A u \in User : HandsChange(u)]_storeVars
                                   /\ [\A g \in Grant : GrantMoves(g)]_storeVars
    BY BrokerStoreStep, StoreStepFences DEF BInv
<1> QED
    BY <1>1, BrokerInv, PTL DEF BrokerSafety, Fenced, SingleUse

-----------------------------------------------------------------------------
(* The lease under the broker. *)

\* Redeeming accepts the human's offer after withdrawing the offers that expired.
LEMMA SweepThenRedeemRefines ==
    ASSUME IInv, NEW g \in Grant, NEW d \in Nat, SweepThenRedeem(g, d)
    PROVE  [Lease!Next]_(Lease!vars)
<1> DEFINE G == StaleLinks
           W == Owners(StaleLinks)
           o == grant[g].user
<1>1. /\ WaitingOn(g)
      /\ g \notin G
      /\ session' = [ReturnControl(W) EXCEPT ![o].state = "HUMAN_ACTIVE"]
      /\ grant' = [Mark(G, "EXPIRED") EXCEPT ![g].status = "REDEEMED", ![g].activeExpires = d]
    BY DEF SweepThenRedeem
<1>2. /\ G \in SUBSET Grant
      /\ W \in SUBSET User
      /\ \A w \in W : session[w].state \in TakeoverState
      /\ \A h \in Grant : h \in G <=> grant[h].status \in Open /\ grant[h].user \in W
    BY SweepSelects
<1> HIDE DEF W, G
<1>3. /\ o \in User \ W
      /\ grant[g].status = "ISSUED"
      /\ session[o].state = "WAITING_FOR_HUMAN"
    BY <1>1, <1>2 DEF IInv, GrantInv, GrantsNamed, WaitingOn, Open
<1>4. \A h \in Grant :
        /\ grant'[h].user = grant[h].user
        /\ grant'[h].status = IF h = g THEN "REDEEMED"
                              ELSE IF h \in G THEN "EXPIRED" ELSE grant[h].status
    <2> DEFINE M == Mark(G, "EXPIRED")
    <2>1. /\ M \in [Grant -> GrantRow]
          /\ \A h \in Grant : /\ M[h].user = grant[h].user
                              /\ M[h].status = IF h \in G THEN "EXPIRED" ELSE grant[h].status
        BY <1>2 DEF Mark, IInv, TypeOK, GrantRow, GrantStatus, Open, Closed
    <2> HIDE DEF M
    <2>2. grant' = [M EXCEPT ![g].status = "REDEEMED", ![g].activeExpires = d]
        BY <1>1 DEF M
    <2>3. \A h \in Grant : grant'[h] = IF h = g
                                       THEN [M[g] EXCEPT !.status = "REDEEMED", !.activeExpires = d]
                                       ELSE M[h]
        BY <2>1, <2>2
    <2>4. M[g] \in GrantRow
        BY <2>1
    <2>5. grant'[g].status = "REDEEMED" /\ grant'[g].user = M[g].user
        BY <2>3, <2>4 DEF GrantRow
    <2> QED
        BY <2>1, <2>3, <2>5
<1>5. /\ session'[o].state = "HUMAN_ACTIVE"
      /\ session'[o].epoch = session[o].epoch
      /\ \A u \in User : /\ u \in W => /\ session'[u].state = "READY_TO_RESUME"
                                       /\ session'[u].epoch = session[u].epoch + 1
                         /\ u \notin W /\ u # o => session'[u] = session[u]
    <2>1. /\ ReturnControl(W) \in [User -> Session]
          /\ ReturnControl(W)[o] = session[o]
        BY <1>2, <1>3 DEF ReturnControl, IInv, TypeOK, Session, SessionState
    <2>2. /\ session'[o] = [session[o] EXCEPT !.state = "HUMAN_ACTIVE"]
          /\ \A u \in User : u # o => session'[u] = ReturnControl(W)[u]
        BY <1>1, <1>3, <2>1 DEF Session, SessionState, TakeoverState
    <2>3. session[o] \in Session
        BY <1>3 DEF IInv, TypeOK
    <2>4. \A u \in User :
            ReturnControl(W)[u] =
                IF u \in W THEN [state |-> "READY_TO_RESUME", epoch |-> session[u].epoch + 1]
                ELSE session[u]
        BY DEF ReturnControl
    <2>5. session'[o].state = "HUMAN_ACTIVE" /\ session'[o].epoch = session[o].epoch
        BY <2>2, <2>3 DEF Session
    <2> HIDE DEF o
    <2>6. ASSUME NEW u \in W
          PROVE  session'[u].state = "READY_TO_RESUME" /\ session'[u].epoch = session[u].epoch + 1
        <3>1. u \in User /\ u # o
            BY <1>2, <1>3
        <3>2. session'[u] = [state |-> "READY_TO_RESUME", epoch |-> session[u].epoch + 1]
            BY <2>2, <2>4, <2>6, <3>1
        <3> QED
            BY <3>2
    <2> QED
        BY <2>2, <2>4, <2>5, <2>6
<1> HIDE DEF o
<1>6. leaseKey' = [u \in User |-> IF u \in W THEN None ELSE leaseKey[u]]
    <2>1. ASSUME NEW u \in W
          PROVE  KeyOf(u)' = None
        <3>1. ~ \E h \in Grant : grant'[h].status \in Open /\ grant'[h].user = u
            BY <1>2, <1>3, <1>4 DEF Open, o
        <3> QED
            BY <3>1 DEF KeyOf, OpenGrants
    <2>2. ASSUME NEW u \in User \ W
          PROVE  KeyOf(u)' = KeyOf(u)
        <3>1. \A h \in Grant : grant'[h].status \in Open /\ grant'[h].user = u
                               <=> grant[h].status \in Open /\ grant[h].user = u
            BY <1>2, <1>3, <1>4 DEF Open
        <3>2. OpenGrants(u)' = OpenGrants(u)
            BY <3>1 DEF OpenGrants
        <3> QED
            BY <3>2 DEF KeyOf
    <2> QED
        BY <2>1, <2>2 DEF leaseKey
<1>7. leaseSpent' = leaseSpent \cup {leaseKey[w] : w \in W}
    <2>1. G = {leaseKey[w] : w \in W}
        BY <1>2, GrantsAreKeys
    <2>2. \A h \in Grant : grant'[h].status \in Closed <=> grant[h].status \in Closed \/ h \in G
        BY <1>1, <1>3, <1>4 DEF Closed
    <2>3. leaseSpent' = leaseSpent \cup G
        BY <1>2, <2>2 DEF leaseSpent
    <2> QED
        BY <2>1, <2>3
<1>8. leaseKey[o] # None
    <2>1. g \in OpenGrants(o)
        BY <1>3 DEF OpenGrants, Open, o
    <2>2. KeyOf(o) = g
        BY <1>3, <2>1, KeyIsTheOpenGrant
    <2> QED
        BY <1>3, <2>2, StoreAssumption DEF leaseKey
<1>9. leaseOwner' = [x \in User |-> IF x = o THEN "human"
                                    ELSE IF x \in W THEN "returned" ELSE leaseOwner[x]]
    <2>1. \A x \in User : OwnerOf(session'[x].state) =
                            IF x = o THEN "human"
                            ELSE IF x \in W THEN "returned" ELSE OwnerOf(session[x].state)
        BY <1>3, <1>5, OwnersOfStates
    <2> QED
        BY <2>1 DEF leaseOwner
<1>10. leaseFence' = [x \in User |-> IF x \in W THEN leaseFence[x] + 1 ELSE leaseFence[x]]
    <2>1. \A x \in User : session'[x].epoch =
                            IF x \in W THEN session[x].epoch + 1 ELSE session[x].epoch
        BY <1>3, <1>5
    <2> QED
        BY <2>1 DEF leaseFence
<1>11. leaseOwner[o] = "offered" /\ \A w \in W : leaseOwner[w] \in Lease!HumanSide
    BY <1>2, <1>3, OwnersOfStates DEF leaseOwner
<1>12. Lease!Claim(o, W)
    BY <1>3, <1>6, <1>7, <1>8, <1>9, <1>10, <1>11 DEF Lease!Claim
<1> QED
    BY <1>2, <1>3, <1>12 DEF Lease!Next

LEMMA StoreStepRefines ==
    ASSUME IInv, StoreStep
    PROVE  [Lease!Next]_(Lease!vars)
<1>1. CASE Next \/ UNCHANGED storeVars
    BY <1>1, NextRefines
<1>2. CASE \E u \in User, e \in Nat, m \in Email \cup {None}, g \in Grant : IssueTakeover(u, e, m, g)
    BY <1>2, IssueRefines
<1>3. CASE \E g \in Grant, d \in Nat : SweepThenRedeem(g, d)
    BY <1>3, SweepThenRedeemRefines
<1> QED
    BY <1>1, <1>2, <1>3 DEF StoreStep

\* The broker as a whole implements the abstract lease: whatever the handlers, the
\* expiry tasks, the restarts and the failing writes do between two awaits, every
\* change of hands is one that the lease allows, and spends the capability it must.
THEOREM BrokerImplementsLease == BrokerSafety => LeaseSpec
<1>1. BrokerInit => Init
    BY DEF BrokerInit
<1>2. BInv /\ [BrokerNext]_vars => [Lease!Next]_(Lease!vars)
    BY BrokerStoreStep, StoreStepRefines DEF BInv
<1> QED
    BY <1>1, <1>2, InitRefines, BrokerInv, PTL DEF BrokerSafety, LeaseSpec, Lease!Spec

=============================================================================
