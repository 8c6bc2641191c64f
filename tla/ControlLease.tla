---------------------------- MODULE ControlLease ----------------------------
(***************************************************************************)
(* What the Browser HITL broker promises about who drives a user's         *)
(* browser.  At any time a user's browser is driven by the agent, offered  *)
(* to the human, driven by the human, or returned and driven by nobody.    *)
(* Every change of hands except the human's acceptance of an offer         *)
(* advances a fencing number.  An offer is a capability (a grant): each    *)
(* user has at most one outstanding, and one that is spent is gone for     *)
(* good.  Nothing leads from the human's side straight back to the agent.  *)
(***************************************************************************)
EXTENDS Integers

CONSTANTS User, Grant, None

VARIABLES
    owner,      \* owner[u]: who drives u's browser
    fence,      \* fence[u]: the fencing number of that ownership
    key,        \* key[u]: the outstanding capability, or None
    spent       \* capabilities that can never be exercised again

vars == <<owner, fence, key, spent>>

HumanSide == {"offered", "human"}
Owner == {"absent", "agent", "returned"} \cup HumanSide

TypeOK ==
    /\ owner \in [User -> Owner]
    /\ fence \in [User -> Nat]
    /\ key \in [User -> Grant \cup {None}]
    /\ spent \subseteq Grant

Init ==
    /\ owner = [u \in User |-> "absent"]
    /\ fence = [u \in User |-> 0]
    /\ key = [u \in User |-> None]
    /\ spent = {}

\* Users whose offer or takeover is withdrawn, in one step: nobody drives.
Withdrawn(W) ==
    /\ owner' = [u \in User |-> IF u \in W THEN "returned" ELSE owner[u]]
    /\ fence' = [u \in User |-> IF u \in W THEN fence[u] + 1 ELSE fence[u]]
    /\ key' = [u \in User |-> IF u \in W THEN None ELSE key[u]]
    /\ spent' = spent \cup {key[u] : u \in W}

\* Completion, expiry, abort, revocation and restart all withdraw.
Withdraw(W) ==
    /\ W # {}
    /\ \A u \in W : owner[u] \in HumanSide
    /\ Withdrawn(W)

\* A new browser belongs to the agent.  Opening first withdraws every offer
\* whose link has expired, of whichever user (W may be empty).
Open(u, W) ==
    /\ owner[u] = "absent"
    /\ \A w \in W : owner[w] \in HumanSide
    /\ owner' = [x \in User |-> IF x = u THEN "agent"
                                ELSE IF x \in W THEN "returned" ELSE owner[x]]
    /\ fence' = [x \in User |-> IF x = u THEN 1
                                ELSE IF x \in W THEN fence[x] + 1 ELSE fence[x]]
    /\ key' = [x \in User |-> IF x \in W THEN None ELSE key[x]]
    /\ spent' = spent \cup {key[w] : w \in W}

\* The agent hands over: only a capability never used before, and only one.
Offer(u, g) ==
    /\ owner[u] = "agent"
    /\ g \notin spent
    /\ \A w \in User : key[w] # g
    /\ owner' = [owner EXCEPT ![u] = "offered"]
    /\ fence' = [fence EXCEPT ![u] = @ + 1]
    /\ key' = [key EXCEPT ![u] = g]
    /\ UNCHANGED spent

\* The human accepts with the outstanding capability; the fence stays.  Here, too,
\* offers of others whose links have expired may be withdrawn first.
Claim(u, W) ==
    /\ owner[u] = "offered"
    /\ key[u] # None
    /\ u \notin W
    /\ \A w \in W : owner[w] \in HumanSide
    /\ owner' = [x \in User |-> IF x = u THEN "human"
                                ELSE IF x \in W THEN "returned" ELSE owner[x]]
    /\ fence' = [x \in User |-> IF x \in W THEN fence[x] + 1 ELSE fence[x]]
    /\ key' = [x \in User |-> IF x \in W THEN None ELSE key[x]]
    /\ spent' = spent \cup {key[w] : w \in W}

\* The agent takes back a returned browser, explicitly.
Regain(u) ==
    /\ owner[u] = "returned"
    /\ owner' = [owner EXCEPT ![u] = "agent"]
    /\ fence' = [fence EXCEPT ![u] = @ + 1]
    /\ UNCHANGED <<key, spent>>

Next ==
    \/ \E W \in SUBSET User : Withdraw(W)
    \/ \E u \in User, W \in SUBSET User : Open(u, W) \/ Claim(u, W)
    \/ \E u \in User, g \in Grant : Offer(u, g)
    \/ \E u \in User : Regain(u)

Spec == Init /\ [][Next]_vars

=============================================================================
