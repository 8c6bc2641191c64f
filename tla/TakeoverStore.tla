---------------------------- MODULE TakeoverStore ----------------------------
(***************************************************************************)
(* The durable half of the Browser HITL broker: the SQLite store of        *)
(* profiles, browser sessions and takeover grants (browser_hitl/store.py). *)
(* Every method of class Store that writes is one action; its statements   *)
(* run inside BEGIN IMMEDIATE ... COMMIT under the store's lock, so a      *)
(* method is one step.  A method that raises rolls back: the conditions    *)
(* under which it raises are its guard.                                    *)
(*                                                                         *)
(* A user has at most one session, for ever: profile_id is UNIQUE in the   *)
(* table of sessions and no code writes a terminal state.  Sessions are    *)
(* therefore indexed by their user; "ABSENT" is the missing row.           *)
(***************************************************************************)
EXTENDS Integers, FiniteSets

CONSTANTS
    User,           \* Open WebUI user ids
    Email,          \* Cloudflare Access identities
    Grant,          \* grant ids (uuid4): each row of the table takes a fresh one
    None,           \* SQL NULL
    SlotCount,      \* runtime slots; range(5) in the code
    LinkTtl,        \* takeover_ttl_seconds: how long a link may be redeemed
    ControlTtl,     \* human_control_ttl_seconds: the longest human control
    MaxTime         \* bound on the clock

ASSUME StoreAssumption ==
    /\ SlotCount \in Nat
    /\ LinkTtl \in Nat
    /\ ControlTtl \in Nat \ {0}
    /\ MaxTime \in Nat
    /\ None \notin User \cup Email \cup Grant \cup (0 .. SlotCount - 1)

VARIABLES
    now,            \* int(time.time())
    profile,        \* profile[u]: the row of u in profiles
    session,        \* session[u]: the row of u's session in sessions
    grant           \* grant[g]: the row of g in grants

storeVars == <<now, profile, session, grant>>

-----------------------------------------------------------------------------
(* Rows *)

TakeoverState == {"WAITING_FOR_HUMAN", "HUMAN_ACTIVE"}
SessionState == {"ABSENT", "AGENT_ACTIVE", "READY_TO_RESUME"} \cup TakeoverState

Open == {"ISSUED", "REDEEMED"}
Closed == {"COMPLETED", "EXPIRED", "REVOKED"}
GrantStatus == {"UNISSUED"} \cup Open \cup Closed

Slot == 0 .. SlotCount - 1

Profile == [slot : Slot \cup {None}, email : Email \cup {None}]
Session == [state : SessionState, epoch : Nat]
GrantRow == [status : GrantStatus, user : User \cup {None},
             owner : Email \cup {None}, epoch : Nat,
             expires : Nat, activeExpires : Nat]

NoProfile == [slot |-> None, email |-> None]
NoSession == [state |-> "ABSENT", epoch |-> 0]
NoGrant == [status |-> "UNISSUED", user |-> None, owner |-> None, epoch |-> 0,
            expires |-> 0, activeExpires |-> 0]

TypeOK ==
    /\ now \in Nat
    /\ profile \in [User -> Profile]
    /\ session \in [User -> Session]
    /\ grant \in [Grant -> GrantRow]

Provisioned(u) == profile[u].slot # None

-----------------------------------------------------------------------------
(* Closing grants: the one way control leaves the human's side.            *)

\* The rows there are.
Issued == {g \in Grant : grant[g].status # "UNISSUED"}

OpenGrants(u) == {g \in Grant : grant[g].status \in Open /\ grant[g].user = u}

\* Mutant of ReturnControl: an expiry writes the terminal state to the session.
ReturnControlTerminal(W) ==
    [u \in User |->
        IF u \in W THEN [state |-> "EXPIRED", epoch |-> session[u].epoch + 1]
        ELSE session[u]]

\* Mutant of ReturnControl: the epoch is left alone.
ReturnControlSameEpoch(W) ==
    [u \in User |-> IF u \in W THEN [session[u] EXCEPT !.state = "READY_TO_RESUME"]
                    ELSE session[u]]

\* The sessions of the users in W go to READY_TO_RESUME with the next epoch.
ReturnControl(W) ==
    [u \in User |->
        IF u \in W THEN [state |-> "READY_TO_RESUME", epoch |-> session[u].epoch + 1]
        ELSE session[u]]

Mark(G, status) ==
    [g \in Grant |-> IF g \in G THEN [grant[g] EXCEPT !.status = status] ELSE grant[g]]

Owners(G) == {grant[g].user : g \in G}

\* What the joins of grants and sessions select.
Governs(g) == session[grant[g].user].epoch = grant[g].epoch

WaitingOn(g) ==
    /\ grant[g].status = "ISSUED"
    /\ session[grant[g].user].state = "WAITING_FOR_HUMAN"
    /\ Governs(g)

ActiveUnder(g) ==
    /\ grant[g].status = "REDEEMED"
    /\ session[grant[g].user].state = "HUMAN_ACTIVE"
    /\ Governs(g)

StaleLinks == {g \in Grant : WaitingOn(g) /\ grant[g].expires <= now}
PastDeadline == {g \in Grant : ActiveUnder(g) /\ grant[g].activeExpires <= now}

\* The row counts both sweeps insist on: one grant per session swept.
OnePerSession(G) == \A g, h \in G : grant[g].user = grant[h].user => g = h

-----------------------------------------------------------------------------
Init ==
    /\ now = 0
    /\ profile = [u \in User |-> NoProfile]
    /\ session = [u \in User |-> NoSession]
    /\ grant = [g \in Grant |-> NoGrant]

Tick ==
    /\ now < MaxTime
    /\ now' = now + 1
    /\ UNCHANGED <<profile, session, grant>>

\* Mutant of ProvisionNew: the unique index on access_email is missing.
ProvisionNewAnyEmail(u, e) ==
    /\ ~Provisioned(u)
    /\ \E s \in Slot :
        /\ \A w \in User : profile[w].slot # s
        /\ profile' = [profile EXCEPT ![u] = [slot |-> s, email |-> e]]
    /\ UNCHANGED <<now, session, grant>>

\* provision_profile for a user without a row: the lowest free slot.
ProvisionNew(u, e) ==
    /\ ~Provisioned(u)
    /\ e # None => \A w \in User : profile[w].email # e
    /\ \E s \in Slot :
        /\ \A w \in User : profile[w].slot # s
        /\ \A r \in Slot : r < s => \E w \in User : profile[w].slot = r
        /\ profile' = [profile EXCEPT ![u] = [slot |-> s, email |-> e]]
    /\ UNCHANGED <<now, session, grant>>

\* Mutant of Repin: a new e-mail returns control but leaves the grant open.
RepinKeepsGrant(u, e) ==
    LET pinned == IF e = None THEN profile[u].email ELSE e
        W == IF pinned # profile[u].email /\ session[u].state \in TakeoverState
             THEN {u} ELSE {}
    IN  /\ Provisioned(u)
        /\ pinned # None => \A w \in User \ {u} : profile[w].email # pinned
        /\ profile' = [profile EXCEPT ![u].email = pinned]
        /\ session' = ReturnControl(W)
        /\ UNCHANGED <<now, grant>>

\* Mutant of Repin: a new e-mail does not touch the takeover.
RepinKeepsTakeover(u, e) ==
    LET pinned == IF e = None THEN profile[u].email ELSE e
    IN  /\ Provisioned(u)
        /\ pinned # None => \A w \in User \ {u} : profile[w].email # pinned
        /\ profile' = [profile EXCEPT ![u].email = pinned]
        /\ UNCHANGED <<now, session, grant>>

\* provision_profile for a user with a row.  Without an e-mail the pinned one
\* stays; another e-mail ends u's takeover, if there is one.
Repin(u, e) ==
    LET pinned == IF e = None THEN profile[u].email ELSE e
        W == IF pinned # profile[u].email /\ session[u].state \in TakeoverState
             THEN {u} ELSE {}
    IN  /\ Provisioned(u)
        /\ pinned # None => \A w \in User \ {u} : profile[w].email # pinned
        /\ profile' = [profile EXCEPT ![u].email = pinned]
        /\ session' = ReturnControl(W)
        /\ grant' = Mark({g \in OpenGrants(u) : u \in W}, "REVOKED")
        /\ UNCHANGED now

\* expire_issued_takeovers, on its own when a link is looked up (grant_by_token).
SweepLinks ==
    /\ OnePerSession(StaleLinks)
    /\ session' = ReturnControl(Owners(StaleLinks))
    /\ grant' = Mark(StaleLinks, "EXPIRED")
    /\ UNCHANGED <<now, profile>>

\* active_session_for_user: both sweeps, then the row is read.
SweepAll ==
    LET G == StaleLinks \cup PastDeadline
    IN  /\ OnePerSession(G)
        /\ session' = ReturnControl(Owners(G))
        /\ grant' = Mark(G, "EXPIRED")
        /\ UNCHANGED <<now, profile>>

\* create_or_resume_session: the sweep of links, then a new session for the
\* agent unless the user has one.  (An existing one keeps its state; the call
\* is refused while a takeover is pending or active.)
CreateOrResume(u) ==
    LET swept == ReturnControl(Owners(StaleLinks))
    IN  /\ Provisioned(u)
        /\ OnePerSession(StaleLinks)
        /\ session' = IF swept[u].state = "ABSENT"
                      THEN [swept EXCEPT ![u] = [state |-> "AGENT_ACTIVE", epoch |-> 1]]
                      ELSE swept
        /\ grant' = Mark(StaleLinks, "EXPIRED")
        /\ UNCHANGED <<now, profile>>

\* The condition of assert_agent: the caller holds the agent's lease.
HoldsLease(u, e) == session[u].state = "AGENT_ACTIVE" /\ session[u].epoch = e

\* issue_takeover: e is the lease the caller holds, m the e-mail Open WebUI
\* sends with the call (None when it sends none).
IssueTakeover(u, e, m, g) ==
    /\ grant[g].status = "UNISSUED"
    /\ profile[u].email # None
    /\ m \in {None, profile[u].email}
    /\ HoldsLease(u, e)
    /\ session' = [session EXCEPT ![u] = [state |-> "WAITING_FOR_HUMAN", epoch |-> e + 1]]
    /\ grant' = [Mark(OpenGrants(u), "REVOKED") EXCEPT
                    ![g] = [status |-> "ISSUED", user |-> u, owner |-> profile[u].email,
                            epoch |-> e + 1, expires |-> now + LinkTtl,
                            activeExpires |-> 0]]
    /\ UNCHANGED <<now, profile>>

\* Mutant of RedeemTakeover: the link's own deadline is not compared.
RedeemTakeoverLate(g, d) ==
    /\ d > now
    /\ WaitingOn(g)
    /\ grant' = [grant EXCEPT ![g].status = "REDEEMED", ![g].activeExpires = d]
    /\ session' = [session EXCEPT ![grant[g].user].state = "HUMAN_ACTIVE"]
    /\ UNCHANGED <<now, profile>>

\* redeem_takeover: d is the deadline of the human's control.
RedeemTakeover(g, d) ==
    /\ d > now
    /\ WaitingOn(g)
    /\ grant[g].expires >= now
    /\ grant' = [grant EXCEPT ![g].status = "REDEEMED", ![g].activeExpires = d]
    /\ session' = [session EXCEPT ![grant[g].user].state = "HUMAN_ACTIVE"]
    /\ UNCHANGED <<now, profile>>

\* Grant g, under which the human is active, ends with the given status.
EndActive(g, status) ==
    /\ ActiveUnder(g)
    /\ session' = ReturnControl({grant[g].user})
    /\ grant' = Mark({g}, status)
    /\ UNCHANGED <<now, profile>>

\* active_grant, when it finds the deadline passed.
ActiveGrantExpired(g) == g \in PastDeadline /\ EndActive(g, "EXPIRED")

\* expire_active_grant, which trusts its caller about the time.
ExpireActiveGrant(g) == EndActive(g, "EXPIRED")

CompleteTakeover(g) == EndActive(g, "COMPLETED")

\* Mutant of ResumeAgent: the agent gets the epoch of the returned session.
ResumeAgentSameEpoch(u) ==
    /\ session[u].state = "READY_TO_RESUME"
    /\ session' = [session EXCEPT ![u].state = "AGENT_ACTIVE"]
    /\ UNCHANGED <<now, profile, grant>>

\* resume_agent: the explicit return to the agent, under a new epoch.
ResumeAgent(u) ==
    /\ session[u].state = "READY_TO_RESUME"
    /\ session' = [session EXCEPT ![u] = [state |-> "AGENT_ACTIVE", epoch |-> @.epoch + 1]]
    /\ UNCHANGED <<now, profile, grant>>

\* The sessions in W leave their takeover, their open grants revoked.
Revoke(W) ==
    /\ session' = ReturnControl(W)
    /\ grant' = Mark({g \in Grant : grant[g].status \in Open /\ grant[g].user \in W}, "REVOKED")
    /\ UNCHANGED <<now, profile>>

\* abort_takeover: nothing happens to a session in no takeover.
AbortTakeover(u) == session[u].state \in TakeoverState /\ Revoke({u})

\* Mutant of RecoverFailClosed: a restart gives pending offers back to the agent.
RecoverToAgent ==
    LET W == {u \in User : session[u].state = "WAITING_FOR_HUMAN"}
    IN  /\ session' = [u \in User |->
                IF u \in W THEN [state |-> "AGENT_ACTIVE", epoch |-> session[u].epoch + 1]
                ELSE session[u]]
        /\ grant' = Mark({g \in Grant : grant[g].status \in Open /\ grant[g].user \in W},
                         "REVOKED")
        /\ UNCHANGED <<now, profile>>

\* recover_fail_closed, at startup.
RecoverFailClosed == Revoke({u \in User : session[u].state \in TakeoverState})

\* The deadlines the broker may ask for: the token of the identity provider
\* may expire before ControlTtl.
Deadline == now + 1 .. now + ControlTtl

Next ==
    \/ Tick
    \/ \E u \in User, e \in Email \cup {None} : ProvisionNew(u, e) \/ Repin(u, e)
    \/ SweepLinks
    \/ SweepAll
    \/ \E u \in User : CreateOrResume(u) \/ ResumeAgent(u) \/ AbortTakeover(u)
    \/ \E u \in User, m \in Email \cup {None}, g \in Grant :
            \E e \in 1 .. session[u].epoch : IssueTakeover(u, e, m, g)
    \/ \E g \in Grant :
        \/ \E d \in Deadline : RedeemTakeover(g, d)
        \/ ActiveGrantExpired(g)
        \/ ExpireActiveGrant(g)
        \/ CompleteTakeover(g)
    \/ RecoverFailClosed

Spec == Init /\ [][Next]_storeVars

-----------------------------------------------------------------------------
(* Properties *)

\* Sessions and grants agree about who is in control.  An open link belongs to
\* a session that waits for exactly that link, a redeemed grant to a session
\* the human drives under exactly that grant, and such sessions have their
\* grant: a session that waits for nothing, or whose human holds no grant,
\* could be left only by a restart (issue, redeem, complete and the sweeps of
\* store.py all keep the two tables in step).
GrantMatchesControl ==
    /\ \A g \in Grant : grant[g].status = "ISSUED" => WaitingOn(g)
    /\ \A g \in Grant : grant[g].status = "REDEEMED" => ActiveUnder(g)
    /\ \A u \in User : session[u].state \in TakeoverState =>
            \E g \in Grant : g \in OpenGrants(u)

\* The epochs separate takeovers.  A grant that is over is behind its session,
\* and two takeovers of a session never carry the same epoch: a portal cookie,
\* which binds a grant and its epoch, is good for one takeover only.
GrantEpochs ==
    /\ \A g \in Grant : grant[g].status \in Closed =>
            grant[g].epoch < session[grant[g].user].epoch
    /\ \A g, h \in Issued :
            g # h /\ grant[g].user = grant[h].user => grant[g].epoch # grant[h].epoch

\* Whoever may redeem a link or drive the browser is who the administrator
\* pins now: re-pinning an e-mail leaves no takeover behind for the old one
\* (provision_profile revokes it in the same transaction).
OwnerIsPinned ==
    \A g \in Grant : grant[g].status \in Open =>
        /\ grant[g].owner # None
        /\ grant[g].owner = profile[grant[g].user].email

\* Two users never share a slot, hence no port and no X display, nor an e-mail.
ProfilesApart ==
    \A u, w \in User : u # w /\ Provisioned(u) =>
        /\ profile[u].slot # profile[w].slot
        /\ profile[u].email = None \/ profile[u].email # profile[w].email

HandsChange(u) ==
    /\ session'[u].epoch >= session[u].epoch
    /\ session'[u].state # session[u].state =>
        \/ session'[u].epoch > session[u].epoch
        \/ session[u].state = "WAITING_FOR_HUMAN" /\ session'[u].state = "HUMAN_ACTIVE"

\* Fencing.  An epoch never goes back, and no change of hands but the human's
\* acceptance keeps it: a lease the agent held before a takeover is stale for
\* ever after it, whatever the order in which calls reach the store.
Fenced == [][\A u \in User : HandsChange(u)]_storeVars

GrantMoves(g) ==
    /\ grant[g].status \in Closed => grant'[g] = grant[g]
    /\ grant[g].status = "REDEEMED" => grant'[g].status \in {"REDEEMED"} \cup Closed
    /\ grant[g].status # "REDEEMED" /\ grant'[g].status = "REDEEMED" =>
            grant[g].status = "ISSUED" /\ now <= grant[g].expires

\* A grant is spent once.  It is redeemed from ISSUED only, no later than its
\* link's deadline, and once closed its row never changes again.
SingleUse == [][\A g \in Grant : GrantMoves(g)]_storeVars

-----------------------------------------------------------------------------
(* The store implements the lease. *)

OwnerOf(state) ==
    CASE state = "ABSENT" -> "absent"
      [] state = "AGENT_ACTIVE" -> "agent"
      [] state = "WAITING_FOR_HUMAN" -> "offered"
      [] state = "HUMAN_ACTIVE" -> "human"
      [] state = "READY_TO_RESUME" -> "returned"

\* The outstanding capability of u: its open grant.
KeyOf(u) ==
    IF \E g \in Grant : g \in OpenGrants(u)
    THEN CHOOSE g \in Grant : g \in OpenGrants(u)
    ELSE None

leaseOwner == [u \in User |-> OwnerOf(session[u].state)]
leaseFence == [u \in User |-> session[u].epoch]
leaseKey == [u \in User |-> KeyOf(u)]
leaseSpent == {g \in Grant : grant[g].status \in Closed}

Lease == INSTANCE ControlLease WITH
    owner <- leaseOwner, fence <- leaseFence, key <- leaseKey, spent <- leaseSpent

\* Every behaviour of the store is one of the lease: one capability at a time
\* per user, never reused, and no way from the human's side straight to the agent.
LeaseSpec == Lease!Spec

=============================================================================
