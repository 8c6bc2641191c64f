--------------------------- MODULE TakeoverBroker ---------------------------
(***************************************************************************)
(* The Browser HITL broker: the HTTP and WebSocket handlers of             *)
(* browser_hitl/api.py over the runtime manager of browser_hitl/runtime.py *)
(* and the store of TakeoverStore.                                         *)
(*                                                                         *)
(* The handlers are coroutines of one event loop: an action is the code a  *)
(* handler runs up to its next await.  A session has one asyncio lock,     *)
(* served first come first served; store methods run in one step, with or  *)
(* without that lock.  A task is one request being served; what a request  *)
(* carries beyond its user, grant and epoch is left out, and so are the    *)
(* time processes take to die and the clients that vanish without a        *)
(* disconnect.  A websockify dies with what it forked for its connections; *)
(* an x11vnc dies with its display.                                        *)
(***************************************************************************)
EXTENDS TakeoverStore, Sequences

CONSTANTS
    Task,           \* requests that may be in progress at a time
    Timer,          \* the expiry task of a session, as a waiter for its lock
    Faults          \* what may fail: writes to the "database" and to the "audit"
                    \* log; "vnc" and "web", the x11vnc and the websockify of a
                    \* session, which may die by themselves

ASSUME BrokerAssumption ==
    /\ Timer \notin Task
    /\ None \notin Task \cup {Timer}
    /\ Faults \subseteq {"database", "audit", "vnc", "web"}

VARIABLES
    queue,          \* queue[u]: who holds (its head) and awaits u's session lock
    browser,        \* browser[u]: Xvfb, Chromium and the egress proxy of u
    viewer,         \* viewer[u][p]: what listens on the port of u's x11vnc or websockify
    timer,          \* timer[u]: the task in _expiry_tasks
    task,           \* task[t]: the request t serves
    ws,             \* ws[u]: the relay in active_viewer_websockets
    cookie          \* grants whose portal cookie reached the human's browser

brokerVars == <<queue, browser, viewer, timer, task, ws, cookie>>
vars == <<storeVars, brokerVars>>

-----------------------------------------------------------------------------
(* Requests, timers and the lock *)

ViewerOp == {"portal", "socket"}
AgentOp == {"act", "handover"}
Op == {"idle", "open", "resume", "complete", "evict", "abort"} \cup AgentOp \cup ViewerOp

\* Where a request is suspended: waiting for the lock, for the browser to
\* start, for the page, for the port of x11vnc or of websockify, for the viewer
\* to stop, for a WebSocket to connect or to close, or relaying; a relay that
\* was told to close is "hung".
Await == {"idle", "lock", "ensure", "page", "vnc", "web", "stop", "stopped", "expire",
          "connect", "relay", "hung", "close"}

Request == [op : Op, await : Await, user : User \cup {None}, grant : Grant \cup {None},
            epoch : Nat, live : BOOLEAN]
Idle == [op |-> "idle", await |-> "idle", user |-> None, grant |-> None,
         epoch |-> 0, live |-> FALSE]

\* A part of the viewer is down, "held" by the field of the runtime that names
\* it, or a "stray": it listens, and no field names it any more.
Part == {"vnc", "web"}
Viewer == [Part -> {"down", "held", "stray"}]
NoViewer == [p \in Part |-> "down"]

ExpiryTask == [grant : Grant \cup {None}, await : {"none", "sleep", "lock", "stop", "retry"},
               tries : 0 .. 3]
NoTimer == [grant |-> None, await |-> "none", tries |-> 0]

BrokerTypeOK ==
    /\ TypeOK
    /\ queue \in [User -> Seq(Task \cup {Timer})]
    /\ browser \in [User -> {"none", "alive", "dead"}]
    /\ viewer \in [User -> Viewer]
    /\ timer \in [User -> ExpiryTask]
    /\ task \in [Task -> Request]
    /\ ws \in [User -> Task \cup {None}]
    /\ cookie \subseteq Grant

Free(t) == task[t] = Idle
At(t, op, await) == task[t].op = op /\ task[t].await = await

Begin(op, u, g, e, await) ==
    [op |-> op, await |-> await, user |-> u, grant |-> g, epoch |-> e, live |-> FALSE]

Heads(u, x) == queue[u] # <<>> /\ Head(queue[u]) = x
Holds(t) == task[t].user # None /\ Heads(task[t].user, t)

\* A waiter that is cancelled leaves the queue, in which it has one place.
Without(s, x) ==
    IF \E i \in 1 .. Len(s) : s[i] = x
    THEN LET i == CHOOSE j \in 1 .. Len(s) : s[j] = x
         IN  [j \in 1 .. Len(s) - 1 |-> IF j < i THEN s[j] ELSE s[j + 1]]
    ELSE s

Join(u, x) == queue' = [queue EXCEPT ![u] = Append(@, x)]
Leave(u) == queue' = [queue EXCEPT ![u] = Tail(@)]

Finish(t) == task' = [task EXCEPT ![t] = Idle]
Goto(t, await) == task' = [task EXCEPT ![t].await = await]

\* Mutant of CancelledTimer: the entry is overwritten instead of popped.
CancelledTimerNull(u) == [timer EXCEPT ![u] = None]

\* cancel_takeover_expiry: the task is gone, wherever it was suspended.
CancelledTimer(u) == [timer EXCEPT ![u] = NoTimer]
WithoutTimer(u) == [queue EXCEPT ![u] = Without(@, Timer)]

Held(u) == \E p \in Part : viewer[u][p] = "held"
Strays(u) == \E p \in Part : viewer[u][p] = "stray"
AllHeld(u) == \A p \in Part : viewer[u][p] = "held"
Carries(v) == \A p \in Part : v[p] # "down"

\* A process is started and its field overwritten.  It finds the port taken, and
\* ends, if the last one still listens there.
Launched(u, p) ==
    [viewer EXCEPT ![u][p] = IF @ = "down" THEN "held" ELSE "stray"]

\* _terminate_processes reaches what the fields name.
Terminated(v) == [p \in Part |-> IF v[p] = "held" THEN "down" ELSE v[p]]

\* The upstream connection of u's relays leads through both parts.
Severed(u) ==
    [t \in Task |-> IF task[t].user = u THEN [task[t] EXCEPT !.live = FALSE] ELSE task[t]]
Through(u, v) == IF Carries(v) THEN task ELSE Severed(u)

\* close_active_viewer_websocket: the registered relay of u loses its entry and is
\* told to close.  It can pass input until its own loop sees the end.
Hung(u) ==
    [t \in Task |-> IF t = ws[u] THEN [task[t] EXCEPT !.await = "hung"] ELSE task[t]]
CloseSocket(u) == ws' = [ws EXCEPT ![u] = None]

-----------------------------------------------------------------------------
BrokerInit ==
    /\ Init
    /\ queue = [u \in User |-> <<>>]
    /\ browser = [u \in User |-> "none"]
    /\ viewer = [u \in User |-> NoViewer]
    /\ timer = [u \in User |-> NoTimer]
    /\ task = [t \in Task |-> Idle]
    /\ ws = [u \in User |-> None]
    /\ cookie = {}

Passes == Tick /\ UNCHANGED brokerVars

-----------------------------------------------------------------------------
(* Requests served in one step *)

\* GET /tool/session/status
Status == SweepAll /\ UNCHANGED brokerVars

\* GET /takeover/{token}
LookupLink == SweepLinks /\ UNCHANGED brokerVars

\* A portal or viewer request whose grant is found to be past its deadline.
PortalTooLate(g) == g \in cookie /\ ActiveGrantExpired(g) /\ UNCHANGED brokerVars

\* POST /admin/profiles, when it ends no takeover.
Provision(u, e) ==
    /\ ProvisionNew(u, e) \/ (Repin(u, e) /\ session' = session)
    /\ UNCHANGED brokerVars

\* The two transactions of POST /takeover/{token}/redeem: the sweep of links
\* in grant_by_token, then redeem_takeover.
SweepThenRedeem(g, d) ==
    LET swept == ReturnControl(Owners(StaleLinks))
        marked == Mark(StaleLinks, "EXPIRED")
    IN  /\ WaitingOn(g)
        /\ g \notin StaleLinks
        /\ OnePerSession(StaleLinks)
        /\ session' = [swept EXCEPT ![grant[g].user].state = "HUMAN_ACTIVE"]
        /\ grant' = [marked EXCEPT ![g].status = "REDEEMED", ![g].activeExpires = d]
        /\ UNCHANGED <<now, profile>>

\* Mutant of Redeem: nothing is scheduled for the deadline.
RedeemUnscheduled(g, d) ==
    /\ d <= MaxTime
    /\ SweepThenRedeem(g, d)
    /\ cookie' = cookie \cup {g}
    /\ UNCHANGED <<timer, queue, browser, viewer, task, ws>>

\* POST /takeover/{token}/redeem; d is the deadline, within the clock's bound.
\* schedule_takeover_expiry replaces the session's expiry task.
Redeem(g, d) ==
    LET u == grant[g].user
    IN  /\ d <= MaxTime
        /\ SweepThenRedeem(g, d)
        /\ timer' = [timer EXCEPT ![u] = [grant |-> g, await |-> "sleep", tries |-> 0]]
        /\ queue' = WithoutTimer(u)
        /\ cookie' = cookie \cup {g}
        /\ UNCHANGED <<browser, viewer, task, ws>>

\* The same when the audit line cannot be written after the commit: no expiry
\* is scheduled and no cookie is set.
RedeemUnaudited(g, d) ==
    /\ "audit" \in Faults
    /\ d <= MaxTime
    /\ SweepThenRedeem(g, d)
    /\ UNCHANGED brokerVars

-----------------------------------------------------------------------------
(* Requests that suspend: their first step *)

\* The agent routes: assert_agent, then the lock.
StartAct(t, u) ==
    /\ Free(t)
    /\ HoldsLease(u, session[u].epoch)
    /\ task' = [task EXCEPT ![t] = Begin("act", u, None, session[u].epoch, "lock")]
    /\ Join(u, t)
    /\ UNCHANGED <<storeVars, browser, viewer, timer, ws, cookie>>

\* POST /tool/takeover/request and /tool/session/resume go for the lock first.
StartHandover(t, u) ==
    /\ Free(t)
    /\ session[u].state # "ABSENT"
    /\ task' = [task EXCEPT ![t] = Begin("handover", u, None, session[u].epoch, "lock")]
    /\ Join(u, t)
    /\ UNCHANGED <<storeVars, browser, viewer, timer, ws, cookie>>

StartResume(t, u) ==
    /\ Free(t)
    /\ session[u].state # "ABSENT"
    /\ task' = [task EXCEPT ![t] = Begin("resume", u, None, 0, "lock")]
    /\ Join(u, t)
    /\ UNCHANGED <<storeVars, browser, viewer, timer, ws, cookie>>

\* POST /tool/session/open: the store, then the browser unless it is refused.
StartOpen(t, u) ==
    /\ Free(t)
    /\ CreateOrResume(u)
    /\ session'[u].state \notin TakeoverState
    /\ task' = [task EXCEPT ![t] = Begin("open", u, None, 0, "lock")]
    /\ Join(u, t)
    /\ UNCHANGED <<browser, viewer, timer, ws, cookie>>

OpenRefused(u) ==
    /\ CreateOrResume(u)
    /\ session'[u].state \in TakeoverState
    /\ UNCHANGED brokerVars

\* active_grant_from_cookie succeeds.
Recognised(g) == g \in cookie /\ ActiveUnder(g) /\ g \notin PastDeadline

\* GET /portal, GET /viewer/..., and the WebSocket /viewer/websockify.
StartViewing(t, op, g) ==
    LET u == grant[g].user
    IN  /\ Free(t)
        /\ Recognised(g)
        /\ task' = [task EXCEPT ![t] = Begin(op, u, g, session[u].epoch, "lock")]
        /\ Join(u, t)
        /\ UNCHANGED <<storeVars, browser, viewer, timer, ws, cookie>>

\* POST /portal/complete
StartComplete(t, g) ==
    LET u == grant[g].user
    IN  /\ Free(t)
        /\ Recognised(g)
        /\ task' = [Hung(u) EXCEPT ![t] = Begin("complete", u, g, 0, "close")]
        /\ CloseSocket(u)
        /\ UNCHANGED <<storeVars, queue, browser, viewer, timer, cookie>>

\* POST /admin/profiles, when a new e-mail ends the takeover.
StartEvict(t, u, e) ==
    /\ Free(t)
    /\ Repin(u, e)
    /\ session' # session
    /\ timer' = CancelledTimer(u)
    /\ queue' = WithoutTimer(u)
    /\ task' = [Hung(u) EXCEPT ![t] = Begin("evict", u, None, 0, "close")]
    /\ CloseSocket(u)
    /\ UNCHANGED <<browser, viewer, cookie>>

\* The same when its audit line cannot be written: the rest is skipped.
EvictUnaudited(u, e) ==
    /\ "audit" \in Faults
    /\ Repin(u, e)
    /\ session' # session
    /\ UNCHANGED brokerVars

\* POST /admin/recovery/abort-pending, the part about u.
StartAbort(t, u) ==
    /\ Free(t)
    /\ session[u].state # "ABSENT"
    /\ IF session[u].state \in TakeoverState
       THEN /\ task' = [Hung(u) EXCEPT ![t] = Begin("abort", u, None, 0, "close")]
            /\ CloseSocket(u)
       ELSE /\ task' = [task EXCEPT ![t] = Begin("abort", u, None, 0, "close")]
            /\ UNCHANGED ws
    /\ UNCHANGED <<storeVars, queue, browser, viewer, timer, cookie>>

-----------------------------------------------------------------------------
(* Under the session lock: the browser *)

\* Mutant of Permitted: the agent's lease is not checked again under the lock.
PermittedOnce(t) ==
    LET u == task[t].user
    IN  CASE task[t].op = "handover" -> HoldsLease(u, task[t].epoch)
          [] task[t].op \in ViewerOp ->
                session[u].state = "HUMAN_ACTIVE" /\ session[u].epoch = task[t].epoch
          [] task[t].op = "resume" -> session[u].state = "READY_TO_RESUME"
          [] OTHER -> TRUE

\* Mutant of Permitted: viewer() does not check the human's ownership again.
PermittedViewer(t) ==
    LET u == task[t].user
    IN  CASE task[t].op \in AgentOp -> HoldsLease(u, task[t].epoch)
          [] task[t].op = "resume" -> session[u].state = "READY_TO_RESUME"
          [] OTHER -> TRUE

\* assert_agent, assert_human and assert_ready_to_resume, once the lock is held.
Permitted(t) ==
    LET u == task[t].user
    IN  CASE task[t].op \in AgentOp -> HoldsLease(u, task[t].epoch)
          [] task[t].op \in ViewerOp ->
                session[u].state = "HUMAN_ACTIVE" /\ session[u].epoch = task[t].epoch
          [] task[t].op = "resume" -> session[u].state = "READY_TO_RESUME"
          [] OTHER -> TRUE

Refused(t) ==
    /\ Holds(t)
    /\ task[t].await = "lock"
    /\ ~Permitted(t)
    /\ Finish(t)
    /\ Leave(task[t].user)
    /\ UNCHANGED <<storeVars, browser, viewer, timer, ws, cookie>>

\* The request reaches _ensure_unlocked.
Ensures(t) ==
    /\ Holds(t)
    /\ \/ task[t].await = "stopped"
       \/ task[t].await = "lock" /\ task[t].op \in AgentOp \cup ViewerOp \cup {"open"} /\ Permitted(t)

\* It finds no usable browser: what is left of the last one, its viewer
\* included, is stopped, and a new one is started.  With the display goes any
\* x11vnc; a websockify that no field names stays.
EnsureStarts(t) ==
    LET u == task[t].user
    IN  /\ Ensures(t)
        /\ browser[u] # "alive"
        /\ viewer' = [viewer EXCEPT ![u] = [Terminated(@) EXCEPT !["vnc"] = "down"]]
        /\ task' = [Severed(u) EXCEPT ![t].await = "ensure"]
        /\ UNCHANGED <<storeVars, queue, browser, timer, ws, cookie>>

EnsureFails(t) ==
    /\ Holds(t)
    /\ task[t].await = "ensure"
    /\ Finish(t)
    /\ Leave(task[t].user)
    /\ UNCHANGED <<storeVars, browser, viewer, timer, ws, cookie>>

\* The browser is up: it was, and nothing was awaited, or its start succeeds.
Usable(t) ==
    LET u == task[t].user
    IN  /\ \/ Ensures(t) /\ browser[u] = "alive"
           \/ Holds(t) /\ task[t].await = "ensure"
        /\ browser' = [browser EXCEPT ![u] = "alive"]

OpenDone(t) ==
    /\ task[t].op = "open"
    /\ Usable(t)
    /\ Finish(t)
    /\ Leave(task[t].user)
    /\ UNCHANGED <<storeVars, viewer, timer, ws, cookie>>

\* navigate, snapshot, click and type_text wait for the page ...
ActOnPage(t) ==
    /\ task[t].op = "act"
    /\ Usable(t)
    /\ Goto(t, "page")
    /\ UNCHANGED <<storeVars, queue, viewer, timer, ws, cookie>>

\* ... and check the lease again before they answer.
ActDone(t) ==
    /\ At(t, "act", "page")
    /\ Finish(t)
    /\ Leave(task[t].user)
    /\ UNCHANGED <<storeVars, browser, viewer, timer, ws, cookie>>

\* begin_takeover
HandOver(t, m, g) ==
    /\ task[t].op = "handover"
    /\ Usable(t)
    /\ IssueTakeover(task[t].user, task[t].epoch, m, g)
    /\ Finish(t)
    /\ Leave(task[t].user)
    /\ UNCHANGED <<viewer, timer, ws, cookie>>

\* issue_takeover refuses the caller's e-mail or finds none pinned, or the
\* transaction of the last step fails.
GivesUp(t) ==
    /\ \/ task[t].op = "handover"
       \/ task[t].op = "resume" /\ "database" \in Faults
    /\ Usable(t)
    /\ Finish(t)
    /\ Leave(task[t].user)
    /\ UNCHANGED <<storeVars, viewer, timer, ws, cookie>>

\* resume_agent: stop the viewer, ensure the browser, and only then the lease.
ResumeLocked(t) ==
    /\ At(t, "resume", "lock")
    /\ Holds(t)
    /\ Permitted(t)
    /\ Goto(t, "stop")
    /\ UNCHANGED <<storeVars, queue, browser, viewer, timer, ws, cookie>>

\* Mutant of ResumeStops: the viewer is left running.
ResumeKeepsViewer(t) ==
    /\ At(t, "resume", "stop")
    /\ Goto(t, "stopped")
    /\ UNCHANGED <<storeVars, queue, browser, viewer, timer, ws, cookie>>

ResumeStops(t) ==
    LET u == task[t].user
    IN  /\ At(t, "resume", "stop")
        /\ viewer' = [viewer EXCEPT ![u] = Terminated(@)]
        /\ task' = [Through(u, Terminated(viewer[u])) EXCEPT ![t].await = "stopped"]
        /\ UNCHANGED <<storeVars, queue, browser, timer, ws, cookie>>

Resume(t) ==
    /\ task[t].op = "resume"
    /\ Usable(t)
    /\ ResumeAgent(task[t].user)
    /\ Finish(t)
    /\ Leave(task[t].user)
    /\ UNCHANGED <<viewer, timer, ws, cookie>>

-----------------------------------------------------------------------------
(* Under the session lock: the viewer *)

\* viewer() starts x11vnc and then websockify, both, when either field names no
\* process that runs.  Ownership was checked before the browser was ensured and
\* is not checked again.
VncStarts(t) ==
    LET u == task[t].user
    IN  /\ task[t].op \in ViewerOp
        /\ Usable(t)
        /\ ~AllHeld(u)
        /\ viewer' = Launched(u, "vnc")
        /\ Goto(t, "vnc")
        /\ UNCHANGED <<storeVars, queue, timer, ws, cookie>>

\* _wait_port asks whether anyone listens.
WebStarts(t) ==
    LET u == task[t].user
    IN  /\ task[t].await = "vnc"
        /\ viewer[u]["vnc"] # "down"
        /\ viewer' = Launched(u, "web")
        /\ Goto(t, "web")
        /\ UNCHANGED <<storeVars, queue, browser, timer, ws, cookie>>

\* A new process exits or does not listen in time.
ViewerFails(t) ==
    LET u == task[t].user
    IN  /\ task[t].await \in {"vnc", "web"}
        /\ viewer' = [viewer EXCEPT ![u] = Terminated(@)]
        /\ task' = [Through(u, Terminated(viewer[u])) EXCEPT ![t] = Idle]
        /\ Leave(u)
        /\ UNCHANGED <<storeVars, browser, timer, ws, cookie>>

\* viewer() has nothing to start, or websockify's port answers.
Serving(t) ==
    LET u == task[t].user
    IN  \/ task[t].await = "web" /\ viewer[u]["web"] # "down" /\ UNCHANGED browser
        \/ task[t].op \in ViewerOp /\ Usable(t) /\ AllHeld(u)

\* Mutant of ViewerReturns: expire_takeover is called with the lock still held.
ViewerReturnsNested(t) ==
    LET u == task[t].user
    IN  /\ Serving(t)
        /\ \/ /\ task[t].op = "portal"
              /\ Finish(t)
              /\ Leave(u)
           \/ /\ task[t].op = "socket"
              /\ grant[task[t].grant].activeExpires <= now
              /\ Goto(t, "expire")
              /\ queue' = [queue EXCEPT ![u] = Append(@, t)]
           \/ /\ task[t].op = "socket"
              /\ grant[task[t].grant].activeExpires > now
              /\ task' = [task EXCEPT ![t].await = "connect", ![t].live = Carries(viewer[u])]
              /\ Leave(u)
        /\ UNCHANGED <<storeVars, viewer, timer, ws, cookie>>

\* viewer() returns.  A page or an asset is answered; a WebSocket is refused
\* when its deadline has passed, after expire_takeover has its turn of the
\* lock, and otherwise connects to the viewer that listens now.
ViewerReturns(t) ==
    LET u == task[t].user
    IN  /\ Serving(t)
        /\ \/ /\ task[t].op = "portal"
              /\ Finish(t)
              /\ Leave(u)
           \/ /\ task[t].op = "socket"
              /\ grant[task[t].grant].activeExpires <= now
              /\ Goto(t, "expire")
              /\ queue' = [queue EXCEPT ![u] = Append(Tail(@), t)]
           \/ /\ task[t].op = "socket"
              /\ grant[task[t].grant].activeExpires > now
              /\ task' = [task EXCEPT ![t].await = "connect", ![t].live = Carries(viewer[u])]
              /\ Leave(u)
        /\ UNCHANGED <<storeVars, viewer, timer, ws, cookie>>

SocketExpires(t) ==
    /\ At(t, "socket", "expire")
    /\ Holds(t)
    /\ IF ActiveUnder(task[t].grant)
       THEN ExpireActiveGrant(task[t].grant) ELSE UNCHANGED storeVars
    /\ Goto(t, "stop")
    /\ UNCHANGED <<queue, browser, viewer, timer, ws, cookie>>

\* It raises instead: the request ends without stopping the viewer.
SocketExpireRaises(t) ==
    /\ At(t, "socket", "expire")
    /\ Holds(t)
    /\ \/ "database" \in Faults /\ UNCHANGED storeVars
       \/ "audit" \in Faults /\ ExpireActiveGrant(task[t].grant)
    /\ Finish(t)
    /\ Leave(task[t].user)
    /\ UNCHANGED <<browser, viewer, timer, ws, cookie>>

\* The handshake with the viewer is over: one relay per session, a second one is
\* refused.
Register(t) ==
    LET u == task[t].user
    IN  /\ task[t].await = "connect"
        /\ IF ws[u] = None
           THEN ws' = [ws EXCEPT ![u] = t] /\ Goto(t, "relay")
           ELSE UNCHANGED ws /\ Finish(t)
        /\ UNCHANGED <<storeVars, queue, browser, viewer, timer, cookie>>

\* The handshake fails, or takes too long.
ConnectFails(t) ==
    /\ task[t].await = "connect"
    /\ Finish(t)
    /\ UNCHANGED <<storeVars, queue, browser, viewer, timer, ws, cookie>>

\* Mutant of Deregister: the entry is removed, whosever it is.
DeregisterAny(t) == ws' = [ws EXCEPT ![task[t].user] = None]

Deregister(t) ==
    ws' = [ws EXCEPT ![task[t].user] = IF @ = t THEN None ELSE @]

RelayEnds(t) ==
    /\ task[t].await \in {"relay", "hung"}
    /\ Deregister(t)
    /\ Finish(t)
    /\ UNCHANGED <<storeVars, queue, browser, viewer, timer, cookie>>

\* It has to end: its upstream is gone, it was told to close, or expire_deadline.
RelayMustEnd(t) ==
    /\ \/ task[t].await = "hung"
       \/ ~task[t].live
       \/ task[t].await = "relay" /\ grant[task[t].grant].activeExpires <= now
    /\ RelayEnds(t)

\* Mutant of ViewerStopped: the viewer's end also cancels the expiry task.
ViewerStoppedCancels(t) ==
    LET u == task[t].user
    IN  /\ task[t].op # "resume"
        /\ task[t].await = "stop"
        /\ viewer' = [viewer EXCEPT ![u] = Terminated(@)]
        /\ task' = [Through(u, Terminated(viewer[u])) EXCEPT ![t] = Idle]
        /\ queue' = [WithoutTimer(u) EXCEPT ![u] = Tail(@)]
        /\ timer' = CancelledTimer(u)
        /\ UNCHANGED <<storeVars, browser, ws, cookie>>

\* stop_viewer_unlocked is over, and with it the request.
ViewerStopped(t) ==
    LET u == task[t].user
    IN  /\ task[t].op # "resume"
        /\ task[t].await = "stop"
        /\ viewer' = [viewer EXCEPT ![u] = Terminated(@)]
        /\ task' = [Through(u, Terminated(viewer[u])) EXCEPT ![t] = Idle]
        /\ Leave(u)
        /\ UNCHANGED <<storeVars, browser, timer, ws, cookie>>

-----------------------------------------------------------------------------
(* Completion, eviction and abort: the rest of their steps *)

\* The WebSocket is closed; on to the lock.
SocketClosed(t) ==
    /\ task[t].op \in {"complete", "evict"}
    /\ task[t].await = "close"
    /\ Goto(t, "lock")
    /\ Join(task[t].user, t)
    /\ UNCHANGED <<storeVars, browser, viewer, timer, ws, cookie>>

CompleteLocked(t) ==
    LET u == task[t].user
    IN  /\ At(t, "complete", "lock")
        /\ Holds(t)
        /\ CompleteTakeover(task[t].grant)
        /\ timer' = CancelledTimer(u)
        /\ queue' = WithoutTimer(u)
        /\ Goto(t, "stop")
        /\ UNCHANGED <<browser, viewer, ws, cookie>>

\* complete_takeover raises: the human is no longer active under the grant, or
\* a write fails, that of the audit line after the commit.
CompleteRaises(t) ==
    /\ At(t, "complete", "lock")
    /\ Holds(t)
    /\ \/ ~ActiveUnder(task[t].grant) /\ UNCHANGED storeVars
       \/ "database" \in Faults /\ UNCHANGED storeVars
       \/ "audit" \in Faults /\ CompleteTakeover(task[t].grant)
    /\ Finish(t)
    /\ Leave(task[t].user)
    /\ UNCHANGED <<browser, viewer, timer, ws, cookie>>

EvictLocked(t) ==
    /\ At(t, "evict", "lock")
    /\ Holds(t)
    /\ Goto(t, "stop")
    /\ UNCHANGED <<storeVars, queue, browser, viewer, timer, ws, cookie>>

\* abort_active_takeovers lists the sessions, cancels their expiry tasks
\* without the lock, and goes for it.
AbortLists(t) ==
    LET u == task[t].user
    IN  /\ At(t, "abort", "close")
        /\ IF session[u].state \in TakeoverState
           THEN /\ timer' = CancelledTimer(u)
                /\ queue' = [WithoutTimer(u) EXCEPT ![u] = Append(@, t)]
                /\ Goto(t, "lock")
           ELSE UNCHANGED <<timer, queue>> /\ Finish(t)
        /\ UNCHANGED <<storeVars, browser, viewer, ws, cookie>>

AbortLocked(t) ==
    LET u == task[t].user
    IN  /\ At(t, "abort", "lock")
        /\ Holds(t)
        /\ IF session[u].state \in TakeoverState
           THEN AbortTakeover(u) ELSE UNCHANGED storeVars
        /\ Goto(t, "stop")
        /\ UNCHANGED <<queue, browser, viewer, timer, ws, cookie>>

AbortRaises(t) ==
    /\ At(t, "abort", "lock")
    /\ Holds(t)
    /\ \/ "database" \in Faults /\ UNCHANGED storeVars
       \/ "audit" \in Faults /\ AbortTakeover(task[t].user)
    /\ Finish(t)
    /\ Leave(task[t].user)
    /\ UNCHANGED <<browser, viewer, timer, ws, cookie>>

-----------------------------------------------------------------------------
(* The expiry task *)

TimerFires(u) ==
    /\ \/ timer[u].await = "sleep" /\ grant[timer[u].grant].activeExpires <= now
       \/ timer[u].await = "retry"
    /\ timer' = [timer EXCEPT ![u].await = "lock"]
    /\ Join(u, Timer)
    /\ UNCHANGED <<storeVars, browser, viewer, task, ws, cookie>>

\* Mutant of TimerExpires: nothing to expire, nothing to stop.
TimerExpiresOnly(u) ==
    /\ timer[u].await = "lock"
    /\ Heads(u, Timer)
    /\ IF ActiveUnder(timer[u].grant)
       THEN /\ ExpireActiveGrant(timer[u].grant)
            /\ timer' = [timer EXCEPT ![u].await = "stop"]
            /\ UNCHANGED queue
       ELSE /\ timer' = CancelledTimer(u)
            /\ Leave(u)
            /\ UNCHANGED storeVars
    /\ UNCHANGED <<browser, viewer, task, ws, cookie>>

\* expire_takeover stops the viewer whether or not the grant was still active.
TimerExpires(u) ==
    /\ timer[u].await = "lock"
    /\ Heads(u, Timer)
    /\ IF ActiveUnder(timer[u].grant)
       THEN ExpireActiveGrant(timer[u].grant) ELSE UNCHANGED storeVars
    /\ timer' = [timer EXCEPT ![u].await = "stop"]
    /\ UNCHANGED <<queue, browser, viewer, task, ws, cookie>>

TimerStops(u) ==
    /\ timer[u].await = "stop"
    /\ viewer' = [viewer EXCEPT ![u] = Terminated(@)]
    /\ task' = Through(u, Terminated(viewer[u]))
    /\ timer' = CancelledTimer(u)
    /\ Leave(u)
    /\ UNCHANGED <<storeVars, browser, ws, cookie>>

\* The attempt raises, before the commit or after it.  The handler of the
\* exception writes an audit line first: if that fails too the task dies, as
\* it does after the third attempt.
TimerRaises(u) ==
    /\ timer[u].await = "lock"
    /\ Heads(u, Timer)
    /\ \/ "database" \in Faults /\ UNCHANGED storeVars
       \/ "audit" \in Faults /\ ExpireActiveGrant(timer[u].grant)
    /\ \/ /\ "audit" \in Faults \/ timer[u].tries = 2
          /\ timer' = CancelledTimer(u)
       \/ /\ timer[u].tries < 2
          /\ timer' = [timer EXCEPT ![u].await = "retry", ![u].tries = @ + 1]
    /\ Leave(u)
    /\ UNCHANGED <<browser, viewer, task, ws, cookie>>

-----------------------------------------------------------------------------
(* The environment *)

HumanLeaves(t) == RelayEnds(t)

BrowserDies(u) ==
    /\ browser[u] = "alive"
    /\ browser' = [browser EXCEPT ![u] = "dead"]
    /\ UNCHANGED <<storeVars, queue, viewer, timer, task, ws, cookie>>

\* The display dies, and x11vnc with it.
DisplayDies(u) ==
    /\ browser[u] = "alive"
    /\ browser' = [browser EXCEPT ![u] = "dead"]
    /\ viewer' = [viewer EXCEPT ![u]["vnc"] = "down"]
    /\ task' = Severed(u)
    /\ UNCHANGED <<storeVars, queue, timer, ws, cookie>>

PartDies(u, p) ==
    /\ p \in Faults
    /\ viewer[u][p] # "down"
    /\ viewer' = [viewer EXCEPT ![u][p] = "down"]
    /\ task' = Severed(u)
    /\ UNCHANGED <<storeVars, queue, browser, timer, ws, cookie>>

\* The container stops, with all it runs, and starts again: lifespan.
Restart ==
    /\ RecoverFailClosed
    /\ queue' = [u \in User |-> <<>>]
    /\ browser' = [u \in User |-> "none"]
    /\ viewer' = [u \in User |-> NoViewer]
    /\ timer' = [u \in User |-> NoTimer]
    /\ task' = [t \in Task |-> Idle]
    /\ ws' = [u \in User |-> None]
    /\ UNCHANGED cookie

-----------------------------------------------------------------------------
\* A request goes on: what the broker, its processes and its timeouts bring about.
Proceeds(t) ==
    \/ Refused(t) \/ EnsureStarts(t) \/ EnsureFails(t)
    \/ OpenDone(t) \/ ActOnPage(t) \/ GivesUp(t)
    \/ \E m \in Email \cup {None}, g \in Grant : HandOver(t, m, g)
    \/ ResumeLocked(t) \/ ResumeStops(t) \/ Resume(t)
    \/ VncStarts(t) \/ WebStarts(t) \/ ViewerFails(t) \/ ViewerReturns(t) \/ ViewerStopped(t)
    \/ SocketExpires(t) \/ SocketExpireRaises(t)
    \/ Register(t) \/ ConnectFails(t) \/ RelayMustEnd(t)
    \/ SocketClosed(t) \/ CompleteLocked(t) \/ CompleteRaises(t)
    \/ EvictLocked(t) \/ AbortLists(t) \/ AbortLocked(t) \/ AbortRaises(t)

\* The page may never answer: page.evaluate, page.title and new_page have no timeout.
TaskStep(t) == Proceeds(t) \/ ActDone(t)

TimerStep(u) == TimerFires(u) \/ TimerExpires(u) \/ TimerStops(u) \/ TimerRaises(u)

\* A request arrives.
Arrival(t) ==
    \/ \E u \in User :
        \/ StartAct(t, u) \/ StartHandover(t, u) \/ StartResume(t, u)
        \/ StartOpen(t, u) \/ StartAbort(t, u)
        \/ \E e \in Email : StartEvict(t, u, e)
    \/ \E g \in Grant :
        \/ \E op \in ViewerOp : StartViewing(t, op, g)
        \/ StartComplete(t, g)

AtOnce ==
    \/ Status \/ LookupLink
    \/ \E u \in User :
        \/ OpenRefused(u)
        \/ \E e \in Email \cup {None} : Provision(u, e) \/ EvictUnaudited(u, e)
    \/ \E g \in Grant :
        \/ PortalTooLate(g)
        \/ \E d \in Deadline : Redeem(g, d) \/ RedeemUnaudited(g, d)

Environment ==
    \/ \E t \in Task : HumanLeaves(t)
    \/ \E u \in User : BrowserDies(u) \/ DisplayDies(u) \/ \E p \in Part : PartDies(u, p)
    \/ Restart

BrokerNext ==
    \/ Passes
    \/ AtOnce
    \/ \E t \in Task : Arrival(t) \/ TaskStep(t)
    \/ \E u \in User : TimerStep(u)
    \/ Environment

\* Time passes, the event loop serves every task that can go on, and the lock
\* is fair.  Nobody has to make a request, the human need not leave, and a page
\* need not answer: its agent's request keeps the lock while it does not.
Fairness ==
    /\ WF_vars(Passes)
    /\ \A t \in Task : WF_vars(Proceeds(t))
    /\ \A u \in User : WF_vars(TimerStep(u))

BrokerSafety == BrokerInit /\ [][BrokerNext]_vars
BrokerSpec == BrokerSafety /\ Fairness

-----------------------------------------------------------------------------
(* Properties *)

\* The agent works on the page only while it holds the lease it presented: from
\* the check under the lock to the answer, across the awaits of the browser and
\* the page, no handover, expiry, abort or eviction takes the session from it.
AgentHoldsLease ==
    \A t \in Task : At(t, "act", "page") => HoldsLease(task[t].user, task[t].epoch)

\* No process of the viewer that the runtime could stop is left while the agent
\* drives or an offer is pending: whatever path led out of the human's control,
\* they are stopped before the agent is back (resume_agent does, under the lock).
ViewerNeverWithAgent ==
    \A u \in User : Held(u) => session[u].state \in {"HUMAN_ACTIVE", "READY_TO_RESUME"}

\* What the guide says of the viewer: x11vnc and websockify run only while the
\* human is in control, and are absent after handback.
ViewerAbsentAfterHandback ==
    \A u \in User : session[u].state = "AGENT_ACTIVE" => viewer[u] = NoViewer

\* A relay that can still pass input serves the takeover it was opened for,
\* which is active or has just ended: a request of an earlier takeover, delayed
\* at any await, never reaches the viewer of a later one, unless that viewer is
\* a stray that the earlier one left.
RelayServesItsTakeover ==
    \A t \in Task : task[t].live =>
        LET u == task[t].user
        IN  \/ Strays(u)
            \/ /\ AllHeld(u)
               /\ \/ session[u].state = "HUMAN_ACTIVE" /\ session[u].epoch = task[t].epoch
                  \/ session[u].state = "READY_TO_RESUME" /\ session[u].epoch = task[t].epoch + 1

\* One relay per session, besides those that were told to close: the others are
\* registered, and the registry names only relays that run, even when one that
\* was told to close ends after its successor registered.
OneRelay ==
    /\ \A t \in Task : task[t].await = "relay" => ws[task[t].user] = t
    /\ \A u \in User : ws[u] # None =>
            task[ws[u]].await = "relay" /\ task[ws[u]].user = u

\* Every takeover that is active has its deadline watched by an expiry task of
\* its own, or by an operator's abort that is under way: no cancellation, which
\* is by session and partly outside the lock, hits the task of a later takeover.
DeadlineIsWatched ==
    \A u \in User : session[u].state = "HUMAN_ACTIVE" =>
        \/ /\ timer[u].await \in {"sleep", "lock"}
           /\ ActiveUnder(timer[u].grant)
        \/ \E t \in Task : At(t, "abort", "lock") /\ task[t].user = u

\* The deadline is absolute: human control always ends, though no one completes
\* it and no request is ever made again, and what the runtime can stop of the
\* viewer goes, whoever returned control: also when a status request, which
\* touches no process, was the first to see the deadline.
ControlEnds ==
    \A u \in User :
        (session[u].state = "HUMAN_ACTIVE" \/ Held(u))
            ~> (session[u].state # "HUMAN_ACTIVE" /\ ~Held(u))

ViewerAfterExpiry(u) ==
    /\ session[u].state = "READY_TO_RESUME"
    /\ Held(u)
    /\ \E g \in Grant :
        /\ grant[g].status = "EXPIRED"
        /\ grant[g].user = u
        /\ grant[g].epoch + 1 = session[u].epoch

\* When a deadline ends the human's control, the viewer is closed: by the expiry
\* task, which tries three times, or by whoever stops it before.
ExpiryStopsViewer == \A u \in User : ViewerAfterExpiry(u) ~> ~Held(u)

\* Every request is answered, unless it relays a WebSocket or a page of its user
\* keeps the agent waiting for ever: no other await of the session lock, which is
\* not reentrant, does.
RequestsEnd ==
    \A u \in User :
        \/ \E t \in Task : <>[](At(t, "act", "page") /\ task[t].user = u)
        \/ \A t \in Task : []<>(task[t].user # u \/ task[t].await = "relay")

\* x11vnc is started for a human in control only.
ViewerStartsForHuman ==
    [][\A u \in User : viewer[u]["vnc"] = "down" /\ viewer'[u]["vnc"] = "held" =>
            session[u].state = "HUMAN_ACTIVE"]_vars

=============================================================================
