# Verification of the local-AI stack

The repository is a guide to a private AI stack on one machine, with the programs
it runs under `src/examples/`. This directory holds TLA+ models of those programs,
the TLC runs that check them and the TLAPS proofs about them. `PROJECT.json` maps
every definition to the lines it stands for, and lists runs, mutants, findings,
hazards and theorems.

The centre is the **Browser HITL broker** (`examples/browser-hitl-poc/browser_hitl`):
it lends a browser to an AI agent, hands it to a human for a login or a CAPTCHA, and
takes it back. Around it stand the **model servers** (`examples/qwen38-official-omlx`,
`examples/ornith15-omlx`), whose safety rests on a guard around speculative decoding;
the **commands** that start them and change their context window; the **exporter**
that counts what they log; and the **egress proxy** of the browsers.

## 1. Inventory

| component | state | operations | hard behaviour | status |
|---|---|---|---|---|
| store (`store.py`) | SQLite tables `profiles`, `sessions`, `grants` | provision, open, issue, redeem, complete, expire, abort, resume, recover | calls from several handlers in any order; sweeps; restart | modelled |
| runtime manager, API (`runtime.py`, `api.py`) | per session: asyncio lock, Chromium, x11vnc, websockify, expiry task; registry of viewer WebSockets; cookies | HTTP routes, WebSocket relay, agent actions, takeover, startup | awaits under and outside the lock; cancellation; processes that die one by one | modelled but for what section 5 lists |
| egress proxy (`egress_proxy.py`) | one tunnel per connection, two buffers | head, resolve, connect, two copies, error page | a direction that fails while the other is busy; peers that fail while others write | modelled |
| MTP guard and admission (`*/secure_server.py`) | output limit per request; positions of the draft decoder | admit, rebind, decode, verify, hand over | concurrent requests, off-by-one at the boundary, a runtime that misbehaves | modelled; set-up checks are not |
| context switch (`set-context.py`) | two settings files | replace both, verify, roll back | crash between the two; a server that starts meanwhile; a second switch | modelled |
| controllers (`qwen38-official`, `launchd-start.sh`, `serve.sh`; the same for `ornith15-omlx`) | pid file, launchd job, server processes | start, stop, restart, launch | stale and reused pids, two starters, killed commands | modelled but for status and reports |
| dashboard exporter (`exporter.py`) | counters in memory, log offset in a file | scrape | threads, restart, full disk, files that cannot be opened, a log that is written anew | modelled |
| security, settings (`security.py`, `settings.py`) | none | token, JWT, CSRF, configuration checks | - | verdicts are in the broker's guards |
| Open WebUI tool (`browser_hitl_tool.py`) | none | one HTTP call per tool function | times out before the broker does | its calls are the broker's arrivals |
| stack control (`local-ai`) | none | up, down | one unit of several fails | not modelled |
| installers, verifiers, benchmarks, docs | - | one-shot scripts | - | not modelled |

The tool calls the API over HTTP with the key of Open WebUI; the human reaches
`/takeover/...`, `/portal` and `/viewer/...` through Cloudflare Access; an operator
calls `/admin/...`. The API calls the runtime manager, which serialises most work on a
session behind one asyncio lock, and both call the store, whose methods are single
SQLite transactions and take no session lock. That last fact is where the broker's
interesting interleavings come from: redemption, status, identity changes and the
expiry found by a portal request change a session's owner while some other handler
holds its lock. Every browser's traffic goes through the egress proxy. Open WebUI
sends completions to the model servers; the exporter reads the log they write and
the controllers truncate. The model servers share no state with the broker.

What makes each part correct:

* **store** - sessions and grants agree; epochs never repeat or go back; a grant is
  redeemed once, in time, by the e-mail pinned now; profiles share nothing.
* **broker** - the agent acts only under its lease, across every await; no viewer is
  left when the agent is back; a relay serves the takeover it was opened for, and one per
  session is registered; every deadline is watched and comes true; every request is
  answered.
* **model server** - no output past the limit, no position past the window, whatever
  the wrapped runtime does; no sound request is given up; limits do not cross.
* **commands** - a serving process has one window from both files and is the one in
  the pid file; a switch is all or nothing.
* **exporter** - a log line is counted once, and what is never counted is known.
* **egress proxy** - a reply that ended well arrives whole; one ended side ends the
  handler.

## 2. Modules

| module | what it is |
|---|---|
| `ControlLease` | abstract: who drives a user's browser, under which fencing number, with which single outstanding capability |
| `TakeoverStore` | `store.py`: one action per writing method; properties; the refinement mapping to `ControlLease` |
| `TakeoverStoreProofs`, `TakeoverStoreLeaseProofs` | the inductive invariant and seven theorems; the store implements `ControlLease` |
| `TakeoverBroker` | `api.py` and `runtime.py` over the store: requests step by step, lock, processes, expiry task, relays |
| `TakeoverBrokerProofs` | the invariant of the session lock and what it protects; ten theorems, among them that the whole broker implements `ControlLease` |
| `OutputBudget` | admission of requests: context variable, rebinding, limit |
| `MtpDecode` | one decoding row under the position guard; also the abstract specification of what admission must feed |
| `ModelServer` | both composed: admission feeds the one row |
| `MtpDecodeProofs`, `ModelServerProofs` | their invariants, the refinement, eight theorems |
| `ContextSwitch` | start, stop, launchd, serve.sh and set-context.py around two files and a pid file |
| `ContextSwitchProofs` | one command at a time: servers, pid file and files; the switch by itself; four theorems |
| `LogExporter` | scrapes of `exporter.py` against a growing log |
| `LogExporterProofs` | lines, positions and lives of the exporter; three theorems |
| `EgressProxy` | one connection of `egress_proxy.py`, await by await |
| `EgressProxyProofs` | where every chunk of a reply is; two theorems |
| `MC...` | instances for TLC |

**Store.** `profile`, `session` and `grant` are the tables, `now` is `time.time()` in
seconds. A method that raises rolls back, so what makes it raise is its guard. A user
has at most one session for ever (`profile_id` is `UNIQUE` in `sessions`, and no code
writes one of the terminal states), so sessions are indexed by user and `"ABSENT"` is a
missing row. `StaleLinks` and `PastDeadline` are what the two sweeps select; they run
over all users. A grant id is fresh for each issue.

**Broker.** An action is the code of a handler from one await to the next:
`task[t]` is a request with the point where it is suspended (`await`), `queue[u]` is the
session's asyncio lock (its head holds it; asyncio serves waiters in order),
`timer[u]` is the task in `_expiry_tasks`, `ws[u]` the entry of
`active_viewer_websockets`, `cookie` the grants whose cookie was delivered, and
`browser[u]` is Xvfb, Chromium and egress proxy. The store's actions are reused as they
are, conjoined with what the handler does next. `Ensures`/`Usable` render
`_ensure_unlocked`: it awaits nothing if the browser is alive, and otherwise restarts it,
after stopping what is left of the viewer.

The viewer is two processes, and `viewer[u]` says of the port of each whether nobody
listens, the process that the runtime's field names does (`"held"`), or one that no
field names any more (`"stray"`). `viewer()` launches both again when either is gone
(`VncStarts`, `WebStarts`): where the old one still listens the new one ends, the field
names the dead one, and the old one has become a stray (`Launched`). `Terminated` reaches
what the fields name and no stray; an x11vnc, stray or not, dies with its display
(`DisplayDies`, `EnsureStarts`), and either may die by itself (`PartDies`). A WebSocket
handler is `live` while its upstream connection is, which leads through both processes
(`Severed`, `Through`); between `websockets.connect` and the registry nothing is looked
at again (`Register`). A relay that is told to close (`Hung`) loses its entry at once and
stays live until its own loop sees the end, so two relays of a session can pass input for
a while, the one that was told to close and its successor.

The constant `Faults` says which writes may fail and which of the two viewer processes
may die by itself; an audit line is written *after* its transaction commits, so when it
fails the transition stays and the rest of the handler is lost.

**Model server.** Tokens are counted, not named. `MtpDecode` has an action for each
function that the guard wraps: it computes the depth, refuses, or lets the wrapped
function move the counters and looks again. The wrapped functions are oMLX's, not the
repository's: they move the counters as the fakes in `verify-model.py` do, and the
constant `Faults` lets them misbehave as those fakes do (a forward that goes too far, a
chain of the wrong depth, a trim that does nothing, a dispatch that fails) and in one
more way the code allows (a copied chain that is too deep). `Guards` selects
the guard of either server: they differ in the copied drafts and in a handoff that
returns `False`. `OutputBudget` models the context variable as one slot per task, and a
request as two objects, the one sent and the copy that upstream may put in its place.
`ModelServer` passes nothing but the number in `max_tokens`; that its decoder satisfies
`MtpDecode`, whose `Join` demands room for prompt and limit, is the refinement to check.

**Commands.** `phase[p]` follows a server process from its launcher through the two
verifications, the reading of `settings.json` and of `model_settings.json`, and the
binding of the port. `starter`, `stopping` and `switch[s]` are the commands, each stopped
between its observable steps. `Concurrent` lets commands run in two shells at once, with
as many `context` commands as `Switcher` has members. A killed `start` leaves its child;
when the kill comes after the child was spawned and before its number was written down,
the child is one of the `orphans`. A killed switch leaves the files as they are. The other
hundred checks of `verify-model.py` are the fault `verify`.

**Exporter.** A line of the log is two units long, so that a read can end inside one;
`Truncate` starts an epoch of the log. `offset` is the file, `Empty` between the two
halves of `write_text`. `OpenFails` is an `open` that raises: of the log, or of the
offset file after the lines were counted, which leaves the old offset. Variables called *history* do not influence the program: they
record what earlier lives have shown and which losses are known.

**Egress proxy.** Chunks are counted in and out of each connection; `Buffer` is asyncio's
high-water mark, at which `drain` waits; a peer may be slow, end its half, or be lost
with an error that `pipe` passes over or with one that it lets escape. Both copies
and the handler that gathers them are processes of their own.

## 3. Runs

| run | question | bounds | result |
|---|---|---|---|
| `store` | do the tables stay in step, do epochs fence, are grants single-use, is it all the abstract lease? | 3 users, 2 e-mails, 2 slots, 2 grants, clock 0..3 | holds, 73,000 states |
| `broker` | agent, viewer, relay and expiry task, over two takeovers | 1 user, 2 requests, 2 grants, clock 0..1; x11vnc, websockify, display, browser die | holds, 894,000 states |
| `broker_faults` | may a failed write let agent and human drive together, or leave a viewer? | 2 requests, 2 grants, database and audit may fail, the browser lives | holds, 523,000 states |
| `broker_live` | does control end and the viewer go, does every request finish? | 2 requests, 1 grant, x11vnc may die | holds, 225,000 states |
| `viewer_start` | is the viewer started for a human in control only? | 2 requests, 1 grant | **violated** |
| `audit_failure` | is the viewer closed on expiry when the audit log fails? | 2 requests, 1 grant | **violated** |
| `viewer_orphan` | is the viewer absent after handback when websockify may die? | 2 requests, 1 grant | **violated** |
| `model_server` | do output and positions stay inside, is no sound row lost, do limits not cross, does the server implement the decoder? | 2 requests, window 5, prompts of 1, 3 and 5, drafts to depth 1, five faults | holds, 1.2 million states |
| `context` | does a server serve its files, is it named, is a switch atomic? | 2 windows, 2 processes, every fault | holds, 268,000 states |
| `context_race` | can a switch run beside a start? | commands in two shells | **violated** |
| `exporter` | once counted, known losses, failures explained? | 2 scrapes, 2 lines, log written anew once, every fault | holds, 3.8 million states |
| `egress` | does a good reply arrive, does the handler end? | 3 chunks each way, buffer 2, every destination | holds, 223,000 states |

**Why the bounds are enough to be interesting.** *Store*: two e-mails for three users
make every unique index bite; two slots for three users exhaust the pool; two grants
allow two takeovers of one user, or of two, and a link revoked and reissued. *Broker*:
`LinkTtl` and `ControlTtl` are 1, so that a link and a deadline can each pass with a
takeover before and one after. Broker sessions share neither lock, browser, viewer nor
expiry task, so one user suffices; two requests with the timer, the one-step requests
and the environment give the three-party races. Two grants give a request of one takeover
the next one to be late for, in `broker` and in `broker_faults`. With clock 0..1 both
takeovers start before the first deadline. Failing writes and dying viewer processes are
in different runs, and the run of failing writes looks for nothing behind a browser that
died (`BrowserLives`), because together they are too many states for five
minutes (without the constraint it holds as well, over 1.26 million states); the theorems
are about all of them at once. *Model server*: window 5 leaves
rows with room for nothing, for one token, and for a verify, a boundary and a
handoff in one row; one draft gives accepted and rejected chains. The proofs
remove these bounds. *Context*: two processes are needed for a successor of a killed or
crashed one; a dead one stands for a new one, so processes are never used up: an orphan
that holds the port and the next server of a command are in the same run.
*Exporter*: two lines give whole, cut and passed lines in one read, and a second epoch
the offset that is left from a longer log. Since every invariant excuses what follows
an overlap of scrapes, the run looks for nothing behind it (`BeforeOverlap`), nor behind
a line that failing writes have counted three times (`FewRecounts`). *Egress*:
three chunks over a buffer of two fill it in both directions.

Only the clock (`MaxTime`), the log (`MaxLines`, `MaxEpoch`) and the chunks (`MaxChunks`)
are cut off by bounds of their own. Symmetry is used in safety runs only. `egress`
does not check deadlock: a connection that is over is the end of its behaviour.

**Fairness.** `TakeoverBroker`: time passes, and each suspended request and each expiry
task goes on when it can, but for a request of the agent that waits for the page
(`ActDone`). The code justifies it: one event loop runs every ready coroutine,
`asyncio.Lock` is first come first served (the model's queue), and the other awaits have a
timeout (`_wait_port` 15 s, Playwright's start, `_terminate_processes` 3 s, the handshakes
of `websockets`). The page is another matter: `page.goto` has 30 s, but `page.evaluate`
(`runtime.py:347`), `page.title` (`:335`) and `new_page` (`:313`) have none, so a page
whose script never yields keeps the session lock. No fairness is assumed there:
`ControlEnds` holds without it, because such a request excludes a human in control, and
`RequestsEnd` says that every request of a user is answered or a page of that user keeps
the agent waiting for ever.
`EgressProxy`: the handler, each copy and the transports go on when they can, and a peer
takes in the end what was sent to it (`Take`). That last assumption is about the peers,
not about the code: the proxy sets no timeouts, so a peer that neither reads nor leaves
holds a copy in `drain` for ever, and `EndsTogether` says nothing of it. Nothing makes a
person, a client or a server send, end or fail.

### Findings

* `viewer_start`: `viewer()` checks the human's ownership, then awaits
  `_ensure_unlocked`, and starts x11vnc without looking again. If Chromium died during
  the takeover, the await lasts for a restart, during which an identity change or a
  sweep returns control. The comment above the check promises the contrary. It is
  repaired afterwards: whoever ended the takeover, or the expiry task, stops the viewer
  (`ControlEnds`), and `resume_agent` does so before the agent is back
  (`ViewerNeverWithAgent`).
* `viewer_orphan`: when one of x11vnc and websockify has died, `viewer()` starts both and
  overwrites both fields. `_wait_port` asks whether *anyone* listens, so the start can
  succeed on the survivor, which no field names from then on and which no stop reaches:
  it is there when the agent is back, against docs/04 (77 and 454). If the other one dies
  and is launched again the same way, a whole serving viewer outlives the takeover, and so
  does a relay through it. What holds is said by the other properties: no process that
  the runtime *knows* is left (`ViewerNeverWithAgent`), a relay serves its takeover
  unless there is a stray (`RelayServesItsTakeover`), and as long as neither process dies
  by itself no viewer at all is left (`ViewerAbsentAfterHandback` in `broker_faults`).
* `audit_failure`: when the audit log cannot be written, the expiry task commits the
  expiry, fails on the audit line, and its own exception handler fails on another
  audit line, so that neither the retry nor the stop of the viewer happens.
* `context_race`: the switch asks once whether port, label and pid file are free. A
  `start` in another shell shows none of them while it verifies, so the files are
  replaced under a server on its way up.

Seen while modelling, without a run of its own:

* *Names as shipped.* `model_settings.json` and `MODEL_ID` name `qwen38-official-omlx`;
  `verify-model.py:1587` demands exactly `qwen38-omlx` and `sage-a15-omlx`. As shipped the
  verifier never passes, so every switch is undone and no server starts. (It also wants
  another `secret_key` placeholder, `verify-model.py:1550` against
  `settings.template.json:56`, and another link under `models/`.) The run `context`
  is therefore about an installation whose verifier knows the model that is installed
  and switched, which is what the README of that profile describes. A verifier that
  knows two models could not be satisfied either: the switch changes the window of one.
* *Overlapping scrapes.* Two scrapes that overlap read the same lines from the same
  offset and count them twice, and a scrape that renders beside one that counts shows
  lines whose offset is not written yet, so that "a restart does not double count"
  (`exporter.py:16`) holds only without overlaps. `CountedOnce` excuses every overlap: no
  property here would catch a change that made this worse.
* *Offset file.* `EmptyOffset` followed by a crash leaves an offset file that no later
  scrape can read, until somebody removes it (`FailsOnlyWhenTorn`). A `write_text` that
  fails in its `open` leaves the old offset, although the lines are in the counters: the
  next scrape counts them again. `CountedOnce` excepts exactly the lines of such a chunk
  (`recounted`).
* *Killed start.* A `start` that is killed between the spawn of its server
  (`qwen38-official:49`) and the line that writes the pid file (`:51`) leaves a server
  that no pid file names. Until it answers, the next `context` finds a free port, an
  unloaded label and no pid, and replaces the files under it, with commands one after
  another. `ServesItsFiles` and `ServersAreNamed` except such an orphan, and say that it
  takes no other server with it, though it may hold the port.
* *Two switches.* Two `context` commands at once can end with one that reports success,
  one that has been undone, and different windows in the two files, though nothing fails:
  the first writes `settings.json`; the second reads both files, half switched, and writes
  both; the first writes `model_settings.json`; the second verifies, is refused and
  restores the settings it read, those of the first; the first verifies and is done; the
  second restores the old profile. `SwitchIsAtomic` is for one switch at a time.
* *Two relays.* Since a relay leaves the registry before its close is awaited
  (`api.py:707-714`), its successor is let in while it still forwards, against "one
  WebSocket per session" (docs/04:483). `RelayServesItsTakeover` bounds what it can do.
* The switch to the native window always sets the SSD cache to 40GB and the rollback does
  not set it back.

## 4. Proofs

`TakeoverStoreProofs` proves, for every set of users, e-mails and grants and all
values of the limits under `StoreAssumption`, that `Spec` implies `[]TypeOK` and the four
invariants that run `store` checks, and the action properties `Fenced` and `SingleUse`.

None of the invariants is inductive alone. `IInv` joins them with what they lean on:
grants in the table have a user and an owner (`GrantsNamed`), an absent session has
epoch 0 and hence no grant (`AbsentAtZero`), an unprovisioned user has no session or
grant (`UnprovisionedEmpty`). The core of the argument is `OneOpen`: two open grants of
a user govern the same epoch, which `GrantEpochs` forbids, so a session has at most
one; from it follows that ending one grant ends the takeover. All ways out of a
takeover are instances of one lemma, `Closing`: some sessions in a takeover are
returned with the next epoch and exactly their open grants get a final status.
Completion, expiry, the sweeps, re-pinning, abort and restart are each shown to be such
a step. `NextIInv` has one step per action; the theorems follow by PTL.

`TakeoverStoreLeaseProofs` proves `StoreImplementsLease == Spec => LeaseSpec` from the same
invariant. The mapping takes a user's outstanding capability to be the open grant;
`OneOpen` makes that well defined (`KeyIsTheOpenGrant`), and `GrantMatchesControl`
gives every user on the human's side one (`HumanSideHasKey`). `ClosingSpendsKeys` is the
counterpart of `Closing`: closing the open grants of a set of sessions takes away exactly
their keys, so every way out of a takeover is one `Withdraw` of the lease, or a stutter
when a sweep finds nothing. A new session is `Open`, issue is `Offer`, redemption
`Claim`, resume `Regain`.

`TakeoverBrokerProofs` is about every interleaving of any number of requests, users and
grants, with failing writes, dying processes and restarts. The invariant `BInv` has one
idea: *what a task may rely on after an await is what only the holder of the session's
lock, or nobody, can take away*.

* `LockOK`: a session's queue holds exactly the requests and the expiry task that wait
  for its lock or are past it (`InLine`, `Holding`), each once, and whoever is past it is
  first. `LockExcludes`, mutual exclusion, is a corollary. The lemmas before it say how
  joining, leaving and cancelling change a queue.
* `ControlOK`: for each await behind the lock, what the request still finds. An agent's
  request finds the lease it presented; a viewer's request a takeover of its epoch,
  active or just ended; a resume no viewer process in the runtime's fields; a live relay
  its takeover and both processes in the fields, or a stray (`Fits`). What may happen beside the lock is `StoreOutside`: the human accepts, a takeover is returned, a
  session is opened, and none of these moves a session out of the agent's hands. That
  fact about *all* steps of the store is why `AgentHoldsLease` survives the awaits.
* `TasksOK`, `TimersOK`, `ProcessesOK`: the types, and that a request or an expiry task
  names a grant of its own user. The remaining parts are `IInv` of the store and
  `OneRelay`, which is inductive as it stands: it is about relays that were not told to
  close.

There is a lemma for each form of step (`AgentKeepsLease`, `ViewerOnlyForHuman`,
`RelaysServeTheirTakeover`, `OneRelayPerSession` and `BrokerTypes` follow from `BInv` at
once). The viewer's part of the argument is that strays are only ever made by a launch,
by a viewer request under the lock, and that whatever else happens to a viewer takes
processes away (`ViewersFall`). `DeadlinesAreWatched` needs a second invariant,
`WatchInv`, and the hypothesis `Writable`, that database and audit log can be written:
between the commit of a redemption and the schedule of its expiry task a
failed audit line ends the request, and then nothing watches (`RedeemUnaudited`; the
operator's status call or a later portal request finds the deadline passed).

The broker takes two of the store's transactions in one step where the code does
(`SweepThenRedeem`), and issues under any epoch. `BrokerStoreStep` shows that this is all
it does to the store: `StoreStep` is a step of the store, such a pair, or a stutter.
Hence the store's promises hold in the broker (`StoreHoldsUnderBroker`), fencing and
single use too (`BrokerFences`), and `BrokerImplementsLease == BrokerSafety => LeaseSpec`:
whatever the handlers do between two awaits, the owners of the browsers move as
`ControlLease` allows. For the pair, `Claim` takes the offers that are withdrawn before
it, as `Open` does.

`MtpDecodeProofs` proves for every window, every depth, both guards and every set of
faults that output and positions stay inside (`DecodeStaysInside`, `DecodePositions`),
that the guard gives up no sound row (`DecodeAborts`) and that the ordinary decoder
takes over exact caches (`DecodeHandsOver`), with no counter below zero (`DecodeTypes`). What the invariant `DecodeInv` adds is how
the counters lean on each other: emitted, queued and pending tokens together fit the
limit and the window (`Room`), as long as there was no overrun the target cache is one
position behind the confirmed tokens (`TargetInStep`), the head's history is not ahead
of them (`HeadInStep`), and the drafts in hand fit what is left when the queue has
drained (`DraftsFit`). The last one is why `VerifyFits` never refuses a sound row: the
depth was chosen for the moment after the queue, and draining moves tokens from one
side of the sum to the other.

`ModelServerProofs` proves of admission that every limit is the request's own
(`ServerLimits`), whatever other requests do, for any number of them; the invariant says
that a scope holds the budget of the task it belongs to and of the object in use, and
that the limit on that object is the bound for the longest prompt so far. From it follows
that a row starts only with room for its prompt and limit, hence the composition
implements `MtpDecode` (`ServerImplementsDecode`), and what is proved of the decoder
holds in the server (`ServerStaysInside`).

`ContextSwitchProofs` has two invariants. `OneCommandInv` is for `~Concurrent`: while a
command runs launchd's label is not loaded, so launchd starts nothing beside it
(`CommandsOK`, `JobOK`); a process that passed its first check is the one in the pid file,
or the child of a `start` that is about to write it (`UpOK`), which excludes a second one;
and what a process on its way has read is what the files say (`FilesOK`), because no
switch runs while one is up. An orphan is outside `UpOK` and `FilesOK` for as long as its
process lives. `OneCommandInv` gives `ServerServesItsFiles` and
`ServersStayNamed` for any number of processes, windows, crashes and kills, and
`SwitchIsAlone` when in addition no command is killed. `SwitchIsAlone` is the very
property that run `context_race` refutes for two shells; without its second hypothesis
the killed start of section 3 refutes it for one. `SwitchOK` follows set-context.py
alone, beside any other command, as long as no second `context` runs (`OneSwitch`):
`SwitchIsAllOrNothing` is its corollary.

`LogExporterProofs` argues about positions in the log. As long as scrapes did not overlap
(`SoloInv`), every line that was ever counted, other than a recounted one, begins
before the offset of the epoch in which it was written, or before the end of the chunk
that is being added, of which nothing was answered (`CountsOK`); conversely a line before
the offset was counted or is one of the excused (`LossesOK`). A chunk is read from the
offset or from 0 in an epoch of which nothing was counted, so that its lines are new.
The proof had to say how a scrape that took its size in one epoch reads in a later one
(`ReaderOK`): it is why a log written anew may be read from its middle but never twice.

`EgressProxyProofs` counts the chunks of a reply. While the client stays and the server is
not lost (`Calm`), what the server sent and every status line is unread, in the client's
write buffer, or taken; the client's transport closes only after the copy that fills it
has seen the end of the server's stream, or when there was no server (`CalmInv`); a
transport is closed only when its buffer is empty (`SockOK`). `EveryReplyArrives` is this
sum at the end. `SecondStatusIsKnown` follows from where an error page can come from
(`SaidOK`, `RaiseOK`). Both use the safety part of `ProxySpec` only.

The inductive invariants were each checked by TLC on the instances of section 3 (with two
profiles for `OneCommandInv`) before they were proved.

The assumptions are the named `ASSUME`s of the modules: natural numbers and positive
limits, one window for admission and decoder, sets of faults that are the named ones, and
markers that are no members of the sets they are told apart from (`None` and `Timer` are no
requests; `NamesAssumption` says that a server process is neither the missing number, nor
a live process of somebody else, nor a number that no process has). Five theorems have
hypotheses beside them: `Writable` in `DeadlinesAreWatched`, `~Concurrent` in three of the
context switch, one of which also wants no kill, and `OneSwitch` in the fourth. The code
loses the property without them, as `RedeemUnaudited`, run `context_race`, the killed start
and the two switches of section 3 show.

Model-checked only: the liveness properties `ControlEnds`, `RequestsEnd` and
`EndsTogether`, because fairness and `ENABLED` are out of the prover's reach;
`ViewerAbsentAfterHandback`, which holds in `broker_faults` because neither viewer process
dies by itself there; and what the mutants show. Every other property of a passing run is
the subject of a theorem.

## 5. What is left out

*Broker*: authentication, CSRF and cookie signatures (their verdict is in the guards:
portal requests need a delivered cookie of an active grant, redemption the pinned
owner), HTTP headers, proxied bytes, URLs, page contents, token hashes, the process
details of starting Chromium. The registry of WebSockets has a lock of its own whose
critical sections are single steps here, although a refused client is closed inside
one. Clients that vanish are disconnects at arbitrary times; handlers are not cancelled
by them. An operator's abort of several sessions is one request per session.

*Model server*: what is computed; batches of several rows (`max_concurrent_requests` is 1);
the checks that the guard makes of itself when it is installed twice; start-up checks and
the route allowlist; the bodies of error responses.

*Commands*: `status`, `ask`, the polling loops; the cache size. `ornith15-omlx` has the
same scripts without the switch, on other ports.

*Exporter*: the values in a line and the gauges read from other files at each scrape,
which carry no state. *Egress proxy*: header text and the reuse of a connection.

*Not modelled at all*: `local-ai` (a shell script that goes through its units one by one
and keeps no state), the Open WebUI tool (stateless; its calls arrive in the broker in
any order), installers, verifiers, benchmarks (one-shot scripts). `wire-open-webui.py`
stores a connection's configuration under `len(configs)`, which is the position of its
URL only while no earlier connection lacks a configuration; what Open WebUI does with
the lists is not in the repository.

## 6. Plan

1. Refinement of `OutputBudget` and `MtpDecode` by one abstract specification of the
   promise to the client: as many tokens as the request's own limit allows, never more.
2. Action properties of the broker that have no run of their own yet: an expiry task
   ends only the takeover it was scheduled for; the viewer's processes go down in the step
   that returns control, or a task that stops them is under way.
3. The safety half of `ControlEnds` as an invariant: for every state it must leave, a
   named task that will leave it.
4. `ViewerAbsentAfterHandback` as a theorem for viewers that do not die by themselves: the
   two ports then never hold a stray.
5. The registry of viewer WebSockets with its lock and the close of a refused client.
