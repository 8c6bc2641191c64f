----------------------------- MODULE ContextSwitch -----------------------------
(***************************************************************************)
(* The operator's commands on one model server: `start`, `stop`, `context` *)
(* and launchd.  The context window is kept in two files, settings.json and*)
(* model_settings.json.  set-context.py replaces both while the server is  *)
(* down; the server reads both while it boots.  Nothing locks the files:   *)
(* the commands look at the port, at launchd's label and at a pid file.    *)
(***************************************************************************)
CONSTANTS
    Windows,        \* ALLOWED: the native window and the rollback
    Profiles,       \* the models in model_settings.json
    Expected,       \* the models that verify-model.py wants to find there
    ModelId,        \* MODEL_ID: the model that set-context.py switches
    Proc,           \* server processes; a dead one may stand for a new one
    Switcher,       \* `context` commands that may run at a time
    None,
    Other,          \* in the pid file: a live process that is none of ours
    Stale,          \* in the pid file: a number that no process has
    Concurrent,     \* whether the operator runs two commands at once
    Faults          \* "kill" a command, "crash" a server, another check of
                    \* "verify" fails, a "write" fails or is interrupted

ASSUME WindowsAssumption == Windows # {}
ASSUME NamesAssumption == {None, Other, Stale} \cap Proc = {} /\ None # Other /\ Other # Stale
ASSUME ConcurrentAssumption == Concurrent \in BOOLEAN
ASSUME FaultsAssumption == Faults \subseteq {"kill", "crash", "verify", "write"}

VARIABLES
    settings,       \* sampling.max_context_window of settings.json
    profile,        \* max_context_window of each model in model_settings.json
    pidFile,        \* state/server.pid
    label,          \* the LaunchAgent is loaded
    job,            \* the process launchd started, or None
    phase,          \* of every server process
    active,         \* the window a process read from settings.json
    loaded,         \* the windows it read from model_settings.json
    starter,        \* the `start` command
    stopping,       \* the process that the `stop` command waits for, or None
    switch,         \* every `context` command
    orphans         \* history: the processes whose `start` was killed before it
                    \* had written their number down

files == <<settings, profile>>
servers == <<phase, active, loaded, orphans>>
contextVars == <<files, pidFile, label, job, servers, starter, stopping, switch>>

NotStarting == [pc |-> "idle", child |-> None]
NotSwitching == [pc |-> "idle", target |-> None, original |-> <<None, None>>, result |-> None]

ContextInit ==
    /\ \E w \in Windows : settings = w /\ profile = [m \in Profiles |-> w]
    /\ pidFile = None
    /\ label = FALSE
    /\ job = None
    /\ phase = [p \in Proc |-> "dead"]
    /\ active = [p \in Proc |-> None]
    /\ loaded = [p \in Proc |-> None]
    /\ starter = NotStarting
    /\ stopping = None
    /\ switch = [s \in Switcher |-> NotSwitching]
    /\ orphans = {}

Live(p) == phase[p] # "dead"
PortIsOpen == \E p \in Proc : phase[p] = "serving"

\* alive: the pid file names a process of this profile.
Alive == pidFile \in Proc /\ Live(pidFile)

\* kill -0 of the recorded number: recorded_pid_is_active.
PidIsActive == Alive \/ pidFile = Other

\* A process whose number is not the one in the pid file.
Fresh(p) == phase[p] = "dead" /\ pidFile # p

\* verify-model.py --quick, as far as the windows go: the models it knows are
\* there, and every one has the window of the server.
Coherent == Profiles = Expected /\ settings \in Windows /\ \A m \in Profiles : profile[m] = settings
Verified(ok) == ok = Coherent \/ (ok = FALSE /\ "verify" \in Faults)

Switching(s) == switch[s].pc # "idle"

MayRun ==
    \/ Concurrent
    \/ starter.pc = "idle" /\ stopping = None /\ \A s \in Switcher : ~Switching(s)

-----------------------------------------------------------------------------
(* qwen38-official start                                                    *)

\* The checks of start; those that fail leave everything but a dead pid file.
StartCommand ==
    /\ MayRun
    /\ starter.pc = "idle"
    /\ ~Alive /\ ~label /\ pidFile # Other
    /\ pidFile' = None
    /\ starter' = IF PortIsOpen THEN starter ELSE [pc |-> "verifying", child |-> None]
    /\ UNCHANGED <<files, label, job, servers, stopping, switch>>

StartVerified(p) ==
    /\ starter.pc = "verifying"
    /\ \/ /\ Verified(TRUE)
          /\ Fresh(p)
          /\ phase' = [phase EXCEPT ![p] = "verifying"]
          /\ starter' = [pc |-> "spawned", child |-> p]
          /\ orphans' = orphans \ {p}
       \/ /\ Verified(FALSE)
          /\ starter' = NotStarting
          /\ UNCHANGED <<phase, orphans>>
    /\ UNCHANGED <<files, pidFile, label, job, active, loaded, stopping, switch>>

StartWritesPid ==
    /\ starter.pc = "spawned"
    /\ pidFile' = starter.child
    /\ starter' = [starter EXCEPT !.pc = "waiting"]
    /\ UNCHANGED <<files, label, job, servers, stopping, switch>>

\* /health answers on the port, whichever process it is that answers.
StartReady ==
    /\ starter.pc = "waiting"
    /\ PortIsOpen
    /\ starter' = NotStarting
    /\ UNCHANGED <<files, pidFile, label, job, servers, stopping, switch>>

\* cleanup_failed_start: the child died, was too slow, or the user interrupted.
StartCleansUp ==
    /\ starter.pc = "waiting"
    /\ phase' = IF pidFile = starter.child
                THEN [phase EXCEPT ![starter.child] = "dead"] ELSE phase
    /\ pidFile' = IF pidFile = starter.child THEN None ELSE pidFile
    /\ starter' = NotStarting
    /\ UNCHANGED <<files, label, job, active, loaded, orphans, stopping, switch>>

\* The command is killed; its child, if it has one by then, lives on under
\* nohup, and no pid file names it when the kill comes before StartWritesPid.
StartIsKilled ==
    /\ "kill" \in Faults
    /\ starter.pc # "idle"
    /\ orphans' = IF starter.pc = "spawned" THEN orphans \cup {starter.child} ELSE orphans
    /\ starter' = NotStarting
    /\ UNCHANGED <<files, pidFile, label, job, phase, active, loaded, stopping, switch>>

-----------------------------------------------------------------------------
(* qwen38-official stop                                                     *)

StopCommand ==
    /\ MayRun
    /\ stopping = None
    /\ ~label
    /\ IF Alive
       THEN /\ phase' = [phase EXCEPT ![pidFile] = "stopping"]
            /\ stopping' = pidFile
            /\ UNCHANGED pidFile
       ELSE /\ pidFile' = None
            /\ UNCHANGED <<phase, stopping>>
    /\ UNCHANGED <<files, label, job, active, loaded, orphans, starter, switch>>

\* The process has gone within a minute, or goes by kill -9.
StopEnds ==
    /\ stopping # None
    /\ phase' = [phase EXCEPT ![stopping] = "dead"]
    /\ pidFile' = IF pidFile = stopping THEN None ELSE pidFile
    /\ stopping' = None
    /\ UNCHANGED <<files, label, job, active, loaded, orphans, starter, switch>>

-----------------------------------------------------------------------------
(* launchd                                                                  *)

\* launchctl bootstrap: RunAtLoad starts the job, the command does not wait.
Bootstrap(p) ==
    /\ MayRun
    /\ ~label
    /\ Fresh(p)
    /\ label' = TRUE
    /\ job' = p
    /\ phase' = [phase EXCEPT ![p] = "launching"]
    /\ orphans' = orphans \ {p}
    /\ UNCHANGED <<files, pidFile, active, loaded, starter, stopping, switch>>

\* launchctl kickstart -k: the job is killed and started again.
Kickstart(p) ==
    /\ MayRun
    /\ label
    /\ Fresh(p)
    /\ job' = p
    /\ phase' = [q \in Proc |-> IF q = p THEN "launching" ELSE IF q = job THEN "dead" ELSE phase[q]]
    /\ orphans' = orphans \ {p}
    /\ UNCHANGED <<files, pidFile, label, active, loaded, starter, stopping, switch>>

\* launchctl bootout: the job is told to end.
Bootout ==
    /\ MayRun
    /\ label
    /\ label' = FALSE
    /\ phase' = [q \in Proc |-> IF q = job /\ Live(q) THEN "stopping" ELSE phase[q]]
    /\ job' = None
    /\ UNCHANGED <<files, pidFile, active, loaded, orphans, starter, stopping, switch>>

\* A mutant: the pid file is overwritten whoever it names.
LaunchOverwrites(p) ==
    /\ phase[p] = "launching"
    /\ IF PortIsOpen
       THEN phase' = [phase EXCEPT ![p] = "dead"] /\ UNCHANGED pidFile
       ELSE phase' = [phase EXCEPT ![p] = "verifying"] /\ pidFile' = p
    /\ UNCHANGED <<files, label, job, active, loaded, orphans, starter, stopping, switch>>

\* launchd-start.sh: give way to a live process, otherwise take the pid file.
Launch(p) ==
    /\ phase[p] = "launching"
    /\ IF PidIsActive
       THEN phase' = [phase EXCEPT ![p] = "dead"] /\ UNCHANGED pidFile
       ELSE IF PortIsOpen
       THEN phase' = [phase EXCEPT ![p] = "dead"] /\ pidFile' = None
       ELSE phase' = [phase EXCEPT ![p] = "verifying"] /\ pidFile' = p
    /\ UNCHANGED <<files, label, job, active, loaded, orphans, starter, stopping, switch>>

-----------------------------------------------------------------------------
(* serve.sh and secure_server.py                                            *)

Boot(p, from, to) ==
    /\ phase[p] = from
    /\ phase' = [phase EXCEPT ![p] = to]
    /\ UNCHANGED <<files, pidFile, label, job, orphans, starter, stopping, switch>>

ServeVerifies(p) ==
    /\ \/ Verified(TRUE) /\ Boot(p, "verifying", "booting")
       \/ Verified(FALSE) /\ Boot(p, "verifying", "dead")
    /\ UNCHANGED <<active, loaded>>

\* build_app: the window and its policy, from settings.json.
ReadSettings(p) ==
    /\ Boot(p, "booting", "configured")
    /\ active' = [active EXCEPT ![p] = settings]
    /\ UNCHANGED loaded

\* init_server: the profile of the model, from model_settings.json.
ReadProfile(p) ==
    /\ Boot(p, "configured", "ready")
    /\ loaded' = [loaded EXCEPT ![p] = profile]
    /\ UNCHANGED active

\* bind_socket raises when the port is taken.
Bind(p) ==
    /\ Boot(p, "ready", IF PortIsOpen THEN "dead" ELSE "serving")
    /\ UNCHANGED <<active, loaded>>

ServerEnds(p) ==
    /\ Live(p)
    /\ phase[p] = "stopping" \/ "crash" \in Faults
    /\ Boot(p, phase[p], "dead")
    /\ UNCHANGED <<active, loaded>>

\* The number of a dead server goes to another process, which ends some day.
PidIsReused ==
    /\ \/ pidFile \in Proc /\ ~Live(pidFile) /\ pidFile' = Other
       \/ pidFile = Other /\ pidFile' = Stale
    /\ UNCHANGED <<files, label, job, servers, starter, stopping, switch>>

-----------------------------------------------------------------------------
(* set-context.py                                                           *)

\* A mutant: a recorded process does not keep the switch from starting.
SwitchBeginsAnyway(s, w) ==
    /\ MayRun
    /\ ~Switching(s)
    /\ ~PortIsOpen /\ ~label
    /\ ModelId \in Profiles
    /\ switch' = [switch EXCEPT ![s] =
            [pc |-> "settings", target |-> w, original |-> files, result |-> None]]
    /\ UNCHANGED <<files, pidFile, label, job, servers, starter, stopping>>

\* The three checks, then both files are read and the model is looked up.
SwitchBegins(s, w) ==
    /\ MayRun
    /\ ~Switching(s)
    /\ ~PortIsOpen /\ ~label /\ ~PidIsActive
    /\ ModelId \in Profiles
    /\ switch' = [switch EXCEPT ![s] =
            [pc |-> "settings", target |-> w, original |-> files, result |-> None]]
    /\ UNCHANGED <<files, pidFile, label, job, servers, starter, stopping>>

SwitchStep(s, from, to) ==
    /\ switch[s].pc = from
    /\ switch' = [switch EXCEPT ![s].pc = to]
    /\ UNCHANGED <<pidFile, label, job, servers, starter, stopping>>

SwitchEnds(s, from, result) ==
    /\ switch[s].pc = from
    /\ switch' = [switch EXCEPT ![s].pc = "idle", ![s].result = result]
    /\ UNCHANGED <<pidFile, label, job, servers, starter, stopping>>

WriteSettings(s) ==
    /\ SwitchStep(s, "settings", "profile")
    /\ settings' = switch[s].target
    /\ UNCHANGED profile

\* The file that was read, with the window of one model changed.
WriteProfile(s) ==
    /\ SwitchStep(s, "profile", "verify")
    /\ profile' = [switch[s].original[2] EXCEPT ![ModelId] = switch[s].target]
    /\ UNCHANGED settings

SwitchVerifies(s) ==
    /\ \/ Verified(TRUE) /\ SwitchEnds(s, "verify", "done")
       \/ Verified(FALSE) /\ SwitchStep(s, "verify", "undo")
    /\ UNCHANGED files

\* A write fails or the user interrupts: what has been done is undone.
SwitchFails(s) ==
    /\ "write" \in Faults
    /\ switch[s].pc \in {"settings", "profile", "verify"}
    /\ SwitchStep(s, switch[s].pc, "undo")
    /\ UNCHANGED files

UndoSettings(s) ==
    /\ SwitchStep(s, "undo", "undoProfile")
    /\ settings' = switch[s].original[1]
    /\ UNCHANGED profile

\* A mutant: only the first file is restored.
UndoProfileNot(s) == SwitchEnds(s, "undoProfile", "undone") /\ UNCHANGED files

UndoProfile(s) ==
    /\ SwitchEnds(s, "undoProfile", "undone")
    /\ profile' = switch[s].original[2]
    /\ UNCHANGED settings

\* The command is killed, or restoring fails: the files stay as they are.
SwitchIsKilled(s) ==
    /\ "kill" \in Faults
    /\ Switching(s)
    /\ SwitchEnds(s, switch[s].pc, "killed")
    /\ UNCHANGED files

-----------------------------------------------------------------------------
ContextNext ==
    \/ StartCommand
    \/ \E p \in Proc : StartVerified(p)
    \/ StartWritesPid
    \/ StartReady
    \/ StartCleansUp
    \/ StartIsKilled
    \/ StopCommand
    \/ StopEnds
    \/ \E p \in Proc : Bootstrap(p) \/ Kickstart(p) \/ Launch(p)
    \/ Bootout
    \/ \E p \in Proc : ServeVerifies(p) \/ ReadSettings(p) \/ ReadProfile(p) \/ Bind(p) \/ ServerEnds(p)
    \/ PidIsReused
    \/ \E s \in Switcher :
        \/ \E w \in Windows : SwitchBegins(s, w)
        \/ WriteSettings(s)
        \/ WriteProfile(s)
        \/ SwitchVerifies(s)
        \/ SwitchFails(s)
        \/ UndoSettings(s)
        \/ UndoProfile(s)
        \/ SwitchIsKilled(s)

ContextSpec == ContextInit /\ [][ContextNext]_contextVars

-----------------------------------------------------------------------------
\* A server that answers has read the same window from both files, and the files
\* still say so: neither a switch that was killed between the two files nor one
\* that runs beside a server still on its way up is ever served from.  The one
\* process that this cannot be said of is an orphan, whose `start` was killed
\* before it had written the pid file: no later command finds it on its way up.
ServesItsFiles ==
    \A p \in Proc \ orphans : phase[p] = "serving" =>
        /\ settings = active[p] /\ profile = loaded[p]
        /\ \A m \in Profiles : loaded[p][m] = active[p]

\* Between commands every server process that passed its first check, other than
\* an orphan, is the one in the pid file: the next start, stop or context will
\* find it, whatever has died, was killed or had its number reused before, and
\* though an orphan may hold the port.
ServersAreNamed ==
    starter.pc = "idle" /\ stopping = None =>
        \A p \in Proc \ orphans :
            Live(p) /\ phase[p] \notin {"launching", "stopping"} => pidFile = p

\* What the README says the free port and the unloaded label are for: while the
\* files are switched no server is on its way up.
NoConcurrentRestart ==
    (\E s \in Switcher : Switching(s)) =>
        \A p \in Proc : phase[p] \in {"dead", "launching", "stopping"}

\* A switch that ends by itself leaves both files at the new window, or both as
\* it found them, when no other switch runs beside it.
SwitchIsAtomic ==
    [][\A s \in Switcher : Switching(s) /\ switch'[s].pc = "idle" =>
        CASE switch'[s].result = "done" ->
                settings' = switch[s].target /\ profile'[ModelId] = switch[s].target
          [] switch'[s].result = "undone" -> files' = switch[s].original
          [] OTHER -> switch'[s].result = "killed"]_contextVars
=============================================================================
