-------------------------- MODULE ContextSwitchProofs --------------------------
(***************************************************************************)
(* What an operator who runs one command at a time can rely on, whatever   *)
(* is killed, crashes, fails or has its process number reused: every       *)
(* server process past its first check is the one in the pid file, and the *)
(* windows it has read are those of the files.  An orphan, the process of  *)
(* a `start` that was killed before it wrote the pid file, is the one      *)
(* exception, and it does not spread: whatever an orphan does, this holds  *)
(* of every other process.                                                 *)
(*                                                                         *)
(* The invariant follows a process from launchd or `start` to the port.    *)
(* While a command runs the label is not loaded, so that launchd starts    *)
(* nothing beside it; while the files are switched no process is on its    *)
(* way; and a process on its way was checked against the files it reads.   *)
(***************************************************************************)
EXTENDS ContextSwitch, TLAPS

Phase == {"dead", "launching", "verifying", "booting", "configured", "ready", "serving", "stopping"}
Checked == {"booting", "configured", "ready", "serving"}

\* A process that passed the checks of launchd-start.sh, or was spawned by `start`.
Up(p) == phase[p] \in {"verifying"} \cup Checked

ContextTypeOK ==
    /\ settings \in Windows
    /\ profile \in [Profiles -> Windows]
    /\ pidFile \in Proc \cup {None, Other, Stale}
    /\ label \in BOOLEAN
    /\ job \in Proc \cup {None}
    /\ phase \in [Proc -> Phase]
    /\ active \in [Proc -> Windows \cup {None}]
    /\ loaded \in [Proc -> [Profiles -> Windows] \cup {None}]
    /\ starter \in [pc : {"idle", "verifying", "spawned", "waiting"}, child : Proc \cup {None}]
    /\ stopping \in Proc \cup {None}
    /\ orphans \subseteq Proc
    /\ orphans # {} => "kill" \in Faults

NoSwitch == \A s \in Switcher : ~Switching(s)

\* One command at a time, and none of them beside a loaded label.
CommandsOK ==
    /\ stopping # None => starter.pc = "idle" /\ ~label
    /\ ~NoSwitch => starter.pc = "idle" /\ stopping = None /\ ~label
    /\ starter.pc # "idle" => ~label

\* What launchd started is its job, as long as it has not taken the pid file.
JobOK == \A p \in Proc : phase[p] = "launching" => label /\ job = p

\* Where the processes that are up stand, while each of the commands runs; all
\* but the orphans, of which no command knows.
UpOK ==
    /\ starter.pc \in {"verifying", "spawned"} => pidFile = None
    /\ starter.pc \in {"spawned", "waiting"} => starter.child \in Proc
    /\ \A p \in Proc \ orphans : Up(p) =>
        /\ starter.pc # "verifying" /\ stopping = None /\ NoSwitch
        /\ IF starter.pc = "spawned" THEN starter.child = p ELSE pidFile = p

\* What a process on its way has read is what the files say, which agree.
FilesOK ==
    \A p \in Proc \ orphans :
        /\ phase[p] \in Checked => \A m \in Profiles : profile[m] = settings
        /\ phase[p] \in {"configured", "ready", "serving"} => active[p] = settings
        /\ phase[p] \in {"ready", "serving"} => loaded[p] = profile

OneCommandInv == ContextTypeOK /\ CommandsOK /\ JobOK /\ UpOK /\ FilesOK

\* set-context.py is alone with the files.
OneSwitch == ~Concurrent \/ \A s, t \in Switcher : s = t

Command == [pc : {"idle", "settings", "profile", "verify", "undo", "undoProfile"},
            target : Windows \cup {None},
            original : (Windows \X [Profiles -> Windows]) \cup {<<None, None>>},
            result : {None, "done", "undone", "killed"}]

\* How far a `context` command has come, and what it can still restore.
Progress(c, window, profiles) ==
    /\ c.pc # "idle" =>
        /\ ModelId \in Profiles
        /\ c.target \in Windows
        /\ c.original \in Windows \X [Profiles -> Windows]
    /\ c.pc \in {"profile", "verify"} => window = c.target
    /\ c.pc = "verify" => profiles[ModelId] = c.target
    /\ c.pc = "undoProfile" => window = c.original[1]

SwitchOK ==
    /\ settings \in Windows
    /\ profile \in [Profiles -> Windows]
    /\ switch \in [Switcher -> Command]
    /\ \A s, t \in Switcher : Switching(s) /\ Switching(t) => s = t
    /\ \A s \in Switcher : Progress(switch[s], settings, profile)

-----------------------------------------------------------------------------
(* One command at a time.                                                   *)

LEMMA OneCommandStarts == ContextInit => OneCommandInv
<1> SUFFICES ASSUME ContextInit PROVE OneCommandInv
    OBVIOUS
<1> USE DEF ContextInit, NotStarting, NotSwitching
<1>1. ContextTypeOK
    BY DEF ContextTypeOK, Phase
<1>2. CommandsOK /\ JobOK /\ UpOK /\ FilesOK
    BY DEF CommandsOK, JobOK, UpOK, Up, FilesOK, Checked, NoSwitch, Switching
<1> QED
    BY <1>1, <1>2 DEF OneCommandInv

\* The files do not change, and no process changes its windows.
Unread == UNCHANGED <<files, active, loaded>>

\* A step that moves processes, but checks none.
LEMMA FilesKept ==
    ASSUME FilesOK, Unread,
           \A p \in Proc \ orphans' : phase'[p] \in Checked =>
                /\ p \notin orphans
                /\ phase[p] = phase'[p] \/ (phase[p] = "ready" /\ phase'[p] = "serving")
    PROVE  FilesOK'
BY DEF FilesOK, Unread, files, Checked

LEMMA StartSteps ==
    ASSUME ~Concurrent, OneCommandInv,
           \/ StartCommand \/ \E p \in Proc : StartVerified(p)
           \/ StartWritesPid \/ StartReady \/ StartCleansUp \/ StartIsKilled
    PROVE  OneCommandInv'
<1> USE NamesAssumption DEF OneCommandInv, servers, NotStarting, NoSwitch, Switching
<1>1. CASE StartCommand
    <2>1. ContextTypeOK'
        BY <1>1 DEF StartCommand, ContextTypeOK, files
    <2>2. FilesOK'
        BY <1>1, FilesKept DEF StartCommand, Unread
    <2>3. CommandsOK' /\ JobOK'
        BY <1>1 DEF StartCommand, MayRun, CommandsOK, JobOK
    <2>4. UpOK'
        BY <1>1 DEF StartCommand, MayRun, UpOK, Up, Alive, Live, Checked, ContextTypeOK
    <2> QED
        BY <2>1, <2>2, <2>3, <2>4
<1>2. ASSUME NEW p \in Proc, StartVerified(p)
      PROVE  OneCommandInv'
    <2> DEFINE Spawns == /\ Fresh(p)
                         /\ phase' = [phase EXCEPT ![p] = "verifying"]
                         /\ starter' = [pc |-> "spawned", child |-> p]
                         /\ orphans' = orphans \ {p}
               Fails == starter' = [pc |-> "idle", child |-> None] /\ UNCHANGED <<phase, orphans>>
    <2>1. /\ starter.pc = "verifying" /\ (Spawns \/ Fails)
          /\ UNCHANGED <<files, pidFile, label, job, active, loaded, stopping, switch>>
        BY <1>2 DEF StartVerified
    <2>2. ContextTypeOK'
        <3>1. CASE Spawns
            BY <2>1, <3>1 DEF ContextTypeOK, files, Phase
        <3>2. CASE Fails
            BY <2>1, <3>2 DEF ContextTypeOK, files
        <3> QED
            BY <2>1, <3>1, <3>2
    <2>3. FilesOK'
        BY <2>1, FilesKept DEF Unread, ContextTypeOK, Checked
    <2>4. CommandsOK' /\ JobOK'
        BY <2>1 DEF CommandsOK, JobOK, ContextTypeOK
    <2>5. UpOK'
        <3>1. /\ stopping = None /\ NoSwitch /\ pidFile = None
              /\ \A q \in Proc \ orphans : ~Up(q)
            BY <2>1 DEF CommandsOK, UpOK
        <3>2. CASE Spawns
            BY <2>1, <3>1, <3>2 DEF UpOK, Up, ContextTypeOK
        <3>3. CASE Fails
            BY <2>1, <3>1, <3>3 DEF UpOK, Up
        <3> QED
            BY <2>1, <3>2, <3>3
    <2> QED
        BY <2>2, <2>3, <2>4, <2>5
<1>3. CASE StartWritesPid \/ StartReady \/ StartIsKilled
    <2>1. ContextTypeOK'
        BY <1>3 DEF StartWritesPid, StartReady, StartIsKilled, ContextTypeOK, UpOK, files
    <2>2. FilesOK'
        BY <1>3, FilesKept DEF StartWritesPid, StartReady, StartIsKilled, Unread
    <2>3. CommandsOK' /\ JobOK'
        BY <1>3 DEF StartWritesPid, StartReady, StartIsKilled, CommandsOK, JobOK, ContextTypeOK
    <2>4. UpOK'
        BY <1>3 DEF StartWritesPid, StartReady, StartIsKilled, UpOK, Up, ContextTypeOK
    <2> QED
        BY <2>1, <2>2, <2>3, <2>4
<1>4. CASE StartCleansUp
    <2>1. ContextTypeOK'
        BY <1>4 DEF StartCleansUp, ContextTypeOK, files, Phase
    <2>2. FilesOK'
        BY <1>4, FilesKept DEF StartCleansUp, Unread, ContextTypeOK, Checked
    <2>3. CommandsOK' /\ JobOK'
        BY <1>4 DEF StartCleansUp, CommandsOK, JobOK, ContextTypeOK
    <2>4. UpOK'
        BY <1>4 DEF StartCleansUp, UpOK, Up, Checked, ContextTypeOK
    <2> QED
        BY <2>1, <2>2, <2>3, <2>4
<1> QED
    BY <1>1, <1>2, <1>3, <1>4

LEMMA StopSteps ==
    ASSUME ~Concurrent, OneCommandInv, StopCommand \/ StopEnds
    PROVE  OneCommandInv'
<1> USE NamesAssumption DEF OneCommandInv, NoSwitch, Switching
<1>1. ContextTypeOK'
    BY DEF StopCommand, StopEnds, ContextTypeOK, files, Alive, Phase
<1>2. FilesOK'
    BY FilesKept DEF StopCommand, StopEnds, Unread, ContextTypeOK, Checked
<1>3. CommandsOK' /\ JobOK'
    BY DEF StopCommand, StopEnds, MayRun, CommandsOK, JobOK, ContextTypeOK
<1>4. UpOK'
    BY DEF StopCommand, StopEnds, MayRun, UpOK, Up, Checked, Alive, Live, ContextTypeOK
<1> QED
    BY <1>1, <1>2, <1>3, <1>4

LEMMA LaunchdSteps ==
    ASSUME ~Concurrent, OneCommandInv,
           \/ \E p \in Proc : Bootstrap(p) \/ Kickstart(p) \/ Launch(p)
           \/ Bootout
    PROVE  OneCommandInv'
<1> USE NamesAssumption DEF OneCommandInv, NoSwitch, Switching
<1>1. ASSUME NEW p \in Proc, Bootstrap(p) \/ Kickstart(p)
      PROVE  OneCommandInv'
    <2>1. ContextTypeOK'
        BY <1>1 DEF Bootstrap, Kickstart, ContextTypeOK, files, Phase
    <2>2. FilesOK'
        BY <1>1, FilesKept DEF Bootstrap, Kickstart, Unread, ContextTypeOK, Checked
    <2>3. CommandsOK' /\ JobOK'
        BY <1>1 DEF Bootstrap, Kickstart, MayRun, CommandsOK, JobOK, ContextTypeOK
    <2>4. UpOK'
        BY <1>1 DEF Bootstrap, Kickstart, UpOK, Up, Checked, ContextTypeOK
    <2> QED
        BY <2>1, <2>2, <2>3, <2>4
<1>2. ASSUME NEW p \in Proc, Launch(p)
      PROVE  OneCommandInv'
    <2>1. ContextTypeOK'
        BY <1>2 DEF Launch, ContextTypeOK, files, Phase
    <2>2. FilesOK'
        BY <1>2, FilesKept DEF Launch, Unread, ContextTypeOK, Checked
    <2>3. CommandsOK' /\ JobOK'
        BY <1>2 DEF Launch, CommandsOK, JobOK, ContextTypeOK
    <2>4. UpOK'
        <3>1. starter.pc = "idle" /\ stopping = None /\ NoSwitch
            BY <1>2 DEF Launch, JobOK, CommandsOK
        <3>2. ~PidIsActive => \A q \in Proc \ orphans : ~Up(q)
            BY <3>1 DEF UpOK, PidIsActive, Alive, Live, Up, Checked
        <3> QED
            BY <1>2, <3>1, <3>2 DEF Launch, UpOK, Up, Checked, ContextTypeOK
    <2> QED
        BY <2>1, <2>2, <2>3, <2>4
<1>3. CASE Bootout
    <2>1. ContextTypeOK'
        BY <1>3 DEF Bootout, ContextTypeOK, files, Phase
    <2>2. FilesOK'
        BY <1>3, FilesKept DEF Bootout, Unread, ContextTypeOK, Checked
    <2>3. CommandsOK' /\ JobOK'
        BY <1>3 DEF Bootout, CommandsOK, JobOK, ContextTypeOK, Live
    <2>4. UpOK'
        BY <1>3 DEF Bootout, UpOK, Up, Checked, ContextTypeOK
    <2> QED
        BY <2>1, <2>2, <2>3, <2>4
<1> QED
    BY <1>1, <1>2, <1>3

LEMMA ServerSteps ==
    ASSUME OneCommandInv, NEW p \in Proc,
           ServeVerifies(p) \/ ReadSettings(p) \/ ReadProfile(p) \/ Bind(p) \/ ServerEnds(p)
    PROVE  OneCommandInv'
<1> USE NamesAssumption DEF OneCommandInv, Boot, NoSwitch, Switching
<1>0. /\ \E to \in {"dead", "booting", "configured", "ready", "serving"} :
            /\ phase' = [phase EXCEPT ![p] = to]
            /\ to # "dead" => Up(p)
      /\ UNCHANGED <<files, pidFile, label, job, orphans, starter, stopping, switch>>
      /\ active' \in [Proc -> Windows \cup {None}]
      /\ loaded' \in [Proc -> [Profiles -> Windows] \cup {None}]
    <2>1. CASE ServeVerifies(p) \/ Bind(p)
        BY <2>1 DEF ServeVerifies, Bind, ContextTypeOK, Up, Checked
    <2>2. CASE ReadSettings(p)
        BY <2>2 DEF ReadSettings, ContextTypeOK, Up, Checked
    <2>3. CASE ReadProfile(p)
        BY <2>3 DEF ReadProfile, ContextTypeOK, Up, Checked
    <2>4. CASE ServerEnds(p)
        BY <2>4 DEF ServerEnds, Live, ContextTypeOK, Up, Checked
    <2> QED
        BY <2>1, <2>2, <2>3, <2>4
<1>1. ContextTypeOK'
    <2>1. phase' \in [Proc -> Phase]
        BY <1>0 DEF ContextTypeOK, Phase
    <2> QED
        BY <1>0, <2>1 DEF ContextTypeOK, files
<1>2. FilesOK'
    <2>1. CASE ServeVerifies(p) /\ phase'[p] = "booting"
        <3>1. \A m \in Profiles : profile[m] = settings
            BY <2>1 DEF ServeVerifies, Verified, Coherent, ContextTypeOK
        <3> QED
            BY <2>1, <3>1 DEF ServeVerifies, FilesOK, files, Checked, ContextTypeOK
    <2>2. CASE ReadSettings(p)
        BY <2>2 DEF ReadSettings, FilesOK, files, Checked, ContextTypeOK
    <2>3. CASE ReadProfile(p)
        BY <2>3 DEF ReadProfile, FilesOK, files, Checked, ContextTypeOK
    <2>4. CASE Bind(p)
        BY <2>4, FilesKept DEF Bind, Unread, Checked, ContextTypeOK
    <2>5. CASE ServerEnds(p) \/ (ServeVerifies(p) /\ phase'[p] # "booting")
        BY <2>5, FilesKept DEF ServerEnds, ServeVerifies, Unread, Checked, ContextTypeOK
    <2> QED
        BY <2>1, <2>2, <2>3, <2>4, <2>5
<1>3. CommandsOK' /\ JobOK'
    BY <1>0 DEF CommandsOK, JobOK, ContextTypeOK
<1>4. UpOK'
    BY <1>0 DEF UpOK, Up, Checked, ContextTypeOK
<1> QED
    BY <1>1, <1>2, <1>3, <1>4

\* The number of a process that is up is not given to another.
LEMMA ReuseStep ==
    ASSUME OneCommandInv, PidIsReused
    PROVE  OneCommandInv'
<1> USE NamesAssumption DEF OneCommandInv, PidIsReused, servers, NoSwitch, Switching
<1>1. ContextTypeOK' /\ CommandsOK' /\ JobOK'
    BY DEF ContextTypeOK, CommandsOK, JobOK, files
<1>2. FilesOK'
    BY FilesKept DEF Unread
<1>3. UpOK'
    BY DEF UpOK, Up, Checked, Live, ContextTypeOK
<1> QED
    BY <1>1, <1>2, <1>3

\* The steps of set-context.py.
SwitchStepOf(s) ==
    \/ \E w \in Windows : SwitchBegins(s, w)
    \/ WriteSettings(s) \/ WriteProfile(s) \/ SwitchVerifies(s) \/ SwitchFails(s)
    \/ UndoSettings(s) \/ UndoProfile(s) \/ SwitchIsKilled(s)

\* set-context.py, while it runs, has no server on its way up beside it.
LEMMA SwitchSteps ==
    ASSUME ~Concurrent, OneCommandInv, SwitchOK, SwitchOK', NEW s \in Switcher, SwitchStepOf(s)
    PROVE  OneCommandInv'
<1> USE DEF OneCommandInv
<1>1. /\ UNCHANGED <<pidFile, label, job, servers, starter, stopping>>
      /\ starter.pc = "idle" /\ stopping = None /\ ~label
      /\ NoSwitch => ~PidIsActive
    <2>1. CASE \E w \in Windows : SwitchBegins(s, w)
        BY <2>1 DEF SwitchBegins, MayRun
    <2>2. CASE \/ WriteSettings(s) \/ WriteProfile(s) \/ SwitchVerifies(s) \/ SwitchFails(s)
               \/ UndoSettings(s) \/ UndoProfile(s) \/ SwitchIsKilled(s)
        <3>1. Switching(s) /\ UNCHANGED <<pidFile, label, job, servers, starter, stopping>>
            BY <2>2 DEF WriteSettings, WriteProfile, SwitchVerifies, SwitchFails, UndoSettings, UndoProfile,
                        SwitchIsKilled, SwitchStep, SwitchEnds, Switching
        <3> QED
            BY <3>1 DEF NoSwitch, CommandsOK
    <2> QED
        BY <2>1, <2>2 DEF SwitchStepOf
<1>2. \A p \in Proc \ orphans : ~Up(p)
    BY <1>1 DEF UpOK, Up, Checked, PidIsActive, Alive, Live
<1>3. ContextTypeOK'
    BY <1>1 DEF ContextTypeOK, SwitchOK, servers
<1>4. CommandsOK' /\ JobOK' /\ UpOK' /\ FilesOK'
    BY <1>1, <1>2 DEF CommandsOK, JobOK, UpOK, FilesOK, Up, Checked, servers
<1> QED
    BY <1>3, <1>4

-----------------------------------------------------------------------------
(* The switch, beside other commands than itself.                            *)

LEMMA SwitchStarts == ContextInit => SwitchOK
BY DEF ContextInit, NotSwitching, SwitchOK, Switching, Command, Progress

\* A command that is alone moves on.
LEMMA SwitchMoves ==
    ASSUME SwitchOK, NEW s \in Switcher, NEW c \in Command,
           \A t \in Switcher : t # s => ~Switching(t),
           switch' = [switch EXCEPT ![s] = c],
           settings' \in Windows, profile' \in [Profiles -> Windows],
           Progress(c, settings', profile')
    PROVE  SwitchOK'
<1>1. /\ switch' \in [Switcher -> Command]
      /\ switch'[s] = c
      /\ \A t \in Switcher : t # s => switch'[t] = switch[t]
    BY DEF SwitchOK
<1>2. \A t \in Switcher : t # s => switch'[t].pc = "idle"
    BY <1>1 DEF Switching
<1>3. \A t \in Switcher : Progress(switch'[t], settings', profile')
    BY <1>1, <1>2 DEF Progress
<1>4. \A t, u \in Switcher : switch'[t].pc # "idle" /\ switch'[u].pc # "idle" => t = u
    BY <1>2
<1> QED
    BY <1>1, <1>3, <1>4 DEF SwitchOK, Switching

\* What a command that goes on finds of itself.
LEMMA SwitchFinds ==
    ASSUME SwitchOK, NEW s \in Switcher, Switching(s)
    PROVE  /\ switch[s] \in Command
           /\ switch[s].target \in Windows
           /\ switch[s].original[1] \in Windows
           /\ switch[s].original[2] \in [Profiles -> Windows]
           /\ ModelId \in Profiles
           /\ Progress(switch[s], settings, profile)
BY DEF SwitchOK, Switching, Progress

\* The step to another place in the program, or to its end.
LEMMA SwitchStepped ==
    ASSUME SwitchOK, NEW s \in Switcher,
           NEW from, NEW to \in {"settings", "profile", "verify", "undo", "undoProfile"},
           SwitchStep(s, from, to)
    PROVE  LET c == [switch[s] EXCEPT !.pc = to]
           IN  c \in Command /\ switch' = [switch EXCEPT ![s] = c]
<1>1. switch[s] \in Command
    BY DEF SwitchOK
<1> QED
    BY <1>1 DEF SwitchStep, Command

LEMMA SwitchEnded ==
    ASSUME SwitchOK, NEW s \in Switcher, NEW from,
           NEW result \in {"done", "undone", "killed"}, SwitchEnds(s, from, result)
    PROVE  LET c == [switch[s] EXCEPT !.pc = "idle", !.result = result]
           IN  /\ c \in Command /\ switch' = [switch EXCEPT ![s] = c]
               /\ \A window, profiles : Progress(c, window, profiles)
<1>1. switch[s] \in Command
    BY DEF SwitchOK
<1> QED
    BY <1>1 DEF SwitchEnds, Command, Progress

\* Of several switches, one at most is beyond its first step.
LEMMA SwitchGoesOn ==
    ASSUME OneSwitch, SwitchOK, [ContextNext]_contextVars
    PROVE  SwitchOK'
<1>0. settings \in Windows /\ profile \in [Profiles -> Windows]
    BY DEF SwitchOK
<1>1. CASE UNCHANGED <<files, switch>>
    BY <1>1 DEF SwitchOK, Switching, files
<1>2. ASSUME NEW s \in Switcher, SwitchStepOf(s)
      PROVE  SwitchOK'
    <2>1. \A t \in Switcher : t # s => ~Switching(t)
        <3>1. CASE \E w \in Windows : SwitchBegins(s, w)
            BY <3>1 DEF SwitchBegins, MayRun, OneSwitch
        <3>2. CASE \/ WriteSettings(s) \/ WriteProfile(s) \/ SwitchVerifies(s) \/ SwitchFails(s)
                   \/ UndoSettings(s) \/ UndoProfile(s) \/ SwitchIsKilled(s)
            <4>1. Switching(s)
                BY <3>2 DEF WriteSettings, WriteProfile, SwitchVerifies, SwitchFails, UndoSettings, UndoProfile,
                            SwitchIsKilled, SwitchStep, SwitchEnds, Switching
            <4> QED
                BY <4>1 DEF SwitchOK
        <3> QED
            BY <1>2, <3>1, <3>2 DEF SwitchStepOf
    <2>2. ASSUME NEW w \in Windows, SwitchBegins(s, w)
          PROVE  SwitchOK'
        <3> DEFINE c == [pc |-> "settings", target |-> w, original |-> files, result |-> None]
        <3>1. c \in Command /\ switch' = [switch EXCEPT ![s] = c] /\ UNCHANGED <<settings, profile>>
            BY <1>0, <2>2 DEF SwitchBegins, Command, files
        <3>2. Progress(c, settings', profile')
            BY <1>0, <2>2 DEF SwitchBegins, Progress, files
        <3> QED
            BY <1>0, <2>1, <3>1, <3>2, SwitchMoves
    <2>3. CASE WriteSettings(s)
        <3> DEFINE c == [switch[s] EXCEPT !.pc = "profile"]
        <3>1. SwitchStep(s, "settings", "profile") /\ settings' = switch[s].target /\ profile' = profile
            BY <2>3 DEF WriteSettings
        <3>2. Switching(s)
            BY <3>1 DEF SwitchStep, Switching
        <3>3. c \in Command /\ switch' = [switch EXCEPT ![s] = c]
            BY <3>1, SwitchStepped
        <3>4. Progress(c, settings', profile')
            BY <3>1, <3>2, SwitchFinds DEF Progress, Command, Switching
        <3> QED
            BY <1>0, <2>1, <3>1, <3>2, <3>3, <3>4, SwitchMoves, SwitchFinds
    <2>4. CASE WriteProfile(s)
        <3> DEFINE c == [switch[s] EXCEPT !.pc = "verify"]
        <3>1. /\ SwitchStep(s, "profile", "verify") /\ settings' = settings
              /\ profile' = [switch[s].original[2] EXCEPT ![ModelId] = switch[s].target]
            BY <2>4 DEF WriteProfile
        <3>2. Switching(s) /\ switch[s].pc = "profile"
            BY <3>1 DEF SwitchStep, Switching
        <3>3. c \in Command /\ switch' = [switch EXCEPT ![s] = c]
            BY <3>1, SwitchStepped
        <3>4. /\ switch[s].original[2] \in [Profiles -> Windows] /\ ModelId \in Profiles
              /\ switch[s].target \in Windows
            BY <3>2, SwitchFinds
        <3>5. profile' \in [Profiles -> Windows] /\ profile'[ModelId] = switch[s].target
            BY <3>1, <3>4
        <3>6. Progress(c, settings', profile')
            BY <3>1, <3>2, <3>5, SwitchFinds DEF Progress, Command, Switching
        <3> QED
            BY <1>0, <2>1, <3>1, <3>3, <3>5, <3>6, SwitchMoves
    <2>5. CASE SwitchVerifies(s) \/ SwitchFails(s)
        <3>1. CASE SwitchEnds(s, "verify", "done") /\ UNCHANGED files
            <4> DEFINE c == [switch[s] EXCEPT !.pc = "idle", !.result = "done"]
            <4>1. /\ c \in Command /\ switch' = [switch EXCEPT ![s] = c]
                  /\ Progress(c, settings', profile')
                BY <3>1, SwitchEnded, Zenon
            <4>2. settings' \in Windows /\ profile' \in [Profiles -> Windows]
                BY <1>0, <3>1 DEF files
            <4> QED
                BY <2>1, <4>1, <4>2, SwitchMoves
        <3>2. CASE /\ switch[s].pc \in {"settings", "profile", "verify"}
                   /\ SwitchStep(s, switch[s].pc, "undo") /\ UNCHANGED files
            <4> DEFINE c == [switch[s] EXCEPT !.pc = "undo"]
            <4>1. c \in Command /\ switch' = [switch EXCEPT ![s] = c]
                BY <3>2, SwitchStepped
            <4>2. Progress(c, settings', profile')
                BY <3>2, SwitchFinds DEF Progress, Command, Switching
            <4>3. settings' \in Windows /\ profile' \in [Profiles -> Windows]
                BY <1>0, <3>2 DEF files
            <4> QED
                BY <2>1, <4>1, <4>2, <4>3, SwitchMoves
        <3> QED
            BY <2>5, <3>1, <3>2 DEF SwitchVerifies, SwitchFails, SwitchStep
    <2>6. CASE UndoSettings(s)
        <3> DEFINE c == [switch[s] EXCEPT !.pc = "undoProfile"]
        <3>1. SwitchStep(s, "undo", "undoProfile") /\ settings' = switch[s].original[1] /\ profile' = profile
            BY <2>6 DEF UndoSettings
        <3>2. Switching(s)
            BY <3>1 DEF SwitchStep, Switching
        <3>3. c \in Command /\ switch' = [switch EXCEPT ![s] = c]
            BY <3>1, SwitchStepped
        <3>4. Progress(c, settings', profile')
            BY <3>1, <3>2, SwitchFinds DEF Progress, Command, Switching
        <3> QED
            BY <1>0, <2>1, <3>1, <3>2, <3>3, <3>4, SwitchMoves, SwitchFinds
    <2>7. CASE UndoProfile(s)
        <3> DEFINE c == [switch[s] EXCEPT !.pc = "idle", !.result = "undone"]
        <3>1. SwitchEnds(s, "undoProfile", "undone") /\ settings' = settings /\ profile' = switch[s].original[2]
            BY <2>7 DEF UndoProfile
        <3>2. Switching(s)
            BY <3>1 DEF SwitchEnds, Switching
        <3>3. /\ c \in Command /\ switch' = [switch EXCEPT ![s] = c]
              /\ Progress(c, settings', profile')
            BY <3>1, SwitchEnded, Zenon
        <3>4. profile' \in [Profiles -> Windows]
            BY <3>1, <3>2, SwitchFinds
        <3> QED
            BY <1>0, <2>1, <3>1, <3>3, <3>4, SwitchMoves, Zenon
    <2>8. CASE SwitchIsKilled(s)
        <3> DEFINE c == [switch[s] EXCEPT !.pc = "idle", !.result = "killed"]
        <3>1. SwitchEnds(s, switch[s].pc, "killed") /\ settings' = settings /\ profile' = profile
            BY <2>8 DEF SwitchIsKilled, files
        <3>2. /\ c \in Command /\ switch' = [switch EXCEPT ![s] = c]
              /\ Progress(c, settings', profile')
            BY <3>1, SwitchEnded, Zenon
        <3> QED
            BY <1>0, <2>1, <3>1, <3>2, SwitchMoves, Zenon
    <2> QED
        BY <1>2, <2>2, <2>3, <2>4, <2>5, <2>6, <2>7, <2>8 DEF SwitchStepOf
<1>3. CASE \/ StartCommand \/ \E p \in Proc : StartVerified(p)
           \/ StartWritesPid \/ StartReady \/ StartCleansUp \/ StartIsKilled
           \/ StopCommand \/ StopEnds
    <2>1. UNCHANGED <<files, switch>>
        BY <1>3 DEF StartCommand, StartVerified, StartWritesPid, StartReady, StartCleansUp, StartIsKilled,
                    StopCommand, StopEnds
    <2> QED
        BY <1>1, <2>1
<1>4. CASE \/ \E p \in Proc : Bootstrap(p) \/ Kickstart(p) \/ Launch(p)
           \/ Bootout
           \/ \E p \in Proc : ServeVerifies(p) \/ ReadSettings(p) \/ ReadProfile(p) \/ Bind(p) \/ ServerEnds(p)
           \/ PidIsReused
    <2>1. UNCHANGED <<files, switch>>
        BY <1>4 DEF Bootstrap, Kickstart, Launch, Bootout, ServeVerifies, ReadSettings, ReadProfile, Bind,
                    ServerEnds, Boot, PidIsReused
    <2> QED
        BY <1>1, <2>1
<1>5. CASE UNCHANGED contextVars
    BY <1>1, <1>5 DEF contextVars
<1> QED
    BY <1>2, <1>3, <1>4, <1>5 DEF ContextNext, SwitchStepOf

LEMMA OneCommandGoesOn ==
    ASSUME ~Concurrent, OneCommandInv, SwitchOK, [ContextNext]_contextVars
    PROVE  OneCommandInv'
<1>1. ASSUME NEW s \in Switcher, SwitchStepOf(s)
      PROVE  OneCommandInv'
    BY <1>1, SwitchGoesOn, SwitchSteps DEF OneSwitch
<1>2. CASE UNCHANGED contextVars
    BY <1>2 DEF contextVars, files, servers, OneCommandInv, ContextTypeOK, CommandsOK, JobOK, UpOK, FilesOK, Up,
                NoSwitch, Switching
<1> QED
    BY <1>1, <1>2, StartSteps, StopSteps, LaunchdSteps, ServerSteps, ReuseStep DEF ContextNext, SwitchStepOf

-----------------------------------------------------------------------------
(* Theorems.                                                                *)

\* With one command at a time, a server that is not an orphan answers from windows
\* that are those of both files, whatever kills a command, a server or a write.
THEOREM ServerServesItsFiles == ~Concurrent => (ContextSpec => []ServesItsFiles)
<1> SUFFICES ASSUME ~Concurrent PROVE ContextSpec => []ServesItsFiles
    OBVIOUS
<1>1. OneCommandInv /\ SwitchOK /\ [ContextNext]_contextVars => OneCommandInv' /\ SwitchOK'
    BY OneCommandGoesOn, SwitchGoesOn DEF OneSwitch
<1>2. OneCommandInv => ServesItsFiles
    BY DEF OneCommandInv, FilesOK, ServesItsFiles, Checked
<1> QED
    BY <1>1, <1>2, OneCommandStarts, SwitchStarts, PTL DEF ContextSpec

\* With one command at a time, the next command finds the server that runs, if
\* one does: its pid file names it, orphans excepted.
THEOREM ServersStayNamed == ~Concurrent => (ContextSpec => []ServersAreNamed)
<1> SUFFICES ASSUME ~Concurrent PROVE ContextSpec => []ServersAreNamed
    OBVIOUS
<1>1. OneCommandInv /\ SwitchOK /\ [ContextNext]_contextVars => OneCommandInv' /\ SwitchOK'
    BY OneCommandGoesOn, SwitchGoesOn DEF OneSwitch
<1>2. OneCommandInv => ServersAreNamed
    BY DEF OneCommandInv, ContextTypeOK, Phase, UpOK, Up, Checked, ServersAreNamed, Live
<1> QED
    BY <1>1, <1>2, OneCommandStarts, SwitchStarts, PTL DEF ContextSpec

\* What the README says the free port and the unloaded label are for holds when
\* commands follow one another and none is killed.  Both are needed: `start` verifies
\* before its child exists, and an orphan is on its way up behind a free port.
THEOREM SwitchIsAlone ==
    ~Concurrent /\ "kill" \notin Faults => (ContextSpec => []NoConcurrentRestart)
<1> SUFFICES ASSUME ~Concurrent, "kill" \notin Faults PROVE ContextSpec => []NoConcurrentRestart
    OBVIOUS
<1>1. OneCommandInv /\ SwitchOK /\ [ContextNext]_contextVars => OneCommandInv' /\ SwitchOK'
    BY OneCommandGoesOn, SwitchGoesOn DEF OneSwitch
<1>2. OneCommandInv => NoConcurrentRestart
    BY DEF OneCommandInv, ContextTypeOK, Phase, UpOK, Up, Checked, NoConcurrentRestart, NoSwitch
<1> QED
    BY <1>1, <1>2, OneCommandStarts, SwitchStarts, PTL DEF ContextSpec

\* A switch that ends by itself has done all or nothing to the two files, as long
\* as no second `context` runs beside it; a start, a stop or launchd may.
THEOREM SwitchIsAllOrNothing == OneSwitch => (ContextSpec => SwitchIsAtomic)
<1> DEFINE AllOrNothing ==
        \A s \in Switcher : Switching(s) /\ switch'[s].pc = "idle" =>
            CASE switch'[s].result = "done" ->
                    settings' = switch[s].target /\ profile'[ModelId] = switch[s].target
              [] switch'[s].result = "undone" -> files' = switch[s].original
              [] OTHER -> switch'[s].result = "killed"
<1> SUFFICES ASSUME OneSwitch PROVE ContextSpec => SwitchIsAtomic
    OBVIOUS
<1>1. SwitchOK /\ [ContextNext]_contextVars => SwitchOK'
    BY SwitchGoesOn
<1>2. SwitchOK /\ [ContextNext]_contextVars => [AllOrNothing]_contextVars
    <2> SUFFICES ASSUME SwitchOK, ContextNext, NEW s \in Switcher,
                        Switching(s), switch'[s].pc = "idle"
                 PROVE  CASE switch'[s].result = "done" ->
                                settings' = switch[s].target /\ profile'[ModelId] = switch[s].target
                          [] switch'[s].result = "undone" -> files' = switch[s].original
                          [] OTHER -> switch'[s].result = "killed"
        OBVIOUS
    <2> USE DEF Switching
    <2>1. CASE SwitchVerifies(s)
        <3>1. Verified(TRUE) /\ SwitchEnds(s, "verify", "done") /\ UNCHANGED files
            <4>1. ~SwitchStep(s, "verify", "undo")
                BY DEF SwitchStep, SwitchOK, Command, Progress
            <4> QED
                BY <2>1, <4>1 DEF SwitchVerifies
        <3>2. switch'[s].result = "done"
            BY <3>1 DEF SwitchEnds, SwitchOK, Command, Progress
        <3>3. settings = switch[s].target /\ profile[ModelId] = switch[s].target
            BY <3>1 DEF SwitchEnds, SwitchOK, Command, Progress
        <3> QED
            BY <3>1, <3>2, <3>3 DEF files
    <2>2. CASE UndoProfile(s)
        <3>1. PICK a \in Windows, b \in [Profiles -> Windows] : switch[s].original = <<a, b>>
            BY DEF SwitchOK, Command, Progress
        <3>2. switch'[s].result = "undone" /\ settings' = a /\ profile' = b
            BY <2>2, <3>1 DEF UndoProfile, SwitchEnds, SwitchOK, Command, Progress
        <3> QED
            BY <3>1, <3>2 DEF files
    <2>3. CASE SwitchIsKilled(s)
        BY <2>3 DEF SwitchIsKilled, SwitchEnds, SwitchOK, Command, Progress
    <2>4. CASE \/ \E w \in Windows : SwitchBegins(s, w)
               \/ WriteSettings(s) \/ WriteProfile(s) \/ SwitchFails(s) \/ UndoSettings(s)
        BY <2>4 DEF SwitchBegins, WriteSettings, WriteProfile, SwitchFails, UndoSettings, SwitchStep, SwitchOK, Command, Progress
    <2>5. ASSUME NEW t \in Switcher \ {s}, SwitchStepOf(t)
          PROVE  switch'[s] = switch[s]
        BY <2>5 DEF SwitchStepOf, SwitchBegins, WriteSettings, WriteProfile, SwitchVerifies, SwitchFails,
                    UndoSettings, UndoProfile, SwitchIsKilled, SwitchStep, SwitchEnds, SwitchOK
    <2>6. CASE \/ StartCommand \/ \E p \in Proc : StartVerified(p)
               \/ StartWritesPid \/ StartReady \/ StartCleansUp \/ StartIsKilled
               \/ StopCommand \/ StopEnds \/ Bootout \/ PidIsReused
               \/ \E p \in Proc : \/ Bootstrap(p) \/ Kickstart(p) \/ Launch(p) \/ ServeVerifies(p)
                                   \/ ReadSettings(p) \/ ReadProfile(p) \/ Bind(p) \/ ServerEnds(p)
        <3>1. UNCHANGED switch
            BY <2>6 DEF StartCommand, StartVerified, StartWritesPid, StartReady, StartCleansUp, StartIsKilled,
                        StopCommand, StopEnds, Bootout, PidIsReused, Bootstrap, Kickstart, Launch,
                        ServeVerifies, ReadSettings, ReadProfile, Bind, ServerEnds, Boot
        <3> QED
            BY <3>1
    <2>7. CASE \E t \in Switcher : SwitchStepOf(t)
        BY <2>1, <2>2, <2>3, <2>4, <2>5, <2>7 DEF SwitchStepOf
    <2> QED
        BY <2>6, <2>7 DEF ContextNext, SwitchStepOf
<1>3. ContextSpec => [][AllOrNothing]_contextVars
    BY <1>1, <1>2, SwitchStarts, PTL DEF ContextSpec
<1> QED
    BY <1>3 DEF SwitchIsAtomic

=============================================================================
