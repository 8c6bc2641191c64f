------------------------------ MODULE LogExporter ------------------------------
(***************************************************************************)
(* The dashboard's exporter: every scrape reads the server log from a byte *)
(* offset kept in a file, adds the new lines to counters kept in memory,   *)
(* writes the offset back and answers with the counters.  Scrapes run on   *)
(* threads of their own; the process may die at any step.                  *)
(*                                                                         *)
(* A line of the log is two units long, so that a read can end inside one. *)
(* The log is written anew, from nothing, whenever the controller starts   *)
(* the server: every such time is an epoch.                                *)
(***************************************************************************)
EXTENDS Integers

CONSTANTS
    Scrape,         \* the scrapes that may be in progress at once
    MaxLines,       \* bound: lines of an epoch
    MaxEpoch,       \* bound: times the log is written anew
    Faults          \* the process dies ("crash"), the disk is full ("full"), a
                    \* file cannot be opened ("open")

ASSUME MaxLinesAssumption == MaxLines \in Nat
ASSUME MaxEpochAssumption == MaxEpoch \in Nat
ASSUME FaultsAssumption == Faults \subseteq {"crash", "full", "open"}

VARIABLES
    epoch, size,    \* the log
    offset,         \* OFFSET_FILE: a number of units, or Empty while it is rewritten
    counters,       \* how often each line is in COUNTERS and PER_MODEL
    scrape,         \* program counter and local variables of every scrape
    shown,          \* history: the counters of the last answer since they were cleared
    before,         \* history: what had been shown when counters were lost or cleared
    torn,           \* history: a rewrite of the offset file was cut short
    written,        \* history: the epoch whose log the offset was taken from
    overlapped,     \* history: a scrape used what another was about to change
    excused,        \* history: the lines that no scrape may count any more
    recounted       \* history: the lines that were added to the counters by a scrape
                    \* that could not open the offset file to move past them

logVars == <<epoch, size>>
history == <<shown, before, torn, written, overlapped, excused, recounted>>
exporterVars == <<logVars, offset, counters, scrape, history>>

Empty == -1
Line == (0..MaxEpoch) \X (1..MaxLines)
NoLines == [l \in Line |-> 0]
Sum(f, g) == [l \in Line |-> f[l] + g[l]]

\* Units 2k - 1 and 2k are line k.
First(l) == 2 * l[2] - 1
Last(l) == 2 * l[2]

Idle == [pc |-> "idle", from |-> 0, to |-> 0, at |-> 0]

ExporterInit ==
    /\ epoch = 0 /\ size = 0
    /\ offset = 0           \* a file that does not exist reads as 0
    /\ counters = NoLines
    /\ scrape = [s \in Scrape |-> Idle]
    /\ shown = NoLines /\ before = NoLines
    /\ torn = FALSE /\ written = 0 /\ overlapped = FALSE
    /\ excused = {} /\ recounted = {}

-----------------------------------------------------------------------------
(* The log: the server appends, a start of the server truncates.            *)

Append ==
    /\ size < 2 * MaxLines
    /\ size' = size + 1
    /\ UNCHANGED <<epoch, offset, counters, scrape, history>>

Truncate ==
    /\ epoch < MaxEpoch
    /\ epoch' = epoch + 1
    /\ size' = 0
    /\ UNCHANGED <<offset, counters, scrape, history>>

-----------------------------------------------------------------------------
(* read_log, and the answer.                                                *)

Step(s, from, to) ==
    /\ scrape[s].pc = from
    /\ scrape' = [scrape EXCEPT ![s].pc = to]

\* read_log returns or raises, and its local variables are gone.
Leave(s, from, to) ==
    /\ scrape[s].pc = from
    /\ scrape' = [scrape EXCEPT ![s] = [Idle EXCEPT !.pc = to]]

\* Nothing locks read_log: another scrape is between reading the offset and
\* having written it.
InReadLog(s) == scrape[s].pc \in {"stat", "read", "count", "truncate", "write"}
Beside(s) == overlapped' = (overlapped \/ \E t \in Scrape \ {s} : InReadLog(t))

\* int(read_text()): an empty file is an error, answered as a comment.
ReadOffset(s) ==
    /\ IF offset = Empty
       THEN Step(s, "idle", "failed")
       ELSE /\ scrape[s].pc = "idle"
            /\ scrape' = [scrape EXCEPT ![s] = [Idle EXCEPT !.pc = "stat", !.from = offset]]
    /\ Beside(s)
    /\ UNCHANGED <<logVars, offset, counters, shown, before, torn, written, excused, recounted>>

\* The log is shorter than the offset: the counters restart with the file.
ClearCounters ==
    /\ counters' = NoLines
    /\ before' = Sum(before, shown)
    /\ shown' = NoLines

Stat(s) ==
    /\ scrape[s].pc = "stat"
    /\ IF size < scrape[s].from
       THEN /\ scrape' = [scrape EXCEPT ![s].pc = "read", ![s].from = 0]
            /\ ClearCounters
       ELSE /\ scrape' = [scrape EXCEPT ![s].pc = "read"]
            /\ UNCHANGED <<counters, before, shown>>
    /\ UNCHANGED <<logVars, offset, torn, written, overlapped, excused, recounted>>

\* Between a truncation and the first append the log may be missing altogether.
NoLog(s) ==
    /\ size = 0
    /\ Leave(s, "stat", "answer")
    /\ UNCHANGED <<logVars, offset, counters, history>>

\* The bytes from the offset to the end; nothing new, nothing to do.
ReadChunk(s) ==
    /\ IF size <= scrape[s].from
       THEN Leave(s, "read", "answer")
       ELSE /\ scrape[s].pc = "read"
            /\ scrape' = [scrape EXCEPT ![s].pc = "count", ![s].to = size, ![s].at = epoch]
    /\ UNCHANGED <<logVars, offset, counters, history>>

\* The lines of which the chunk holds a unit or two; those that it holds whole,
\* the one that it begins but does not end, and the one that it only ends.
Chunk(s) == {l \in Line : l[1] = scrape[s].at /\ Last(l) > scrape[s].from /\ First(l) <= scrape[s].to}
Whole(s) == {l \in Chunk(s) : First(l) > scrape[s].from /\ Last(l) <= scrape[s].to}
Cut(s) == {l \in Chunk(s) : First(l) > scrape[s].from /\ First(l) = scrape[s].to}
Tail(s) == {l \in Chunk(s) : First(l) = scrape[s].from}

\* Lines of the log's epoch that this scrape leaves behind the offset uncounted:
\* those cut by the end of the chunk, and those before an offset that was left
\* from a longer log.
Passed(s) == {l \in Line : l[1] = scrape[s].at /\ First(l) <= scrape[s].from}

\* A mutant: the line that the end of the read cuts is left out, and forgotten.
CountWholeOnly(s) ==
    /\ Step(s, "count", "truncate")
    /\ counters' = [l \in Line |-> counters[l] + (IF l \in Whole(s) THEN 1 ELSE 0)]
    /\ UNCHANGED <<logVars, offset, shown, before, torn, written, overlapped, excused, recounted>>

\* The patterns are searched for in whatever there is of a line: they may match in
\* the part that a read cut off, or else in the rest that the next one finds.
Count(s) ==
    /\ Step(s, "count", "truncate")
    /\ \E matched \in SUBSET (Cut(s) \cup {l \in Tail(s) : counters[l] + before[l] = 0}) :
        LET seen == Whole(s) \cup matched
        IN  /\ counters' = [l \in Line |-> counters[l] + (IF l \in seen THEN 1 ELSE 0)]
            /\ excused' = excused \cup (Cut(s) \ matched)
                              \cup {l \in Passed(s) \ matched : counters[l] + before[l] = 0}
    /\ UNCHANGED <<logVars, offset, shown, before, torn, written, overlapped, recounted>>

\* A mutant: nothing is written when the chunk ends inside a line.
EmptyOffsetAtLineEnd(s) ==
    /\ IF Cut(s) = {} THEN Step(s, "truncate", "write") ELSE Leave(s, "truncate", "answer")
    /\ offset' = IF Cut(s) = {} THEN Empty ELSE offset
    /\ UNCHANGED <<logVars, counters, history>>

\* A mutant: the file is emptied and the scrape answered.
EmptyOffsetOnly(s) ==
    /\ Leave(s, "truncate", "answer")
    /\ offset' = Empty
    /\ UNCHANGED <<logVars, counters, history>>

\* write_text: the file is emptied, then filled.
EmptyOffset(s) ==
    /\ Step(s, "truncate", "write")
    /\ offset' = Empty
    /\ UNCHANGED <<logVars, counters, history>>

WriteOffset(s) ==
    /\ Leave(s, "write", "answer")
    /\ offset' = scrape[s].to
    /\ written' = scrape[s].at
    /\ UNCHANGED <<logVars, counters, shown, before, torn, overlapped, excused, recounted>>

\* The disk is full: the scrape fails and the file stays empty.
WriteFails(s) ==
    /\ "full" \in Faults
    /\ Leave(s, "write", "failed")
    /\ torn' = TRUE
    /\ UNCHANGED <<logVars, offset, counters, shown, before, written, overlapped, excused, recounted>>

\* The log, or the offset file when it is to be written, cannot be opened: the scrape
\* is answered with the error and the offset file stays as it was, though the lines
\* may be in the counters already.  (Before it has read the offset, this changes
\* nothing at all.)
OpenFails(s) ==
    /\ "open" \in Faults
    /\ \E from \in {"stat", "read", "truncate"} : Leave(s, from, "idle")
    /\ recounted' = IF scrape[s].pc = "truncate" THEN recounted \cup Chunk(s) ELSE recounted
    /\ UNCHANGED <<logVars, offset, counters, shown, before, torn, written, overlapped, excused>>

\* render: the rest of the answer is read from files that are read anew each time.
Answer(s) ==
    /\ scrape[s].pc = "answer"
    /\ scrape' = [scrape EXCEPT ![s] = Idle]
    /\ shown' = counters
    /\ Beside(s)
    /\ UNCHANGED <<logVars, offset, counters, before, torn, written, excused, recounted>>

\* render walks through dictionaries to which another scrape adds keys.
RenderRaises(s) ==
    /\ \E t \in Scrape \ {s} : scrape[t].pc \in {"stat", "count"}
    /\ Step(s, "answer", "failed")
    /\ Beside(s)
    /\ UNCHANGED <<logVars, offset, counters, shown, before, torn, written, excused, recounted>>

AnswerError(s) ==
    /\ scrape[s].pc = "failed"
    /\ scrape' = [scrape EXCEPT ![s] = Idle]
    /\ UNCHANGED <<logVars, offset, counters, history>>

\* The exporter dies and is started again: only the offset file survives.
Restart ==
    /\ "crash" \in Faults
    /\ scrape' = [s \in Scrape |-> Idle]
    /\ ClearCounters
    /\ torn' = (torn \/ \E s \in Scrape : scrape[s].pc = "write")
    /\ excused' = excused \cup {l \in Line : counters[l] > shown[l]}
    /\ UNCHANGED <<logVars, offset, written, overlapped, recounted>>

ExporterNext ==
    \/ Append
    \/ Truncate
    \/ \E s \in Scrape : \/ ReadOffset(s) \/ Stat(s) \/ NoLog(s) \/ ReadChunk(s) \/ Count(s)
                         \/ EmptyOffset(s) \/ WriteOffset(s) \/ WriteFails(s)
                         \/ OpenFails(s) \/ Answer(s) \/ RenderRaises(s) \/ AnswerError(s)
    \/ Restart

ExporterSpec == ExporterInit /\ [][ExporterNext]_exporterVars

-----------------------------------------------------------------------------
\* Over all lives of the exporter and all epochs of the log, no line is counted
\* twice in what the scrapes were answered, as long as scrapes did not overlap.
\* The lines that are, are those of a chunk after which the offset file could not
\* be opened: it still says where that chunk began.
CountedOnce == overlapped \/ \A l \in Line \ recounted : before[l] + shown[l] <= 1

\* A scrape whose own files could be opened fails only when scrapes overlapped, or
\* a rewrite of the offset file was cut short before: not after a crash elsewhere,
\* nor after a scrape that found a file it could not open.
FailsOnlyWhenTorn == \A s \in Scrape : scrape[s].pc = "failed" => torn \/ overlapped

\* As long as scrapes did not overlap, a line of the present log that lies before
\* the persisted offset is in the counters of some life, or it is one of the few
\* that are known to be lost: cut by the end of a read, counted by a life that
\* died before it answered, or before an offset that was left from a longer log.
LossIsKnown ==
    \A l \in Line : l[1] = epoch /\ written = epoch /\ Last(l) <= offset =>
        \/ overlapped
        \/ counters[l] + before[l] > 0
        \/ l \in excused
=============================================================================
