--------------------------- MODULE LogExporterProofs ---------------------------
(***************************************************************************)
(* What the exporter's counters are worth, for any number of scrapes, any  *)
(* length of log and any crash: as long as scrapes did not overlap, no     *)
(* line is counted twice, but for those of a chunk past which the offset   *)
(* could not be moved, and every loss is of a known kind.                  *)
(*                                                                         *)
(* The argument is about positions.  The offset in the file is a position  *)
(* in the log of the epoch it was taken from, and every line that was ever *)
(* counted lies before it; a scrape that has counted but not yet written   *)
(* the offset has moved that position to the end of its chunk, and nothing *)
(* of what it counted has been answered.  A read from 0 begins in an epoch *)
(* of which nothing was counted.                                           *)
(***************************************************************************)
EXTENDS LogExporter, TLAPS

ScrapeState ==
    [pc : {"idle", "stat", "read", "count", "truncate", "write", "answer", "failed"},
     from : Nat, to : Nat, at : Nat]

ExporterTypeOK ==
    /\ epoch \in 0 .. MaxEpoch /\ size \in Nat
    /\ offset \in Nat \cup {Empty}
    /\ counters \in [Line -> Nat]
    /\ scrape \in [Scrape -> ScrapeState]
    /\ shown \in [Line -> Nat] /\ before \in [Line -> Nat]
    /\ torn \in BOOLEAN /\ written \in Nat /\ overlapped \in BOOLEAN
    /\ excused \subseteq Line /\ recounted \subseteq Line

\* The offset file is empty while it is rewritten, or for good.
EmptyOK ==
    /\ offset = Empty => torn \/ \E s \in Scrape : scrape[s].pc = "write"
    /\ FailsOnlyWhenTorn

Counted(l) == before[l] + counters[l]

\* Line l begins before position o of the log of epoch e.
Reached(l, e, o) == l[1] < e \/ (l[1] = e /\ First(l) <= o)

HasCounted(s) == scrape[s].pc \in {"truncate", "write"}

\* How a scrape inside read_log stands to the log and to the offset file.
ReaderOK(s) ==
    LET r == scrape[s]
    IN  /\ r.pc \in {"stat", "read", "count", "truncate"} => offset # Empty
        /\ r.pc = "write" => offset = Empty
        /\ r.pc = "stat" => r.from = offset
        /\ r.pc = "read" => r.from = offset \/ written < epoch
        /\ r.pc \in {"count", "truncate", "write"} =>
            /\ written <= r.at /\ r.at <= epoch
            /\ r.from < r.to
            /\ r.at = epoch => r.to <= size
        /\ r.pc = "count" => r.from = offset \/ written < r.at

ReadersOK ==
    /\ \A s, t \in Scrape : InReadLog(s) /\ InReadLog(t) => s = t
    /\ \A s \in Scrape : ReaderOK(s)
    /\ written <= epoch
    /\ written = epoch => offset <= size

\* Of the lines that are not to be counted again: none is counted twice, and what
\* is counted lies before the offset, or in the chunk that is being added.
CountsOK ==
    \A l \in Line :
        /\ shown[l] <= counters[l]
        /\ l \notin recounted =>
            /\ Counted(l) <= 1
            /\ offset # Empty /\ before[l] + shown[l] > 0 => Reached(l, written, offset)
            /\ offset # Empty /\ Counted(l) > 0 =>
                Reached(l, written, offset) \/ \E s \in Scrape : HasCounted(s) /\ l \in Chunk(s)
            /\ Counted(l) > 0 =>
                \A s \in Scrape : HasCounted(s) => Reached(l, scrape[s].at, scrape[s].to)

\* A line before the offset is counted or excused, and so is one before the end
\* of the chunk that is being added.
LossesOK ==
    \A l \in Line :
        /\ l[1] = epoch /\ written = epoch /\ Last(l) <= offset => Counted(l) > 0 \/ l \in excused
        /\ \A s \in Scrape : HasCounted(s) /\ l[1] = scrape[s].at /\ Last(l) <= scrape[s].to =>
            Counted(l) > 0 \/ l \in excused

SoloInv == ReadersOK /\ CountsOK /\ LossesOK

ExporterInv == ExporterTypeOK /\ EmptyOK /\ (~overlapped => SoloInv)

-----------------------------------------------------------------------------
LEMMA Positions ==
    ASSUME NEW l \in Line
    PROVE  l[1] \in 0 .. MaxEpoch /\ l[1] \in Nat /\ First(l) \in Nat /\ Last(l) = First(l) + 1 /\ First(l) >= 1
BY MaxLinesAssumption, MaxEpochAssumption DEF Line, First, Last

\* The state of a scrape that has left read_log.
Ended(pc) == [pc |-> pc, from |-> 0, to |-> 0, at |-> 0]

LEMMA LeaveEnds ==
    ASSUME NEW s \in Scrape, NEW from, NEW to, Leave(s, from, to)
    PROVE  scrape[s].pc = from /\ scrape' = [scrape EXCEPT ![s] = Ended(to)]
<1>1. [Idle EXCEPT !.pc = to] = Ended(to)
    BY DEF Idle, Ended
<1> QED
    BY <1>1 DEF Leave

LEMMA ExporterStarts == ExporterInit => ExporterInv
<1> SUFFICES ASSUME ExporterInit PROVE ExporterInv
    OBVIOUS
<1> USE DEF ExporterInit, NoLines, Idle, Empty
<1>1. ExporterTypeOK
    <2>1. 0 \in 0 .. MaxEpoch
        BY MaxEpochAssumption
    <2>2. scrape \in [Scrape -> ScrapeState]
        BY DEF ScrapeState
    <2>3. NoLines \in [Line -> Nat]
        OBVIOUS
    <2> QED
        BY <2>1, <2>2, <2>3 DEF ExporterTypeOK
<1>2. EmptyOK
    BY DEF EmptyOK, FailsOnlyWhenTorn
<1>3. ReadersOK
    BY DEF ReadersOK, ReaderOK, InReadLog
<1>4. CountsOK /\ LossesOK
    BY Positions DEF CountsOK, LossesOK, Counted, HasCounted
<1> QED
    BY <1>1, <1>2, <1>3, <1>4 DEF ExporterInv, SoloInv

\* The server appends or truncates.
LEMMA LogSteps ==
    ASSUME ExporterInv, Append \/ Truncate
    PROVE  ExporterInv'
<1> USE DEF ExporterInv, Append, Truncate, history
<1>1. ExporterTypeOK'
    BY MaxEpochAssumption DEF ExporterTypeOK
<1>2. EmptyOK'
    BY DEF EmptyOK, FailsOnlyWhenTorn
<1>3. ASSUME ~overlapped'
      PROVE  SoloInv'
    <2>1. epoch \in Nat /\ size \in Nat
        BY MaxEpochAssumption DEF ExporterTypeOK
    <2>2. /\ UNCHANGED <<offset, counters, scrape, shown, before, written, excused, recounted>>
          /\ SoloInv
          /\ \/ epoch' = epoch /\ size' = size + 1
             \/ epoch' = epoch + 1 /\ size' = 0
        BY <1>3
    <2>3. ReadersOK'
        <3>1. \A s \in Scrape : /\ scrape[s].at \in Nat /\ scrape[s].to \in Nat
                                /\ ReaderOK(s)
            BY <2>2 DEF SoloInv, ReadersOK, ExporterTypeOK, ScrapeState
        <3>2. \A s \in Scrape : ReaderOK(s)'
            BY <2>1, <2>2, <3>1 DEF ReaderOK, ExporterTypeOK
        <3> QED
            BY <2>1, <2>2, <3>2 DEF SoloInv, ReadersOK, InReadLog, ExporterTypeOK, Empty
    <2>4. CountsOK'
        BY <2>2 DEF SoloInv, CountsOK, Counted, HasCounted, Reached, Chunk
    <2>5. LossesOK'
        BY <2>1, <2>2, Positions DEF SoloInv, ReadersOK, LossesOK, Counted, HasCounted, ExporterTypeOK
    <2> QED
        BY <2>3, <2>4, <2>5 DEF SoloInv
<1> QED
    BY <1>1, <1>2, <1>3

\* Scrape s moves, neither past Count nor back from there, and counts nothing.
LEMMA BesideCounts ==
    ASSUME ExporterTypeOK, SoloInv, NEW s \in Scrape,
           UNCHANGED <<logVars, offset, counters, shown, before, written, excused, recounted>>,
           scrape' \in [Scrape -> ScrapeState],
           \A t \in Scrape : t # s => scrape'[t] = scrape[t],
           ~HasCounted(s), ~HasCounted(s)'
    PROVE  CountsOK' /\ LossesOK'
<1>1. \A t \in Scrape : /\ HasCounted(t)' <=> HasCounted(t)
                        /\ HasCounted(t) => scrape'[t] = scrape[t]
    BY DEF HasCounted
<1>2. CountsOK'
    BY <1>1 DEF SoloInv, CountsOK, Counted, Reached, Chunk
<1>3. LossesOK'
    BY <1>1 DEF SoloInv, LossesOK, Counted, logVars
<1> QED
    BY <1>2, <1>3

LEMMA ReadOffsetStep ==
    ASSUME ExporterInv, NEW s \in Scrape, ReadOffset(s)
    PROVE  ExporterInv'
<1> USE DEF ExporterInv
<1>1. /\ scrape[s].pc = "idle"
      /\ \/ /\ offset = Empty
            /\ scrape' = [scrape EXCEPT ![s].pc = "failed"]
         \/ /\ offset # Empty
            /\ scrape' = [scrape EXCEPT ![s] = [pc |-> "stat", from |-> offset, to |-> 0, at |-> 0]]
      /\ Beside(s)
      /\ UNCHANGED <<logVars, offset, counters, shown, before, torn, written, excused, recounted>>
    BY DEF ReadOffset, Step, Idle
<1>2. /\ scrape' \in [Scrape -> ScrapeState]
      /\ \A t \in Scrape : t # s => scrape'[t] = scrape[t]
      /\ IF offset = Empty THEN scrape'[s].pc = "failed"
         ELSE scrape'[s].pc = "stat" /\ scrape'[s].from = offset
    BY <1>1 DEF ExporterTypeOK, ScrapeState
<1>3. ExporterTypeOK'
    BY <1>1, <1>2 DEF ExporterTypeOK, Beside, logVars
<1>4. EmptyOK'
    <2>1. offset = Empty => torn \/ \E t \in Scrape \ {s} : scrape[t].pc = "write"
        BY <1>1 DEF EmptyOK
    <2>2. offset = Empty => torn' \/ overlapped'
        BY <1>1, <2>1 DEF Beside, InReadLog
    <2> QED
        BY <1>1, <1>2, <2>1, <2>2 DEF EmptyOK, FailsOnlyWhenTorn, Beside
<1>5. ASSUME ~overlapped'
      PROVE  SoloInv'
    <2>1. SoloInv /\ \A t \in Scrape : t # s => ~InReadLog(t)
        BY <1>1, <1>5 DEF Beside
    <2>2. ReadersOK'
        BY <1>1, <1>2, <2>1 DEF SoloInv, ReadersOK, ReaderOK, InReadLog, logVars
    <2> QED
        BY <1>1, <1>2, <2>1, <2>2, BesideCounts DEF SoloInv, HasCounted
<1> QED
    BY <1>3, <1>4, <1>5

LEMMA StatStep ==
    ASSUME ExporterInv, NEW s \in Scrape, Stat(s)
    PROVE  ExporterInv'
<1> USE DEF ExporterInv
<1>1. scrape[s].pc = "stat" /\ UNCHANGED <<logVars, offset, torn, written, overlapped, excused, recounted>>
    BY DEF Stat
<1>2. CASE size >= scrape[s].from
    <2>1. scrape' = [scrape EXCEPT ![s].pc = "read"] /\ UNCHANGED <<counters, before, shown>>
        BY <1>2 DEF Stat, ExporterTypeOK, ScrapeState
    <2>2. /\ scrape' \in [Scrape -> ScrapeState]
          /\ \A t \in Scrape : t # s => scrape'[t] = scrape[t]
          /\ scrape'[s].pc = "read" /\ scrape'[s].from = scrape[s].from
        BY <2>1 DEF ExporterTypeOK, ScrapeState
    <2>3. ExporterTypeOK' /\ EmptyOK'
        BY <1>1, <2>1, <2>2 DEF ExporterTypeOK, EmptyOK, FailsOnlyWhenTorn, logVars
    <2>4. ASSUME ~overlapped'
          PROVE  SoloInv'
        <3>1. ReadersOK'
            BY <1>1, <2>1, <2>2, <2>4 DEF SoloInv, ReadersOK, ReaderOK, InReadLog, logVars
        <3> QED
            BY <1>1, <2>1, <2>2, <2>4, <3>1, BesideCounts DEF SoloInv, HasCounted
    <2> QED
        BY <2>3, <2>4
<1>3. CASE size < scrape[s].from
    <2>1. scrape' = [scrape EXCEPT ![s].pc = "read", ![s].from = 0] /\ ClearCounters
        BY <1>3 DEF Stat
    <2>2. /\ scrape' \in [Scrape -> ScrapeState]
          /\ \A t \in Scrape : t # s => scrape'[t] = scrape[t]
          /\ scrape'[s].pc = "read" /\ scrape'[s].from = 0
        BY <2>1 DEF ExporterTypeOK, ScrapeState
    <2>3. /\ counters' \in [Line -> Nat] /\ shown' \in [Line -> Nat] /\ before' \in [Line -> Nat]
          /\ \A l \in Line : counters'[l] = 0 /\ shown'[l] = 0 /\ before'[l] = before[l] + shown[l]
        BY <2>1 DEF ClearCounters, NoLines, Sum, ExporterTypeOK
    <2>4. ExporterTypeOK' /\ EmptyOK'
        BY <1>1, <2>2, <2>3 DEF ExporterTypeOK, EmptyOK, FailsOnlyWhenTorn, logVars
    <2>5. ASSUME ~overlapped'
          PROVE  SoloInv'
        <3>1. SoloInv /\ \A t \in Scrape : ~HasCounted(t) /\ ~HasCounted(t)'
            BY <1>1, <2>2, <2>5 DEF SoloInv, ReadersOK, InReadLog, HasCounted
        <3>2. written < epoch
            BY <1>1, <1>3, <3>1, MaxEpochAssumption DEF SoloInv, ReadersOK, ReaderOK, ExporterTypeOK, Empty
        <3>3. ReadersOK'
            BY <1>1, <2>2, <3>1, <3>2 DEF SoloInv, ReadersOK, ReaderOK, InReadLog, logVars
        <3>4. CountsOK'
            BY <1>1, <2>3, <3>1 DEF SoloInv, CountsOK, Counted, Reached, ExporterTypeOK
        <3>5. LossesOK'
            BY <1>1, <3>1, <3>2, MaxEpochAssumption DEF LossesOK, ExporterTypeOK, logVars
        <3> QED
            BY <3>3, <3>4, <3>5 DEF SoloInv
    <2> QED
        BY <2>4, <2>5
<1>4. size \in Nat /\ scrape[s].from \in Nat
    BY DEF ExporterTypeOK, ScrapeState
<1> QED
    BY <1>2, <1>3, <1>4

\* The steps of one scrape that touch neither the counters nor the offset file,
\* and neither begin a read nor count.
LEMMA PlainStep ==
    ASSUME ExporterInv, NEW s \in Scrape,
           scrape' \in [Scrape -> ScrapeState],
           \A t \in Scrape : t # s => scrape'[t] = scrape[t],
           scrape'[s].pc \in {"idle", "count", "answer", "failed"},
           scrape[s].pc \in {"stat", "read", "answer", "failed"},
           scrape'[s].pc = "failed" => torn' \/ overlapped',
           scrape'[s].pc = "count" =>
                /\ scrape[s].pc = "read" /\ scrape'[s].from = scrape[s].from
                /\ scrape'[s].from < size /\ scrape'[s].to = size /\ scrape'[s].at = epoch,
           overlapped' \in BOOLEAN, overlapped => overlapped',
           UNCHANGED <<logVars, offset, counters, shown, before, torn, written, excused, recounted>>
    PROVE  ExporterInv'
<1> USE DEF ExporterInv
<1>1. ExporterTypeOK'
    BY DEF ExporterTypeOK, logVars
<1>2. EmptyOK'
    BY DEF EmptyOK, FailsOnlyWhenTorn
<1>3. ASSUME ~overlapped'
      PROVE  SoloInv'
    <2>1. SoloInv
        BY <1>3
    <2>2. ReadersOK'
        BY <2>1, MaxEpochAssumption DEF SoloInv, ReadersOK, ReaderOK, InReadLog, logVars, ExporterTypeOK
    <2>3. CountsOK' /\ LossesOK'
        BY <2>1, BesideCounts DEF HasCounted
    <2> QED
        BY <2>2, <2>3 DEF SoloInv
<1> QED
    BY <1>1, <1>2, <1>3

LEMMA PlainSteps ==
    ASSUME ExporterInv, NEW s \in Scrape, NoLog(s) \/ ReadChunk(s) \/ RenderRaises(s) \/ AnswerError(s)
    PROVE  ExporterInv'
<1>0. ExporterTypeOK /\ overlapped \in BOOLEAN /\ size \in Nat /\ epoch \in Nat
    BY MaxEpochAssumption DEF ExporterInv, ExporterTypeOK
<1>1. CASE NoLog(s)
    <2>1. /\ scrape[s].pc = "stat" /\ scrape' = [scrape EXCEPT ![s] = Ended("answer")]
          /\ UNCHANGED <<logVars, offset, counters, history>>
        BY <1>1, LeaveEnds DEF NoLog
    <2>2. /\ scrape' \in [Scrape -> ScrapeState] /\ scrape'[s].pc = "answer"
          /\ \A t \in Scrape : t # s => scrape'[t] = scrape[t]
        BY <1>0, <2>1 DEF ExporterTypeOK, ScrapeState, Ended
    <2> QED
        BY <1>0, <2>1, <2>2, PlainStep DEF history
<1>2. CASE ReadChunk(s)
    <2>0. scrape[s].from \in Nat /\ UNCHANGED <<logVars, offset, counters, history>>
        BY <1>0, <1>2 DEF ReadChunk, ExporterTypeOK, ScrapeState
    <2>1. CASE size <= scrape[s].from
        <3>1. scrape[s].pc = "read" /\ scrape' = [scrape EXCEPT ![s] = Ended("answer")]
            BY <1>2, <2>1, LeaveEnds DEF ReadChunk
        <3>2. /\ scrape' \in [Scrape -> ScrapeState] /\ scrape'[s].pc = "answer"
              /\ \A t \in Scrape : t # s => scrape'[t] = scrape[t]
            BY <1>0, <3>1 DEF ExporterTypeOK, ScrapeState, Ended
        <3> QED
            BY <1>0, <2>0, <3>1, <3>2, PlainStep DEF history
    <2>2. CASE ~(size <= scrape[s].from)
        <3>1. /\ scrape[s].pc = "read"
              /\ scrape' = [scrape EXCEPT ![s].pc = "count", ![s].to = size, ![s].at = epoch]
            BY <1>2, <2>2 DEF ReadChunk
        <3>2. /\ scrape' \in [Scrape -> ScrapeState] /\ scrape'[s].pc = "count"
              /\ scrape'[s].from = scrape[s].from /\ scrape'[s].to = size /\ scrape'[s].at = epoch
              /\ \A t \in Scrape : t # s => scrape'[t] = scrape[t]
            BY <1>0, <3>1 DEF ExporterTypeOK, ScrapeState
        <3> QED
            BY <1>0, <2>0, <2>2, <3>1, <3>2, PlainStep DEF history
    <2> QED
        BY <2>1, <2>2
<1>3. CASE RenderRaises(s)
    <2>1. /\ scrape[s].pc = "answer" /\ scrape' = [scrape EXCEPT ![s].pc = "failed"]
          /\ overlapped' = TRUE
          /\ UNCHANGED <<logVars, offset, counters, shown, before, torn, written, excused, recounted>>
        BY <1>3 DEF RenderRaises, Step, Beside, InReadLog
    <2>2. /\ scrape' \in [Scrape -> ScrapeState] /\ scrape'[s].pc = "failed"
          /\ \A t \in Scrape : t # s => scrape'[t] = scrape[t]
        BY <1>0, <2>1 DEF ExporterTypeOK, ScrapeState
    <2> QED
        BY <1>0, <2>1, <2>2, PlainStep
<1>4. CASE AnswerError(s)
    <2>1. /\ scrape[s].pc = "failed" /\ scrape' = [scrape EXCEPT ![s] = Idle]
          /\ UNCHANGED <<logVars, offset, counters, history>>
        BY <1>4 DEF AnswerError
    <2>2. /\ scrape' \in [Scrape -> ScrapeState] /\ scrape'[s].pc = "idle"
          /\ \A t \in Scrape : t # s => scrape'[t] = scrape[t]
        BY <1>0, <2>1 DEF ExporterTypeOK, ScrapeState, Idle
    <2> QED
        BY <1>0, <2>1, <2>2, PlainStep DEF history
<1> QED
    BY <1>1, <1>2, <1>3, <1>4

LEMMA CountStep ==
    ASSUME ExporterInv, NEW s \in Scrape, Count(s)
    PROVE  ExporterInv'
<1> USE DEF ExporterInv
<1>1. /\ scrape[s].pc = "count" /\ scrape' = [scrape EXCEPT ![s].pc = "truncate"]
      /\ UNCHANGED <<logVars, offset, shown, before, torn, written, overlapped, recounted>>
    BY DEF Count, Step
<1>2. PICK matched \in SUBSET (Cut(s) \cup {l \in Tail(s) : counters[l] + before[l] = 0}) :
        /\ counters' = [l \in Line |-> counters[l] + (IF l \in Whole(s) \cup matched THEN 1 ELSE 0)]
        /\ excused' = excused \cup (Cut(s) \ matched)
                          \cup {l \in Passed(s) \ matched : counters[l] + before[l] = 0}
    BY DEF Count
<1>3. /\ scrape' \in [Scrape -> ScrapeState]
      /\ scrape'[s].pc = "truncate" /\ scrape'[s].from = scrape[s].from
      /\ scrape'[s].to = scrape[s].to /\ scrape'[s].at = scrape[s].at
      /\ \A t \in Scrape : t # s => scrape'[t] = scrape[t]
    BY <1>1 DEF ExporterTypeOK, ScrapeState
<1> DEFINE seen == Whole(s) \cup matched
<1>4. /\ seen \subseteq Line /\ Cut(s) \subseteq Line /\ Passed(s) \subseteq Line
      /\ \A l \in seen : First(l) > scrape[s].from \/ counters[l] + before[l] = 0
      /\ \A l \in seen : l \in Chunk(s) /\ l[1] = scrape[s].at /\ First(l) <= scrape[s].to
      /\ \A l \in Line : l[1] = scrape[s].at /\ First(l) > scrape[s].from /\ Last(l) <= scrape[s].to => l \in seen
      /\ \A l \in Line : l[1] = scrape[s].at /\ First(l) <= scrape[s].from => l \in Passed(s)
    <2>1. scrape[s].from \in Nat /\ scrape[s].to \in Nat
        BY DEF ExporterTypeOK, ScrapeState
    <2> QED
        BY <1>2, <2>1, Positions DEF Chunk, Whole, Cut, Tail, Passed
<1>5. /\ counters' \in [Line -> Nat]
      /\ \A l \in Line : counters'[l] = counters[l] + (IF l \in seen THEN 1 ELSE 0)
    BY <1>2 DEF ExporterTypeOK
<1>6. excused \subseteq excused' /\ excused' \subseteq Line
    BY <1>2, <1>4 DEF ExporterTypeOK
<1>7. ExporterTypeOK' /\ EmptyOK'
    BY <1>1, <1>3, <1>5, <1>6 DEF ExporterTypeOK, EmptyOK, FailsOnlyWhenTorn, logVars
<1> HIDE DEF seen
<1>8. ASSUME ~overlapped'
      PROVE  SoloInv'
    <2>1. SoloInv
        BY <1>1, <1>8
    <2>2. ReadersOK'
        BY <1>1, <1>3, <2>1 DEF SoloInv, ReadersOK, ReaderOK, InReadLog, logVars
    <2>3. /\ \A t \in Scrape : ~HasCounted(t)
          /\ \A t \in Scrape : HasCounted(t)' => t = s
        BY <1>1, <1>3, <2>1 DEF SoloInv, ReadersOK, InReadLog, HasCounted
    <2>4. /\ offset # Empty /\ offset \in Nat /\ written <= scrape[s].at
          /\ scrape[s].from < scrape[s].to
          /\ scrape[s].from = offset \/ written < scrape[s].at
          /\ scrape[s].from \in Nat /\ scrape[s].to \in Nat /\ scrape[s].at \in Nat /\ written \in Nat
        BY <1>1, <2>1 DEF SoloInv, ReadersOK, ReaderOK, ExporterTypeOK, ScrapeState
    <2>5. ASSUME NEW l \in Line
          PROVE  /\ counters[l] \in Nat /\ before[l] \in Nat /\ shown[l] \in Nat
                 /\ shown[l] <= counters[l]
                 /\ Counted(l)' = Counted(l) + (IF l \in seen THEN 1 ELSE 0)
                 /\ l \notin recounted =>
                    /\ Counted(l) <= 1
                    /\ before[l] + shown[l] > 0 => Reached(l, written, offset)
                    /\ Counted(l) > 0 => Reached(l, written, offset)
        BY <1>1, <1>5, <2>1, <2>3, <2>4 DEF SoloInv, CountsOK, Counted, ExporterTypeOK
    <2>6. \A l \in seen : l \notin recounted => Counted(l) = 0
        BY <1>4, <2>4, <2>5, Positions DEF Reached, Counted
    <2>7. CountsOK'
        <3>0. HasCounted(s)' /\ Chunk(s)' = Chunk(s) /\ recounted' = recounted
            BY <1>1, <1>3 DEF HasCounted, Chunk
        <3>1. ASSUME NEW l \in Line
              PROVE  shown'[l] <= counters'[l] /\ (l \notin recounted => Counted(l)' <= 1)
            BY <1>1, <1>5, <2>5, <2>6 DEF Counted
        <3>2. ASSUME NEW l \in Line, l \notin recounted, Counted(l)' > 0
              PROVE  /\ \A t \in Scrape : HasCounted(t)' => Reached(l, scrape'[t].at, scrape'[t].to)
                     /\ Reached(l, written, offset) \/ l \in Chunk(s)
            <4>1. CASE l \in seen
                BY <1>3, <1>4, <2>3, <4>1 DEF Reached
            <4>2. CASE l \notin seen
                <5>1. Reached(l, written, offset)
                    BY <2>5, <3>2, <4>2 DEF Counted
                <5>2. Reached(l, scrape[s].at, scrape[s].to)
                    BY <2>4, <5>1, Positions DEF Reached
                <5> QED
                    BY <1>3, <2>3, <5>1, <5>2
            <4> QED
                BY <4>1, <4>2
        <3> QED
            BY <1>1, <2>5, <3>0, <3>1, <3>2 DEF CountsOK, Reached
    <2>8. LossesOK'
        <3>1. ASSUME NEW l \in Line, Counted(l) > 0 \/ l \in excused
              PROVE  Counted(l)' > 0 \/ l \in excused'
            BY <1>6, <2>5, <3>1 DEF Counted
        <3>2. ASSUME NEW l \in Line, l[1] = scrape[s].at, Last(l) <= scrape[s].to
              PROVE  Counted(l)' > 0 \/ l \in excused'
            <4>1. CASE First(l) > scrape[s].from
                BY <1>4, <2>5, <3>2, <4>1 DEF Counted
            <4>2. CASE First(l) <= scrape[s].from
                <5>1. CASE Counted(l) > 0
                    BY <3>1, <5>1
                <5>2. CASE ~(Counted(l) > 0)
                    <6>1. counters[l] + before[l] = 0 /\ l \in Passed(s)
                        BY <1>4, <2>5, <3>2, <4>2, <5>2 DEF Counted
                    <6>2. l \in matched => Counted(l)' > 0
                        BY <2>5 DEF seen, Counted
                    <6> QED
                        BY <1>2, <6>1, <6>2
                <5> QED
                    BY <5>1, <5>2
            <4> QED
                BY <2>4, <4>1, <4>2, Positions
        <3> QED
            BY <1>1, <1>3, <2>1, <2>3, <3>1, <3>2 DEF SoloInv, LossesOK, logVars
    <2> QED
        BY <2>2, <2>7, <2>8 DEF SoloInv
<1> QED
    BY <1>7, <1>8

\* The rewrite of the offset file: emptied, then filled or not.
LEMMA RewriteSteps ==
    ASSUME ExporterInv, NEW s \in Scrape, EmptyOffset(s) \/ WriteOffset(s) \/ WriteFails(s)
    PROVE  ExporterInv'
<1> USE DEF ExporterInv
<1>0. /\ scrape[s].to \in Nat /\ scrape[s].at \in Nat /\ written \in Nat /\ epoch \in Nat /\ size \in Nat
      /\ scrape \in [Scrape -> ScrapeState]
    BY MaxEpochAssumption DEF ExporterTypeOK, ScrapeState
<1>1. CASE EmptyOffset(s)
    <2>1. /\ scrape[s].pc = "truncate" /\ scrape' = [scrape EXCEPT ![s].pc = "write"] /\ offset' = Empty
          /\ UNCHANGED <<logVars, counters, history>>
        BY <1>1 DEF EmptyOffset, Step
    <2>2. /\ scrape' \in [Scrape -> ScrapeState]
          /\ scrape'[s].pc = "write" /\ scrape'[s].from = scrape[s].from
          /\ scrape'[s].to = scrape[s].to /\ scrape'[s].at = scrape[s].at
          /\ \A t \in Scrape : t # s => scrape'[t] = scrape[t]
        BY <1>0, <2>1 DEF ScrapeState
    <2>3. ExporterTypeOK' /\ EmptyOK'
        BY <2>1, <2>2 DEF ExporterTypeOK, EmptyOK, FailsOnlyWhenTorn, logVars, history
    <2>4. ASSUME ~overlapped'
          PROVE  SoloInv'
        <3>1. SoloInv
            BY <2>1, <2>4 DEF history
        <3>2. /\ \A t \in Scrape : InReadLog(t) => t = s
              /\ \A t \in Scrape : /\ HasCounted(t)' <=> HasCounted(t)
                                   /\ HasCounted(t) => /\ scrape'[t].at = scrape[t].at
                                                       /\ scrape'[t].to = scrape[t].to
                                                       /\ scrape'[t].from = scrape[t].from
            BY <2>1, <2>2, <3>1 DEF SoloInv, ReadersOK, InReadLog, HasCounted
        <3>3. ReadersOK'
            BY <1>0, <2>1, <2>2, <3>1, <3>2 DEF SoloInv, ReadersOK, ReaderOK, InReadLog, logVars, history, Empty
        <3>4. CountsOK'
            BY <2>1, <3>1, <3>2 DEF SoloInv, CountsOK, Counted, Reached, Chunk, history
        <3>5. LossesOK'
            BY <2>1, <3>1, <3>2, Positions DEF SoloInv, LossesOK, Counted, logVars, history, Empty
        <3> QED
            BY <3>3, <3>4, <3>5 DEF SoloInv
    <2> QED
        BY <2>3, <2>4
<1>2. CASE WriteOffset(s)
    <2>1. /\ scrape[s].pc = "write" /\ scrape' = [scrape EXCEPT ![s] = Ended("answer")]
          /\ offset' = scrape[s].to /\ written' = scrape[s].at
          /\ UNCHANGED <<logVars, counters, shown, before, torn, overlapped, excused, recounted>>
        BY <1>2, LeaveEnds DEF WriteOffset
    <2>2. /\ scrape' \in [Scrape -> ScrapeState] /\ scrape'[s].pc = "answer"
          /\ \A t \in Scrape : t # s => scrape'[t] = scrape[t]
        BY <1>0, <2>1 DEF ScrapeState, Ended
    <2>3. ExporterTypeOK' /\ EmptyOK'
        BY <1>0, <2>1, <2>2 DEF ExporterTypeOK, EmptyOK, FailsOnlyWhenTorn, logVars, Empty
    <2>4. ASSUME ~overlapped'
          PROVE  SoloInv'
        <3>1. SoloInv
            BY <2>1, <2>4
        <3>2. /\ HasCounted(s)
              /\ \A t \in Scrape : ~InReadLog(t)' /\ ~HasCounted(t)'
            BY <2>1, <2>2, <3>1 DEF SoloInv, ReadersOK, InReadLog, HasCounted
        <3>3. ReadersOK'
            BY <1>0, <2>1, <2>2, <3>1, <3>2 DEF SoloInv, ReadersOK, ReaderOK, InReadLog, logVars
        <3>4. CountsOK'
            <4>1. \A l \in Line : /\ counters[l] \in Nat /\ before[l] \in Nat /\ shown[l] \in Nat
                                  /\ shown[l] <= counters[l]
                                  /\ l \notin recounted =>
                                        /\ Counted(l) <= 1
                                        /\ Counted(l) > 0 => Reached(l, scrape[s].at, scrape[s].to)
                BY <3>1, <3>2 DEF SoloInv, CountsOK, ExporterTypeOK
            <4>2. \A l \in Line : before[l] + shown[l] > 0 => Counted(l) > 0
                BY <4>1 DEF Counted
            <4> QED
                BY <2>1, <3>2, <4>1, <4>2 DEF CountsOK, Counted, Reached
        <3>5. LossesOK'
            BY <2>1, <3>1, <3>2 DEF SoloInv, LossesOK, Counted, logVars
        <3> QED
            BY <3>3, <3>4, <3>5 DEF SoloInv
    <2> QED
        BY <2>3, <2>4
<1>3. CASE WriteFails(s)
    <2>1. /\ scrape[s].pc = "write" /\ scrape' = [scrape EXCEPT ![s] = Ended("failed")] /\ torn' = TRUE
          /\ UNCHANGED <<logVars, offset, counters, shown, before, written, overlapped, excused, recounted>>
        BY <1>3, LeaveEnds DEF WriteFails
    <2>2. /\ scrape' \in [Scrape -> ScrapeState] /\ scrape'[s].pc = "failed"
          /\ \A t \in Scrape : t # s => scrape'[t] = scrape[t]
        BY <1>0, <2>1 DEF ScrapeState, Ended
    <2>3. ExporterTypeOK' /\ EmptyOK'
        BY <1>0, <2>1, <2>2 DEF ExporterTypeOK, EmptyOK, FailsOnlyWhenTorn, logVars
    <2>4. ASSUME ~overlapped'
          PROVE  SoloInv'
        <3>1. SoloInv
            BY <2>1, <2>4
        <3>2. offset = Empty /\ \A t \in Scrape : ~InReadLog(t)' /\ ~HasCounted(t)'
            BY <2>1, <2>2, <3>1 DEF SoloInv, ReadersOK, ReaderOK, InReadLog, HasCounted
        <3>3. ReadersOK'
            BY <2>1, <2>2, <3>1, <3>2 DEF SoloInv, ReadersOK, ReaderOK, InReadLog, logVars
        <3>4. CountsOK'
            BY <2>1, <3>1, <3>2 DEF SoloInv, CountsOK, Counted, Reached
        <3>5. LossesOK'
            BY <2>1, <3>1, <3>2 DEF SoloInv, LossesOK, Counted, logVars
        <3> QED
            BY <3>3, <3>4, <3>5 DEF SoloInv
    <2> QED
        BY <2>3, <2>4
<1> QED
    BY <1>1, <1>2, <1>3

\* A scrape that found a file it could not open.
LEMMA OpenFailsStep ==
    ASSUME ExporterInv, NEW s \in Scrape, OpenFails(s)
    PROVE  ExporterInv'
<1> USE DEF ExporterInv
<1>1. /\ scrape[s].pc \in {"stat", "read", "truncate"} /\ scrape' = [scrape EXCEPT ![s] = Ended("idle")]
      /\ recounted' = IF scrape[s].pc = "truncate" THEN recounted \cup Chunk(s) ELSE recounted
      /\ UNCHANGED <<logVars, offset, counters, shown, before, torn, written, overlapped, excused>>
    BY LeaveEnds DEF OpenFails
<1>2. /\ scrape' \in [Scrape -> ScrapeState] /\ scrape'[s].pc = "idle"
      /\ \A t \in Scrape : t # s => scrape'[t] = scrape[t]
    BY <1>1 DEF ExporterTypeOK, ScrapeState, Ended
<1>3. CASE scrape[s].pc \in {"stat", "read"}
    BY <1>1, <1>2, <1>3, PlainStep DEF ExporterTypeOK
<1>4. CASE scrape[s].pc = "truncate"
    <2>1. ExporterTypeOK' /\ EmptyOK'
        BY <1>1, <1>2, <1>4 DEF ExporterTypeOK, EmptyOK, FailsOnlyWhenTorn, Chunk, logVars
    <2>2. ASSUME ~overlapped'
          PROVE  SoloInv'
        <3>1. SoloInv
            BY <1>1, <2>2
        <3>2. /\ \A t \in Scrape : InReadLog(t) => t = s
              /\ \A t \in Scrape : ~InReadLog(t)' /\ ~HasCounted(t)'
            BY <1>2, <1>4, <3>1 DEF SoloInv, ReadersOK, InReadLog, HasCounted
        <3>3. ReadersOK'
            BY <1>1, <1>2, <3>1, <3>2 DEF SoloInv, ReadersOK, ReaderOK, InReadLog, logVars
        <3>4. CountsOK'
            <4>1. ASSUME NEW l \in Line
                  PROVE  /\ shown[l] <= counters[l]
                         /\ l \notin recounted \cup Chunk(s) =>
                            /\ Counted(l) <= 1
                            /\ offset # Empty /\ before[l] + shown[l] > 0 => Reached(l, written, offset)
                            /\ offset # Empty /\ Counted(l) > 0 => Reached(l, written, offset)
                BY <3>1, <3>2 DEF SoloInv, CountsOK, HasCounted, InReadLog
            <4> QED
                BY <1>1, <1>4, <3>2, <4>1 DEF CountsOK, Counted, Reached
        <3>5. LossesOK'
            BY <1>1, <3>1, <3>2 DEF SoloInv, LossesOK, Counted, logVars
        <3> QED
            BY <3>3, <3>4, <3>5 DEF SoloInv
    <2> QED
        BY <2>1, <2>2
<1> QED
    BY <1>1, <1>3, <1>4

LEMMA AnswerStep ==
    ASSUME ExporterInv, NEW s \in Scrape, Answer(s)
    PROVE  ExporterInv'
<1> USE DEF ExporterInv
<1>1. /\ scrape[s].pc = "answer" /\ scrape' = [scrape EXCEPT ![s] = Idle] /\ shown' = counters /\ Beside(s)
      /\ UNCHANGED <<logVars, offset, counters, before, torn, written, excused, recounted>>
    BY DEF Answer
<1>2. /\ scrape' \in [Scrape -> ScrapeState] /\ scrape'[s].pc = "idle"
      /\ \A t \in Scrape : t # s => scrape'[t] = scrape[t]
    BY <1>1 DEF ExporterTypeOK, ScrapeState, Idle
<1>3. ExporterTypeOK' /\ EmptyOK'
    BY <1>1, <1>2 DEF ExporterTypeOK, EmptyOK, FailsOnlyWhenTorn, logVars, Beside
<1>4. ASSUME ~overlapped'
      PROVE  SoloInv'
    <2>1. SoloInv /\ \A t \in Scrape : t # s => ~InReadLog(t)
        BY <1>1, <1>4 DEF Beside
    <2>2. \A t \in Scrape : ~InReadLog(t) /\ ~InReadLog(t)' /\ ~HasCounted(t) /\ ~HasCounted(t)'
        BY <1>1, <1>2, <2>1 DEF InReadLog, HasCounted
    <2>3. ReadersOK'
        BY <1>1, <1>2, <2>1, <2>2 DEF SoloInv, ReadersOK, ReaderOK, InReadLog, logVars
    <2>4. CountsOK'
        BY <1>1, <2>1, <2>2 DEF SoloInv, CountsOK, Counted, Reached, ExporterTypeOK
    <2>5. LossesOK'
        BY <1>1, <2>1, <2>2 DEF SoloInv, LossesOK, Counted, logVars
    <2> QED
        BY <2>3, <2>4, <2>5 DEF SoloInv
<1> QED
    BY <1>3, <1>4

\* What had not been answered is lost and known to be; what had is before the offset.
LEMMA RestartStep ==
    ASSUME ExporterInv, Restart
    PROVE  ExporterInv'
<1> USE DEF ExporterInv
<1>1. /\ scrape' = [s \in Scrape |-> Idle] /\ ClearCounters
      /\ torn' = (torn \/ \E s \in Scrape : scrape[s].pc = "write")
      /\ excused' = excused \cup {l \in Line : counters[l] > shown[l]}
      /\ UNCHANGED <<logVars, offset, written, overlapped, recounted>>
    BY DEF Restart
<1>2. scrape' \in [Scrape -> ScrapeState] /\ \A s \in Scrape : scrape'[s].pc = "idle"
    BY <1>1 DEF ScrapeState, Idle
<1>3. /\ counters' \in [Line -> Nat] /\ shown' \in [Line -> Nat] /\ before' \in [Line -> Nat]
      /\ \A l \in Line : counters'[l] = 0 /\ shown'[l] = 0 /\ before'[l] = before[l] + shown[l]
    BY <1>1 DEF ClearCounters, NoLines, Sum, ExporterTypeOK
<1>4. ExporterTypeOK' /\ EmptyOK'
    <2>1. torn' \in BOOLEAN
        BY <1>1 DEF ExporterTypeOK
    <2> QED
        BY <1>1, <1>2, <1>3, <2>1 DEF ExporterTypeOK, EmptyOK, FailsOnlyWhenTorn, logVars
<1>5. ASSUME ~overlapped'
      PROVE  SoloInv'
    <2>1. SoloInv /\ \A s \in Scrape : ~InReadLog(s)' /\ ~HasCounted(s)'
        BY <1>1, <1>2, <1>5 DEF InReadLog, HasCounted
    <2>2. ReadersOK'
        BY <1>1, <1>2, <2>1 DEF SoloInv, ReadersOK, ReaderOK, InReadLog, logVars
    <2>3. ASSUME NEW l \in Line
          PROVE  /\ counters[l] \in Nat /\ before[l] \in Nat /\ shown[l] \in Nat
                 /\ shown[l] <= counters[l] /\ (l \notin recounted => Counted(l) <= 1)
                 /\ Counted(l)' = before[l] + shown[l]
                 /\ Counted(l) > 0 => Counted(l)' > 0 \/ l \in excused'
        BY <1>1, <1>3, <2>1 DEF SoloInv, CountsOK, Counted, ExporterTypeOK
    <2>4. CountsOK'
        <3>1. \A l \in Line \ recounted :
                offset # Empty /\ before[l] + shown[l] > 0 => Reached(l, written, offset)
            BY <2>1 DEF SoloInv, CountsOK
        <3> QED
            BY <1>1, <1>3, <2>1, <2>3, <3>1 DEF CountsOK, Counted, Reached
    <2>5. LossesOK'
        BY <1>1, <2>1, <2>3 DEF SoloInv, LossesOK, logVars
    <2> QED
        BY <2>2, <2>4, <2>5 DEF SoloInv
<1> QED
    BY <1>4, <1>5

LEMMA ExporterStep ==
    ASSUME ExporterInv, [ExporterNext]_exporterVars
    PROVE  ExporterInv'
<1>1. ASSUME NEW s \in Scrape,
             \/ ReadOffset(s) \/ Stat(s) \/ NoLog(s) \/ ReadChunk(s) \/ Count(s)
             \/ EmptyOffset(s) \/ WriteOffset(s) \/ WriteFails(s)
             \/ OpenFails(s) \/ Answer(s) \/ RenderRaises(s) \/ AnswerError(s)
      PROVE  ExporterInv'
    BY <1>1, ReadOffsetStep, StatStep, PlainSteps, CountStep, RewriteSteps, OpenFailsStep,
        AnswerStep
<1>2. CASE UNCHANGED exporterVars
    BY <1>2 DEF exporterVars, logVars, history, ExporterInv, ExporterTypeOK, EmptyOK, FailsOnlyWhenTorn, SoloInv,
                ReadersOK, ReaderOK, InReadLog, CountsOK, LossesOK, Counted, HasCounted, Reached, Chunk
<1> QED
    BY <1>1, <1>2, LogSteps, RestartStep DEF ExporterNext

LEMMA ExporterInvariance == ExporterSpec => []ExporterInv
<1>1. ExporterInv /\ [ExporterNext]_exporterVars => ExporterInv'
    BY ExporterStep
<1> QED
    BY <1>1, ExporterStarts, PTL DEF ExporterSpec

-----------------------------------------------------------------------------
(* Theorems.                                                                *)

\* No answer of any life of the exporter shows a line that was shown before, in
\* this life's counters or in those an earlier life or a truncation took along,
\* unless the offset file could not be opened after it had been counted.
THEOREM LinesCountOnce == ExporterSpec => []CountedOnce
<1>1. ExporterInv => CountedOnce
    <2> SUFFICES ASSUME ExporterInv, ~overlapped, NEW l \in Line,
                        l \notin recounted
                 PROVE  before[l] + shown[l] <= 1
        BY DEF CountedOnce
    <2>1. /\ counters[l] \in Nat /\ before[l] \in Nat /\ shown[l] \in Nat
          /\ shown[l] <= counters[l] /\ before[l] + counters[l] <= 1
        BY DEF ExporterInv, ExporterTypeOK, SoloInv, CountsOK, Counted
    <2> QED
        BY <2>1
<1> QED
    BY <1>1, ExporterInvariance, PTL

\* The offset file reads as a number unless a rewrite was cut short or scrapes
\* overlapped: a scrape that can open its files fails for no other reason.
THEOREM ScrapesFailOnlyWhenTorn == ExporterSpec => []FailsOnlyWhenTorn
<1>1. ExporterInv => FailsOnlyWhenTorn
    BY DEF ExporterInv, EmptyOK
<1> QED
    BY <1>1, ExporterInvariance, PTL

\* A line before the persisted offset was counted, or is lost in a known way.
THEOREM LossesAreKnown == ExporterSpec => []LossIsKnown
<1>1. ExporterInv => LossIsKnown
    <2> SUFFICES ASSUME ExporterInv, ~overlapped, NEW l \in Line,
                        l[1] = epoch, written = epoch, Last(l) <= offset
                 PROVE  counters[l] + before[l] > 0 \/ l \in excused
        BY DEF LossIsKnown
    <2>1. counters[l] \in Nat /\ before[l] \in Nat /\ (Counted(l) > 0 \/ l \in excused)
        BY DEF ExporterInv, ExporterTypeOK, SoloInv, LossesOK
    <2> QED
        BY <2>1 DEF Counted
<1> QED
    BY <1>1, ExporterInvariance, PTL

=============================================================================
