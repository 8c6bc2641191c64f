---------------------------- MODULE MtpDecodeProofs ----------------------------
(***************************************************************************)
(* Proofs about the position guard, for every window, output limit, draft  *)
(* depth and every combination of runtime faults.                          *)
(***************************************************************************)
EXTENDS MtpDecode, TLAPS

\* What admission left: the output limit still fits behind the prompt.
Room == emitted <= limit /\ tokens - emitted + limit <= Window

\* The confirmed tokens of every mode, and the limit they stay inside.
Confirmed ==
    /\ mode \in {"idle", "standard"} => queue = 0 /\ pending = 0
    /\ mode = "standard" => emitted < limit
    /\ mode = "chain" => queue >= 1
    /\ mode = "mtp" => pending = 0 /\ (queue = 0 => emitted < limit)
    /\ emitted + queue + pending <= limit

\* The draft head is never behind its history, nor its history before the target.
HeadInStep ==
    /\ mode = "chain" => /\ fold >= 1
                         /\ hist + fold <= target
                         /\ hist <= head
                         /\ "untrimmed" \notin faults => head = hist
    /\ mode = "mtp" => hist <= head /\ hist <= target

\* The drafts that a sound runtime leaves always fit the next verify.
DraftsFit == mode = "mtp" /\ "copy" \notin faults =>
                drafts <= Larger(0, limit - emitted - queue - 1)

\* The target's cache is in step with the confirmed tokens.
TargetInStep == "overrun" \notin faults =>
    /\ mode = "standard" => target = tokens
    /\ mode = "chain" => target = tokens + queue + pending - 1
    /\ mode = "mtp" => target = tokens + queue - 1

DecodeInv ==
    /\ DecodeTypeOK
    /\ Room
    /\ Confirmed
    /\ HeadInStep
    /\ DraftsFit
    /\ TargetInStep
    /\ PositionsFit
    /\ AbortIsJustified

-----------------------------------------------------------------------------
(* Giving a row up.                                                         *)

LEMMA AbortKeeps ==
    ASSUME DecodeInv, NEW why \in SUBSET FaultKinds, why # {},
           faults \subseteq why, Abort(why)
    PROVE  DecodeInv'
BY WindowAssumption
   DEF DecodeInv, DecodeTypeOK, Room, Confirmed, HeadInStep, DraftsFit, TargetInStep,
       PositionsFit, AbortIsJustified, Modes, FaultKinds, caches, Abort, Larger

\* A forward that went too far is remembered, everything else is kept.
LEMMA DriftType ==
    ASSUME faults \subseteq FaultKinds, NEW extra \in Extra
    PROVE  /\ extra \in {0, 1}
           /\ Drift(extra) \in SUBSET FaultKinds
           /\ extra = 0 => Drift(extra) = faults
           /\ extra # 0 => Drift(extra) # {} /\ "overrun" \in Drift(extra)
           /\ faults \subseteq Drift(extra)
           /\ "copy" \in Drift(extra) <=> "copy" \in faults
           /\ "untrimmed" \in Drift(extra) <=> "untrimmed" \in faults
BY DEF Drift, Extra, FaultKinds

-----------------------------------------------------------------------------
(* One lemma per step of the decoder.                                       *)

LEMMA StandardKeeps ==
    ASSUME DecodeInv, StandardStep
    PROVE  DecodeInv'
BY WindowAssumption, MaxDraftsAssumption, FaultsAssumption
   DEF DecodeInv, DecodeTypeOK, Room, Confirmed, HeadInStep, DraftsFit, TargetInStep,
       PositionsFit, AbortIsJustified, Modes, FaultKinds, caches, StandardStep, EmitOne

LEMMA CopyDraftsKeeps ==
    ASSUME DecodeInv, NEW c \in 0..MaxDrafts, CopyDrafts(c)
    PROVE  DecodeInv'
BY WindowAssumption, MaxDraftsAssumption, FaultsAssumption
   DEF DecodeInv, DecodeTypeOK, Room, Confirmed, HeadInStep, DraftsFit, TargetInStep,
       PositionsFit, AbortIsJustified, Modes, FaultKinds, caches, CopyDrafts, BoundedDepth, HeadPosition, Smaller, Larger

LEMMA EmitQueuedKeeps ==
    ASSUME DecodeInv, EmitQueued
    PROVE  DecodeInv'
BY WindowAssumption, MaxDraftsAssumption, FaultsAssumption
   DEF DecodeInv, DecodeTypeOK, Room, Confirmed, HeadInStep, DraftsFit, TargetInStep,
       PositionsFit, AbortIsJustified, Modes, FaultKinds, caches, EmitQueued, EmitOne, Larger

LEMMA ReconcileKeeps ==
    ASSUME DecodeInv, Reconcile
    PROVE  DecodeInv'
BY WindowAssumption, MaxDraftsAssumption, FaultsAssumption
   DEF DecodeInv, DecodeTypeOK, Room, Confirmed, HeadInStep, DraftsFit, TargetInStep,
       PositionsFit, AbortIsJustified, Modes, FaultKinds, caches, Reconcile, Larger

LEMMA DispatchFailsKeeps ==
    ASSUME DecodeInv, DispatchFails
    PROVE  DecodeInv'
BY WindowAssumption, MaxDraftsAssumption, FaultsAssumption
   DEF DecodeInv, DecodeTypeOK, Room, Confirmed, HeadInStep, DraftsFit, TargetInStep,
       PositionsFit, AbortIsJustified, Modes, FaultKinds, caches, DispatchFails, Abort, Larger

LEMMA HandoffRefusedKeeps ==
    ASSUME DecodeInv, HandoffRefused
    PROVE  DecodeInv'
BY WindowAssumption, MaxDraftsAssumption, FaultsAssumption
   DEF DecodeInv, DecodeTypeOK, Room, Confirmed, HeadInStep, DraftsFit, TargetInStep,
       PositionsFit, AbortIsJustified, Modes, FaultKinds, caches, HandoffRefused, Abort, Larger

LEMMA PostInitKeeps ==
    ASSUME DecodeInv, NEW extra \in Extra, NEW primed \in {0, target},
           PostInit(extra, primed)
    PROVE  DecodeInv'
<1>1. faults \in SUBSET FaultKinds
  BY DEF DecodeInv, DecodeTypeOK
<1>2. CASE Overflows(1, extra)
  <2>1. Drift(extra) \in SUBSET FaultKinds /\ Drift(extra) # {} /\ faults \subseteq Drift(extra)
    BY WindowAssumption, MaxDraftsAssumption, FaultsAssumption, <1>1, <1>2, DriftType
       DEF DecodeInv, DecodeTypeOK, Room, Confirmed, HeadInStep, DraftsFit, TargetInStep,
           PositionsFit, AbortIsJustified, Modes, FaultKinds, caches, PostInit, Overflows, Smaller, Larger
  <2>2. Abort(Drift(extra))
    BY <1>2 DEF PostInit
  <2> QED  BY <2>1, <2>2, AbortKeeps
<1>3. CASE ~(Overflows(1, extra))
  BY WindowAssumption, MaxDraftsAssumption, FaultsAssumption, <1>1, <1>3, DriftType
     DEF DecodeInv, DecodeTypeOK, Room, Confirmed, HeadInStep, DraftsFit, TargetInStep,
         PositionsFit, AbortIsJustified, Modes, FaultKinds, caches, PostInit, Overflows, Smaller, Larger
<1> QED  BY <1>2, <1>3

LEMMA HandoffKeeps ==
    ASSUME DecodeInv, NEW extra \in Extra,
           Handoff(extra)
    PROVE  DecodeInv'
<1>1. faults \in SUBSET FaultKinds
  BY DEF DecodeInv, DecodeTypeOK
<1>2. CASE Overflows(1, extra)
  <2>1. Drift(extra) \in SUBSET FaultKinds /\ Drift(extra) # {} /\ faults \subseteq Drift(extra)
    BY WindowAssumption, MaxDraftsAssumption, FaultsAssumption, <1>1, <1>2, DriftType
       DEF DecodeInv, DecodeTypeOK, Room, Confirmed, HeadInStep, DraftsFit, TargetInStep,
           PositionsFit, AbortIsJustified, Modes, FaultKinds, caches, Handoff, Overflows, Larger
  <2>2. Abort(Drift(extra))
    BY <1>2 DEF Handoff
  <2> QED  BY <2>1, <2>2, AbortKeeps
<1>3. CASE ~(Overflows(1, extra))
  BY WindowAssumption, MaxDraftsAssumption, FaultsAssumption, <1>1, <1>3, DriftType
     DEF DecodeInv, DecodeTypeOK, Room, Confirmed, HeadInStep, DraftsFit, TargetInStep,
         PositionsFit, AbortIsJustified, Modes, FaultKinds, caches, Handoff, Overflows, Larger
<1> QED  BY <1>2, <1>3

\* The chain has room because history and fold stay behind the target.
LEMMA ChainNextDraftsKeeps ==
    ASSUME DecodeInv, NEW desired \in 0..MaxDrafts, ChainNextDrafts(desired)
    PROVE  DecodeInv'
<1> DEFINE room == Window - HeadPosition - fold
           depth == Smaller(BoundedDepth(desired, queue + pending), Larger(0, room + 1))
           end == head + fold + Larger(0, depth - 1)
<1>1. /\ DecodeTypeOK /\ mode = "chain" /\ faults \in SUBSET FaultKinds
      /\ room \in Int /\ depth \in Nat /\ end \in Nat
  BY WindowAssumption, MaxDraftsAssumption, FaultsAssumption
     DEF DecodeInv, DecodeTypeOK, ChainNextDrafts, HeadPosition, BoundedDepth, Smaller, Larger
<1>2. room >= 0 => end <= Window /\ hist + fold <= Window
  BY WindowAssumption, MaxDraftsAssumption, FaultsAssumption, <1>1
     DEF DecodeTypeOK, HeadPosition, Smaller, Larger
<1>3. faults = {} => room >= 0
  BY WindowAssumption, MaxDraftsAssumption, FaultsAssumption, <1>1
     DEF DecodeInv, DecodeTypeOK, HeadInStep, PositionsFit, HeadPosition, Larger
<1>4. CASE Abort(faults) /\ room < 0
  BY <1>1, <1>3, <1>4, AbortKeeps
<1>5. CASE Abort(faults \cup {"depth"})
  <2>1. /\ faults \cup {"depth"} \in SUBSET FaultKinds
        /\ faults \cup {"depth"} # {}
        /\ faults \subseteq faults \cup {"depth"}
    BY <1>1 DEF FaultKinds
  <2> QED  BY <1>5, <2>1, AbortKeeps
<1>6. CASE /\ room >= 0
           /\ mode' = "mtp" /\ head' = end /\ hist' = hist + fold /\ drafts' = depth
           /\ queue' = queue + pending /\ pending' = 0 /\ fold' = 0
           /\ UNCHANGED <<tokens, emitted, limit, target, faults>>
  <2>1. depth <= Larger(0, limit - emitted - (queue + pending) - 1)
    BY WindowAssumption, MaxDraftsAssumption, FaultsAssumption, <1>1
       DEF DecodeTypeOK, BoundedDepth, Smaller, Larger
  <2>2. hist + fold <= end
    BY <1>1 DEF DecodeInv, DecodeTypeOK, HeadInStep, Larger
  <2> HIDE DEF room, depth, end
  <2> QED
    BY WindowAssumption, MaxDraftsAssumption, FaultsAssumption, <1>1, <1>2, <1>6, <2>1, <2>2
       DEF DecodeInv, DecodeTypeOK, Room, Confirmed, HeadInStep, DraftsFit, TargetInStep,
           PositionsFit, AbortIsJustified, Modes, FaultKinds, caches, Larger
<1>7. (room < 0 \/ end > Window) <=> ~(room >= 0)
  BY WindowAssumption, MaxDraftsAssumption, FaultsAssumption, <1>1, <1>2
<1>8. CASE room < 0
  BY <1>1, <1>4, <1>7, <1>8 DEF ChainNextDrafts
<1>9. CASE room >= 0
  BY <1>5, <1>6, <1>7, <1>9 DEF ChainNextDrafts
<1> QED  BY <1>1, <1>8, <1>9

LEMMA UntrimmedType ==
    ASSUME faults \subseteq FaultKinds, NEW rest \in Untrimmed
    PROVE  rest \in {0, 1}
BY DEF Untrimmed

LEMMA VerifyCycleKeeps ==
    ASSUME DecodeInv, NEW accepted \in 0..MaxDrafts, NEW extra \in Extra,
           NEW rest \in Untrimmed, VerifyCycle(accepted, extra, rest)
    PROVE  DecodeInv'
<1>1. /\ faults \in SUBSET FaultKinds /\ accepted \in Nat /\ accepted <= drafts
      /\ rest \in {0, 1} /\ mode = "mtp" /\ queue = 0
  BY WindowAssumption, MaxDraftsAssumption, FaultsAssumption, UntrimmedType
     DEF DecodeInv, DecodeTypeOK, VerifyCycle
<1>2. CASE ~VerifyFits
  <2>1. faults # {}
    BY WindowAssumption, MaxDraftsAssumption, FaultsAssumption, <1>1, <1>2
       DEF DecodeInv, DecodeTypeOK, Room, Confirmed, HeadInStep, DraftsFit, TargetInStep,
           PositionsFit, AbortIsJustified, Modes, FaultKinds, caches, VerifyFits, Larger
  <2> QED  BY <1>1, <1>2, <2>1, AbortKeeps DEF VerifyCycle
<1>3. CASE VerifyFits /\ Overflows(drafts + 1, extra)
  <2>1. Drift(extra) \in SUBSET FaultKinds /\ Drift(extra) # {} /\ faults \subseteq Drift(extra)
    BY WindowAssumption, MaxDraftsAssumption, FaultsAssumption, <1>1, <1>3, DriftType
       DEF DecodeInv, DecodeTypeOK, VerifyFits, Overflows
  <2> QED  BY <1>3, <2>1, AbortKeeps DEF VerifyCycle
<1>4. CASE VerifyFits /\ ~Overflows(drafts + 1, extra)
  <2> DEFINE seen == Drift(extra) \cup (IF rest = 0 THEN {} ELSE {"untrimmed"})
  <2>1. /\ seen \in SUBSET FaultKinds
        /\ "untrimmed" \notin seen => rest = 0
        /\ "overrun" \notin seen => extra = 0 /\ "overrun" \notin faults
        /\ extra \in {0, 1}
    BY <1>1, DriftType DEF FaultKinds
  <2>2. /\ mode' = "chain" /\ target' = target + 1 + extra + accepted /\ head' = hist + rest
        /\ queue' = accepted + 1 /\ fold' = accepted + 1 /\ drafts' = 0 /\ faults' = seen
        /\ UNCHANGED <<tokens, emitted, limit, hist, pending>>
    BY <1>4 DEF VerifyCycle
  <2> HIDE DEF seen
  <2> QED
    BY WindowAssumption, MaxDraftsAssumption, FaultsAssumption, <1>1, <1>4, <2>1, <2>2
       DEF DecodeInv, DecodeTypeOK, Room, Confirmed, HeadInStep, DraftsFit, TargetInStep,
           PositionsFit, AbortIsJustified, Modes, FaultKinds, caches, VerifyFits, Overflows, Larger
<1> QED  BY <1>2, <1>3, <1>4

LEMMA MaterializeBoundaryKeeps ==
    ASSUME DecodeInv, NEW extra \in Extra, NEW rest \in Untrimmed,
           MaterializeBoundary(extra, rest)
    PROVE  DecodeInv'
<1>1. /\ faults \in SUBSET FaultKinds /\ mode = "mtp" /\ queue > 0 /\ BoundaryFits
      /\ hist <= head
  BY DEF DecodeInv, DecodeTypeOK, HeadInStep, MaterializeBoundary
<1>2. ~(head < hist)
  BY <1>1 DEF DecodeInv, DecodeTypeOK
<1>3. CASE rest # 0
  <2>1. /\ faults \cup {"untrimmed"} \in SUBSET FaultKinds
        /\ faults \cup {"untrimmed"} # {}
        /\ faults \subseteq faults \cup {"untrimmed"}
    BY <1>1 DEF FaultKinds
  <2> QED  BY <1>2, <1>3, <2>1, AbortKeeps DEF MaterializeBoundary
<1>4. CASE rest = 0 /\ Overflows(1, extra)
  <2>1. Drift(extra) \in SUBSET FaultKinds /\ Drift(extra) # {} /\ faults \subseteq Drift(extra)
    BY WindowAssumption, MaxDraftsAssumption, FaultsAssumption, <1>1, <1>4, DriftType
       DEF DecodeInv, DecodeTypeOK, BoundaryFits, Overflows
  <2> QED  BY <1>2, <1>4, <2>1, AbortKeeps DEF MaterializeBoundary
<1>5. CASE rest = 0 /\ ~Overflows(1, extra)
  <2>1. /\ mode' = "chain" /\ target' = target + 1 + extra /\ head' = hist /\ pending' = 1
        /\ fold' = 1 /\ drafts' = 0 /\ faults' = Drift(extra)
        /\ UNCHANGED <<tokens, emitted, limit, hist, queue>>
    BY <1>2, <1>5 DEF MaterializeBoundary
  <2> QED
    BY WindowAssumption, MaxDraftsAssumption, FaultsAssumption, <1>1, <1>5, <2>1, DriftType
       DEF DecodeInv, DecodeTypeOK, Room, Confirmed, HeadInStep, DraftsFit, TargetInStep,
           PositionsFit, AbortIsJustified, Modes, FaultKinds, caches, BoundaryFits, Overflows, Larger
<1> QED  BY <1>3, <1>4, <1>5

-----------------------------------------------------------------------------
(* The invariant and what follows from it.                                  *)

LEMMA JoinKeeps ==
    ASSUME NEW p \in 0..Window, NEW m \in 1..Window, Join(p, m)
    PROVE  DecodeInv'
BY WindowAssumption, MaxDraftsAssumption, FaultsAssumption
   DEF DecodeInv, DecodeTypeOK, Room, Confirmed, HeadInStep, DraftsFit, TargetInStep,
       PositionsFit, AbortIsJustified, Modes, FaultKinds, caches, Join, StartRow, Larger

LEMMA LeaveRowKeeps ==
    ASSUME LeaveRow
    PROVE  DecodeInv'
BY WindowAssumption, MaxDraftsAssumption, FaultsAssumption
   DEF DecodeInv, DecodeTypeOK, Room, Confirmed, HeadInStep, DraftsFit, TargetInStep,
       PositionsFit, AbortIsJustified, Modes, FaultKinds, caches, LeaveRow, Larger

\* DecodeInv is inductive: it holds in every state of every row.
THEOREM DecodeInvariance == DecodeSpec => []DecodeInv
<1>1. DecodeInit => DecodeInv
  BY WindowAssumption, MaxDraftsAssumption, FaultsAssumption
     DEF DecodeInv, DecodeTypeOK, Room, Confirmed, HeadInStep, DraftsFit, TargetInStep,
         PositionsFit, AbortIsJustified, Modes, FaultKinds, caches, DecodeInit, Larger
<1>2. DecodeInv /\ [DecodeNext]_decodeVars => DecodeInv'
  <2> SUFFICES ASSUME DecodeInv, [DecodeNext]_decodeVars PROVE DecodeInv'
    OBVIOUS
  <2>1. CASE StandardStep  BY <2>1, StandardKeeps
  <2>2. CASE \E extra \in Extra, primed \in {0, target} : PostInit(extra, primed)
    BY <2>2, PostInitKeeps
  <2>3. CASE \E desired \in 0..MaxDrafts : ChainNextDrafts(desired)
    BY <2>3, ChainNextDraftsKeeps
  <2>4. CASE \E c \in 0..MaxDrafts : CopyDrafts(c)
    BY <2>4, CopyDraftsKeeps
  <2>5. CASE EmitQueued  BY <2>5, EmitQueuedKeeps
  <2>6. CASE \E accepted \in 0..MaxDrafts, extra \in Extra, rest \in Untrimmed :
                VerifyCycle(accepted, extra, rest)
    BY <2>6, VerifyCycleKeeps
  <2>7. CASE \E extra \in Extra, rest \in Untrimmed : MaterializeBoundary(extra, rest)
    BY <2>7, MaterializeBoundaryKeeps
  <2>8. CASE \E extra \in Extra : Handoff(extra)
    BY <2>8, HandoffKeeps
  <2>9. CASE Reconcile  BY <2>9, ReconcileKeeps
  <2>10. CASE DispatchFails  BY <2>10, DispatchFailsKeeps
  <2>11. CASE HandoffRefused  BY <2>11, HandoffRefusedKeeps
  <2>12. CASE \E p \in 0..Window, m \in 1..Window : Join(p, m)
    BY <2>12, JoinKeeps
  <2>13. CASE LeaveRow  BY <2>13, LeaveRowKeeps
  <2>14. CASE UNCHANGED decodeVars
    BY <2>14 DEF decodeVars,
              DecodeInv, DecodeTypeOK, Room, Confirmed, HeadInStep, DraftsFit, TargetInStep,
              PositionsFit, AbortIsJustified, Modes, FaultKinds, caches, Larger
  <2> QED
    BY <2>1, <2>2, <2>3, <2>4, <2>5, <2>6, <2>7, <2>8, <2>9, <2>10, <2>11, <2>12, <2>13, <2>14
       DEF DecodeNext, DecodeStep
<1> QED  BY <1>1, <1>2, PTL DEF DecodeSpec

\* The counters stay lengths: no subtraction of the guard or the cycle goes below zero.
THEOREM DecodeTypes == DecodeSpec => []DecodeTypeOK
<1>1. DecodeInv => DecodeTypeOK
  BY DEF DecodeInv
<1> QED  BY <1>1, DecodeInvariance, PTL

\* No row, however the runtime misbehaves, confirms a token for which the output
\* limit or the window has no room.
THEOREM DecodeStaysInside == DecodeSpec => []OutputFits
<1>1. DecodeInv => OutputFits
  BY WindowAssumption DEF DecodeInv, DecodeTypeOK, Room, Confirmed, OutputFits
<1> QED  BY <1>1, DecodeInvariance, PTL

\* No forward that the guard lets pass leaves a position behind the window.
THEOREM DecodePositions == DecodeSpec => []PositionsFit
<1>1. DecodeInv => PositionsFit
  BY DEF DecodeInv
<1> QED  BY <1>1, DecodeInvariance, PTL

\* The guard's own arithmetic never gives up the row of a sound runtime.
THEOREM DecodeAborts == DecodeSpec => []AbortIsJustified
<1>1. DecodeInv => AbortIsJustified
  BY DEF DecodeInv
<1> QED  BY <1>1, DecodeInvariance, PTL

\* The ordinary decoder takes over exactly the cache of what was emitted.
THEOREM DecodeHandsOver == DecodeSpec => []StandardIsExact
<1>1. DecodeInv => StandardIsExact
  BY DEF DecodeInv, TargetInStep, StandardIsExact
<1> QED  BY <1>1, DecodeInvariance, PTL
=============================================================================
