------------------------------- MODULE MtpDecode -------------------------------
(***************************************************************************)
(* One generation row of a model server, decoded with speculative          *)
(* multi-token prediction (MTP) under the position guard of                *)
(* secure_server.py.  The guard wraps fourteen functions of the pinned     *)
(* oMLX runtime: it limits the depth of every draft chain, refuses a       *)
(* forward that has no room, and turns every unproven outcome into an      *)
(* abort.  What the wrapped functions do themselves is not in the          *)
(* repository: here they move the counters the way the guard's comments    *)
(* and the fakes of verify-model.py say, and they may misbehave in each of *)
(* the ways those fakes do (Faults).                                       *)
(*                                                                         *)
(* Tokens are counted, not named.  A confirmed token is emitted            *)
(* (`tokens`), or waits in `queue`; the last confirmed one has not been    *)
(* forwarded yet, so a target cache that is in step holds                  *)
(* tokens + queue - 1 positions.                                           *)
(***************************************************************************)
EXTENDS Integers

CONSTANTS
    Window,         \* the active context window of the server, in positions
    MaxDrafts,      \* mtp_num_draft_tokens: the deepest chain a controller asks for
    Guards,         \* whose guard it is: qwen38-official-omlx, ornith15-omlx or either
    Faults          \* how the wrapped functions may misbehave

FaultKinds == {"overrun", "depth", "untrimmed", "copy", "dispatch"}

ASSUME WindowAssumption == Window \in Nat \ {0}
ASSUME MaxDraftsAssumption == MaxDrafts \in Nat
ASSUME GuardsAssumption == Guards \subseteq {"qwen", "ornith"}
ASSUME FaultsAssumption == Faults \subseteq FaultKinds

VARIABLES
    mode,       \* idle, standard, chain, mtp, done or aborted
    tokens,     \* prompt plus emitted tokens: len(gen_batch.tokens[0])
    emitted,    \* gen_batch._num_tokens[0]
    limit,      \* gen_batch.max_tokens[0]
    target,     \* greatest position in the target cache
    head,       \* greatest position in the draft head's cache
    hist,       \* state.hist_offset: the committed part of the head's cache
    queue,      \* confirmed tokens that are not emitted yet
    pending,    \* 1 while a boundary materialization adds a confirmed token
    fold,       \* committed rows the next chain call folds into the head
    drafts,     \* the speculative tokens the next verify forwards
    faults      \* history: the ways in which the runtime misbehaved on this row

caches == <<target, head, hist>>
decodeVars == <<mode, tokens, emitted, limit, caches, queue, pending, fold, drafts, faults>>

Modes == {"idle", "standard", "chain", "mtp", "done", "aborted"}
Smaller(a, b) == IF a <= b THEN a ELSE b
Larger(a, b) == IF a >= b THEN a ELSE b

\* A mutant: the depth forgets the final target token of the verify cycle.
BoundedDepthNoFinal(desired, queued) ==
    Larger(0, Smaller(desired, Smaller(limit - emitted - queued, Window - tokens - queued)))

\* A mutant: a depth without room is not raised to zero.
BoundedDepthNegative(desired, queued) ==
    Smaller(desired, Smaller(limit - emitted - queued - 1, Window - tokens - queued - 1))

\* _bounded_mtp_draft_depth: room for the drafts and for the final target token.
BoundedDepth(desired, queued) ==
    Larger(0, Smaller(desired, Smaller(limit - emitted - queued - 1,
                                       Window - tokens - queued - 1)))

DecodeInit ==
    /\ mode = "idle"
    /\ tokens = 0 /\ emitted = 0 /\ limit = 0
    /\ target = 0 /\ head = 0 /\ hist = 0
    /\ queue = 0 /\ pending = 0 /\ fold = 0 /\ drafts = 0
    /\ faults = {}

-----------------------------------------------------------------------------
(* A request enters and leaves the batch.                                   *)

\* A row of p prompt tokens, already prefilled, that may emit m tokens.
StartRow(p, m) ==
    /\ mode = "idle"
    /\ mode' = "standard"
    /\ tokens' = p
    /\ emitted' = 0
    /\ limit' = m
    /\ target' = p
    /\ head' = 0 /\ hist' = 0
    /\ queue' = 0 /\ pending' = 0 /\ fold' = 0 /\ drafts' = 0
    /\ faults' = {}

\* What the decoder relies on: admission left room for prompt and output.
Join(p, m) ==
    /\ m >= 1
    /\ p + m <= Window
    /\ StartRow(p, m)

LeaveRow ==
    /\ mode \in {"done", "aborted"}
    /\ mode' = "idle"
    /\ tokens' = 0 /\ emitted' = 0 /\ limit' = 0
    /\ target' = 0 /\ head' = 0 /\ hist' = 0
    /\ queue' = 0 /\ pending' = 0 /\ fold' = 0 /\ drafts' = 0
    /\ faults' = {}

\* _MtpSafetyViolation: the engine loop drops the row, its caches are not used again.
Abort(why) ==
    /\ mode' = "aborted"
    /\ faults' = why
    /\ UNCHANGED <<tokens, emitted, limit, caches, queue, pending, fold, drafts>>

\* A token goes to the client; the row ends at its limit or at a stop token.
EmitOne(next) ==
    /\ tokens' = tokens + 1
    /\ emitted' = emitted + 1
    /\ \/ emitted + 1 < limit /\ mode' = next
       \/ mode' = "done"

\* The ordinary decoder: forward the token it is about to emit.
StandardStep ==
    /\ mode = "standard"
    /\ target' = target + 1
    /\ EmitOne("standard")
    /\ UNCHANGED <<limit, head, hist, queue, pending, fold, drafts, faults>>

-----------------------------------------------------------------------------
(* The guarded dispatches.                                                  *)

\* _call_backbone on n tokens: the target's cache may move further than that.
Extra == {0} \cup (IF "overrun" \in Faults THEN {1} ELSE {})

\* A mutant: the position is not looked at again after the forward.
OverflowsBefore(n, extra) == target + n > Window

\* guarded_call_backbone looks before the forward and again after it.
Overflows(n, extra) == target + n > Window \/ target + n + extra > Window

\* The history after a forward.
Drift(extra) == IF extra = 0 THEN faults ELSE faults \cup {"overrun"}

\* A mutant: MTP starts although only one token may still be emitted.
PostInitTight(extra, primed) ==
    /\ mode = "standard"
    /\ Smaller(limit - emitted, Window - target) >= 1
    /\ mode' = "chain"
    /\ target' = target + 1
    /\ queue' = 2
    /\ fold' = 1
    /\ UNCHANGED <<tokens, emitted, limit, head, hist, pending, drafts, faults>>

\* _post_init_mtp: two tokens are confirmed, or the row stays with the ordinary
\* decoder because there is no room for two.  The head may have been primed.
PostInit(extra, primed) ==
    /\ mode = "standard"
    /\ Smaller(limit - emitted, Window - target) >= 2
    /\ IF Overflows(1, extra)
       THEN Abort(Drift(extra))
       ELSE /\ mode' = "chain"
            /\ target' = target + 1 + extra
            /\ head' = primed
            /\ hist' = primed
            /\ queue' = 2
            /\ fold' = 1
            /\ faults' = Drift(extra)
            /\ UNCHANGED <<tokens, emitted, limit, pending, drafts>>

\* Where the head's chain starts: its real position, or the history if larger.
HeadPosition == Larger(head, hist)

\* _chain_next_drafts folds the committed rows into the head and drafts.
ChainNextDrafts(desired) ==
    LET room == Window - HeadPosition - fold
        depth == Smaller(BoundedDepth(desired, queue + pending), Larger(0, room + 1))
        end == head + fold + Larger(0, depth - 1)
    IN  /\ mode = "chain"
        /\ IF room < 0 \/ end > Window
           THEN Abort(faults)
           ELSE \/ /\ mode' = "mtp"
                   /\ head' = end
                   /\ hist' = hist + fold
                   /\ drafts' = depth
                   /\ queue' = queue + pending
                   /\ pending' = 0
                   /\ fold' = 0
                   /\ UNCHANGED <<tokens, emitted, limit, target, faults>>
                \/ "depth" \in Faults /\ Abort(faults \cup {"depth"})

\* The explicit depth-0 call of oMLX 0.7.2: the caller fills in c copied tokens.
CopyDrafts(c) ==
    /\ mode = "chain"
    /\ "qwen" \in Guards
    /\ HeadPosition + fold <= Window
    /\ c <= BoundedDepth(c, queue + pending) \/ "copy" \in Faults
    /\ mode' = "mtp"
    /\ head' = head + fold
    /\ hist' = hist + fold
    /\ drafts' = c
    /\ queue' = queue + pending
    /\ pending' = 0
    /\ fold' = 0
    /\ faults' = IF c <= BoundedDepth(c, queue + pending) THEN faults ELSE faults \cup {"copy"}
    /\ UNCHANGED <<tokens, emitted, limit, target>>

\* GenerationBatch.next drains the queue before it verifies again.
EmitQueued ==
    /\ mode = "mtp"
    /\ queue > 0
    /\ queue' = queue - 1
    /\ EmitOne("mtp")
    /\ UNCHANGED <<limit, caches, pending, fold, drafts, faults>>

\* What a trim of the head's cache to its history may leave behind.
Untrimmed == {0} \cup (IF "untrimmed" \in Faults THEN {1} ELSE {})

\* The precondition of _run_verify_cycle_chain.
VerifyFits ==
    /\ tokens + drafts + 1 <= Window
    /\ drafts + 1 <= limit - emitted
    /\ target + drafts + 1 <= Window

\* _run_verify_cycle_chain: forward the drafts, keep `accepted` of them and one
\* sampled token, drop the rest from both caches; a trim may leave `rest` behind.
VerifyCycle(accepted, extra, rest) ==
    /\ mode = "mtp"
    /\ queue = 0
    /\ accepted <= drafts
    /\ IF ~VerifyFits
       THEN Abort(faults)
       ELSE IF Overflows(drafts + 1, extra)
       THEN Abort(Drift(extra))
       ELSE /\ mode' = "chain"
            /\ target' = target + 1 + extra + accepted
            /\ head' = hist + rest
            /\ queue' = accepted + 1
            /\ fold' = accepted + 1
            /\ drafts' = 0
            /\ faults' = Drift(extra) \cup (IF rest = 0 THEN {} ELSE {"untrimmed"})
            /\ UNCHANGED <<tokens, emitted, limit, hist, pending>>

\* A mutant: the boundary does not count the tokens that wait in the queue.
BoundaryFitsUnqueued ==
    /\ tokens + 1 <= Window
    /\ 1 <= limit - emitted
    /\ target + 1 <= Window

\* The condition under which a page boundary may confirm one more token.
BoundaryFits ==
    /\ tokens + 1 <= Window
    /\ queue + 1 <= limit - emitted
    /\ target + 1 <= Window

\* _materialize_mtp_boundary_emit: the head is cut back to its history, the last
\* token is forwarded and the chain is built again, one confirmed token later.
MaterializeBoundary(extra, rest) ==
    /\ mode = "mtp"
    /\ queue > 0
    /\ BoundaryFits
    /\ IF head < hist
       THEN Abort(faults)
       ELSE IF rest # 0
       THEN Abort(faults \cup {"untrimmed"})
       ELSE IF Overflows(1, extra)
       THEN Abort(Drift(extra))
       ELSE /\ mode' = "chain"
            /\ head' = hist
            /\ target' = target + 1 + extra
            /\ pending' = 1
            /\ fold' = 1
            /\ drafts' = 0
            /\ faults' = Drift(extra)
            /\ UNCHANGED <<tokens, emitted, limit, hist, queue>>

-----------------------------------------------------------------------------
(* Back to the ordinary decoder.                                            *)

\* _feed_next_main_to_standard, _park_mtp_to_standard, _handoff_mtp_for_late_join:
\* the queue is empty, the last token is forwarded, the drafts are forgotten.
Handoff(extra) ==
    /\ mode = "mtp"
    /\ queue = 0
    /\ IF Overflows(1, extra)
       THEN Abort(Drift(extra))
       ELSE /\ mode' = "standard"
            /\ target' = target + 1 + extra
            /\ drafts' = 0
            /\ faults' = Drift(extra)
            /\ UNCHANGED <<tokens, emitted, limit, head, hist, queue, pending, fold>>

\* _reconcile_mtp_to_standard succeeded: the caches are rebuilt for what was emitted.
Reconcile ==
    /\ mode = "mtp"
    /\ mode' = "standard"
    /\ target' = tokens
    /\ queue' = 0
    /\ drafts' = 0
    /\ UNCHANGED <<tokens, emitted, limit, head, hist, pending, fold, faults>>

\* A mutant: the fallback is caught and ordinary decoding goes on.
DispatchFallsBack ==
    /\ "dispatch" \in Faults
    /\ mode \in {"chain", "mtp"}
    /\ mode' = "standard"
    /\ faults' = faults \cup {"dispatch"}
    /\ queue' = 0 /\ pending' = 0 /\ fold' = 0 /\ drafts' = 0
    /\ UNCHANGED <<tokens, emitted, limit, caches>>

\* A dispatch asks for the fallback, a handoff raises, a reconciliation does not
\* return True: nothing is known of the caches, the row is given up.
DispatchFails ==
    /\ "dispatch" \in Faults
    /\ mode \in {"chain", "mtp"}
    /\ Abort(faults \cup {"dispatch"})

\* A handoff that returns False: only the stricter server gives the row up.
HandoffRefused ==
    /\ "ornith" \in Guards
    /\ "dispatch" \in Faults
    /\ mode = "mtp"
    /\ Abort(faults \cup {"dispatch"})

-----------------------------------------------------------------------------
DecodeStep ==
    \/ StandardStep
    \/ \E extra \in Extra, primed \in {0, target} : PostInit(extra, primed)
    \/ \E desired \in 0..MaxDrafts : ChainNextDrafts(desired)
    \/ \E c \in 0..MaxDrafts : CopyDrafts(c)
    \/ EmitQueued
    \/ \E accepted \in 0..MaxDrafts, extra \in Extra, rest \in Untrimmed : VerifyCycle(accepted, extra, rest)
    \/ \E extra \in Extra, rest \in Untrimmed : MaterializeBoundary(extra, rest)
    \/ \E extra \in Extra : Handoff(extra)
    \/ Reconcile
    \/ DispatchFails
    \/ HandoffRefused

DecodeNext ==
    \/ \E p \in 0..Window, m \in 1..Window : Join(p, m)
    \/ DecodeStep
    \/ LeaveRow

DecodeSpec == DecodeInit /\ [][DecodeNext]_decodeVars

-----------------------------------------------------------------------------
(* What the guard is for.                                                   *)

\* Every counter of the row is a length, and the row is in one of its modes.
DecodeTypeOK ==
    /\ mode \in Modes
    /\ faults \subseteq FaultKinds
    /\ tokens \in Nat /\ emitted \in Nat /\ limit \in Nat
    /\ target \in Nat /\ head \in Nat /\ hist \in Nat
    /\ queue \in Nat /\ pending \in 0..1 /\ fold \in Nat /\ drafts \in Nat

\* However the runtime misbehaves, the tokens a row has emitted and those it has
\* confirmed and must still emit never pass the output limit that admission
\* wrote into the request, nor, with the prompt, the context window.
OutputFits ==
    /\ emitted + queue + pending <= limit
    /\ tokens + queue + pending <= Window

\* No forward that the guard lets pass leaves a position behind the window, in the
\* target's cache or in the draft head's, however the runtime misbehaves.  The
\* ordinary decoder is not guarded: it stays inside unless it took over a cache
\* that a forward had already moved too far.
PositionsFit ==
    /\ mode \in {"chain", "mtp"} \/ "overrun" \notin faults => target <= Window
    /\ mode = "mtp" => head <= Window /\ hist <= Window

\* The guard gives a row up only after the runtime has misbehaved: the depths it
\* chooses never run into one of its own checks, so a sound row is not lost.
AbortIsJustified == mode = "aborted" => faults # {}

\* An ordinary decoder that takes over continues on a target cache that holds
\* exactly what was emitted: no rejected draft, no token that is still queued.
\* The guard cannot see an overrun that stays inside the window.
StandardIsExact == mode = "standard" /\ "overrun" \notin faults => target = tokens
=============================================================================
