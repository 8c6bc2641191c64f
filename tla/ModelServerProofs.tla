--------------------------- MODULE ModelServerProofs ---------------------------
(***************************************************************************)
(* Admission keeps the promise on which the decoder's proofs rest, for any *)
(* number of concurrent requests, any wishes and any prompts.              *)
(***************************************************************************)
EXTENDS ModelServer, MtpDecodeProofs

Limits == Int \cup {None}

BudgetTypeOK ==
    /\ at \in [Request -> {"idle", "counting", "generating", "returned"}]
    /\ object \in [Request -> {"sent", "copy"}]
    /\ maxTokens \in [Request -> [sent : Limits, copy : Limits]]
    /\ asked \in [Request -> Limits]
    /\ prompts \in [Request -> SUBSET Nat]
    /\ DOMAIN scope = Request
    /\ DOMAIN outer = Request

\* The longest prompt that a request has had counted.
IsLongest(r, q) == q \in prompts[r] /\ \A p \in prompts[r] : p <= q

\* While the scope of a request is open, it holds that request's own budget.
ScopeIsOwn(r) ==
    /\ at[r] = "idle" => prompts[r] = {} /\ object[r] = "sent"
    /\ at[r] \in {"counting", "generating"} =>
        \E q \in Nat :
            /\ scope[r] = [of |-> r, object |-> object[r], requested |-> asked[r], maxPrompt |-> q]
            /\ IsLongest(r, q) \/ (prompts[r] = {} /\ q = 0)

\* Once a prompt has been counted, the limit is the bound for the longest.
LimitIsBounded(r) ==
    prompts[r] # {} =>
        \E q \in prompts[r] :
            /\ IsLongest(r, q)
            /\ q < Context
            /\ Wanted(asked[r]) > 0
            /\ EffectiveLimit(r) = Bounded(asked[r], q)

BudgetInv ==
    /\ BudgetTypeOK
    /\ \A r \in Request : ScopeIsOwn(r) /\ LimitIsBounded(r)

-----------------------------------------------------------------------------
(* Minima and maxima of small sets.                                         *)

LEMMA MaxOfTwo ==
    ASSUME NEW a \in Int, NEW b \in Int
    PROVE  Max({a, b}) = IF a <= b THEN b ELSE a
<1>1. \E x \in {a, b} : \A y \in {a, b} : x >= y
  OBVIOUS
<1>2. Max({a, b}) \in {a, b} /\ \A y \in {a, b} : Max({a, b}) >= y
  BY <1>1 DEF Max
<1> QED  BY <1>2

LEMMA MinOfThree ==
    ASSUME NEW a \in Int, NEW b \in Int, NEW c \in Int
    PROVE  /\ Min({a, b, c}) \in {a, b, c}
           /\ Min({a, b, c}) <= a /\ Min({a, b, c}) <= b /\ Min({a, b, c}) <= c
<1>1. \E x \in {a, b, c} : \A y \in {a, b, c} : x <= y
  <2>1. CASE a <= b /\ a <= c  BY <2>1
  <2>2. CASE b <= a /\ b <= c  BY <2>2
  <2>3. CASE c <= a /\ c <= b  BY <2>3
  <2> QED  BY <2>1, <2>2, <2>3
<1>2. Min({a, b, c}) \in {a, b, c} /\ \A y \in {a, b, c} : Min({a, b, c}) <= y
  BY <1>1 DEF Min
<1> QED  BY <1>2

LEMMA MaxOfPrompts ==
    ASSUME NEW S \in SUBSET Nat, NEW q \in S, \A p \in S : p <= q
    PROVE  Max(S) = q
<1>1. \E x \in S : \A y \in S : x >= y
  OBVIOUS
<1>2. Max(S) \in S /\ \A y \in S : Max(S) >= y
  BY <1>1 DEF Max
<1>3. Max(S) >= q /\ Max(S) <= q /\ Max(S) \in Nat
  BY <1>2
<1> QED  BY <1>3

\* What _bounded_max_tokens returns is positive and leaves the prompt its room.
LEMMA BoundedRoom ==
    ASSUME NEW a \in Limits, NEW p \in Nat, Wanted(a) > 0, p < Context
    PROVE  /\ Bounded(a, p) \in Int
           /\ Bounded(a, p) >= 1
           /\ p + Bounded(a, p) <= Context
<1>1. /\ Wanted(a) \in Int /\ MaxOutput \in Int /\ Context \in Int /\ Context - p \in Int
      /\ MaxOutput > 0 /\ Context - p > 0
  BY ContextAssumption, MaxOutputAssumption DEF Wanted, Limits
<1>2. /\ Bounded(a, p) \in {Wanted(a), MaxOutput, Context - p}
      /\ Bounded(a, p) <= Context - p
  BY <1>1, MinOfThree DEF Bounded
<1> QED  BY <1>1, <1>2

-----------------------------------------------------------------------------
(* One lemma per step of admission: a request's own steps keep its part of  *)
(* the invariant, and a request that takes no step keeps it as it is.       *)

Kept(s) == /\ at'[s] = at[s] /\ scope'[s] = scope[s] /\ object'[s] = object[s]
           /\ maxTokens'[s] = maxTokens[s] /\ asked'[s] = asked[s] /\ prompts'[s] = prompts[s]

LEMMA KeptKeeps ==
    ASSUME NEW s \in Request, ScopeIsOwn(s), LimitIsBounded(s), Kept(s)
    PROVE  ScopeIsOwn(s)' /\ LimitIsBounded(s)'
BY DEF Kept, ScopeIsOwn, LimitIsBounded, IsLongest, EffectiveLimit

LEMMA EnterScopeKeeps ==
    ASSUME BudgetInv, NEW r \in Request, NEW a \in Asked, EnterScope(r, a)
    PROVE  BudgetInv'
<1>1. BudgetTypeOK'
  BY AskedAssumption DEF BudgetInv, BudgetTypeOK, EnterScope, Slot, Limits
<1>2. ASSUME NEW s \in Request PROVE ScopeIsOwn(s)' /\ LimitIsBounded(s)'
  <2>1. CASE s = r
    <3>1. /\ at'[r] = "counting" /\ prompts'[r] = {} /\ object'[r] = "sent" /\ asked'[r] = a
          /\ scope'[r] = [of |-> r, object |-> "sent", requested |-> a, maxPrompt |-> 0]
      BY DEF BudgetInv, BudgetTypeOK, ScopeIsOwn, EnterScope, Slot
    <3> QED  BY <2>1, <3>1 DEF ScopeIsOwn, LimitIsBounded, IsLongest
  <2>2. CASE s # r
    <3>1. Kept(s)
      BY <2>2 DEF BudgetInv, BudgetTypeOK, EnterScope, Slot, Kept
    <3> QED  BY <3>1, KeptKeeps DEF BudgetInv
  <2> QED  BY <2>1, <2>2
<1> QED  BY <1>1, <1>2 DEF BudgetInv

LEMMA ForgetKeeps ==
    ASSUME BudgetInv, NEW r \in Request, Forget(r), DOMAIN scope' = Request, DOMAIN outer' = Request,
           \A s \in Request \ {r} : scope'[s] = scope[s]
    PROVE  BudgetInv'
<1>1. BudgetTypeOK'
  BY DEF BudgetInv, BudgetTypeOK, Forget, Limits
<1>2. ASSUME NEW s \in Request PROVE ScopeIsOwn(s)' /\ LimitIsBounded(s)'
  <2>1. CASE s = r
    <3>1. at'[r] = "idle" /\ prompts'[r] = {} /\ object'[r] = "sent"
      BY DEF BudgetInv, BudgetTypeOK, Forget
    <3> QED  BY <2>1, <3>1 DEF ScopeIsOwn, LimitIsBounded
  <2>2. CASE s # r
    <3>1. Kept(s)
      BY <2>2 DEF BudgetInv, BudgetTypeOK, Forget, Kept
    <3> QED  BY <3>1, KeptKeeps DEF BudgetInv
  <2> QED  BY <2>1, <2>2
<1> QED  BY <1>1, <1>2 DEF BudgetInv

LEMMA RefuseKeeps ==
    ASSUME BudgetInv, NEW r \in Request, Refuse(r)
    PROVE  BudgetInv'
<1>1. /\ DOMAIN scope' = Request /\ DOMAIN outer' = Request
      /\ \A s \in Request \ {r} : scope'[s] = scope[s]
  BY DEF BudgetInv, BudgetTypeOK, Refuse, CloseScope, Slot
<1> QED  BY <1>1, ForgetKeeps DEF Refuse

LEMMA FinishKeeps ==
    ASSUME BudgetInv, NEW r \in Request, Finish(r)
    PROVE  BudgetInv'
BY ForgetKeeps DEF Finish, BudgetInv, BudgetTypeOK

LEMMA ReplaceKeeps ==
    ASSUME BudgetInv, NEW r \in Request, Replace(r)
    PROVE  BudgetInv'
<1>1. CASE ~BudgetIsOf(r)
  BY <1>1, RefuseKeeps DEF Replace
<1>2. CASE BudgetIsOf(r)
  <2>1. /\ at[r] = "counting"
        /\ object' = [object EXCEPT ![r] = "copy"]
        /\ maxTokens' = [maxTokens EXCEPT ![r].copy = maxTokens[r].sent]
        /\ scope' = [scope EXCEPT ![r].object = "copy"]
        /\ object[r] = "sent"
        /\ UNCHANGED <<at, outer, asked, prompts>>
    BY <1>2 DEF Replace, Slot
  <2>2. BudgetTypeOK'
    BY <2>1 DEF BudgetInv, BudgetTypeOK
  <2>3. ASSUME NEW s \in Request PROVE ScopeIsOwn(s)' /\ LimitIsBounded(s)'
    <3>1. CASE s = r
      <4>1. PICK q \in Nat :
               /\ scope[r] = [of |-> r, object |-> object[r], requested |-> asked[r],
                              maxPrompt |-> q]
               /\ IsLongest(r, q) \/ (prompts[r] = {} /\ q = 0)
        BY <2>1 DEF BudgetInv, ScopeIsOwn
      <4>2. scope'[r] = [of |-> r, object |-> "copy", requested |-> asked[r], maxPrompt |-> q]
        BY <2>1, <4>1 DEF BudgetInv, BudgetTypeOK
      <4>3. object'[r] = "copy" /\ maxTokens'[r].copy = maxTokens[r].sent
        BY <2>1 DEF BudgetInv, BudgetTypeOK
      <4>4. ScopeIsOwn(r)'
        BY <2>1, <4>1, <4>2, <4>3 DEF ScopeIsOwn, IsLongest
      <4>5. EffectiveLimit(r)' = EffectiveLimit(r)
        BY <2>1, <4>3 DEF EffectiveLimit
      <4>6. LimitIsBounded(r)
        BY DEF BudgetInv
      <4>7. LimitIsBounded(r)'
        BY <2>1, <4>5, <4>6 DEF LimitIsBounded, IsLongest
      <4> QED  BY <3>1, <4>4, <4>7
    <3>2. CASE s # r
      <4>1. Kept(s)
        BY <2>1, <3>2 DEF BudgetInv, BudgetTypeOK, Kept
      <4> QED  BY <4>1, KeptKeeps DEF BudgetInv
    <3> QED  BY <3>1, <3>2
  <2> QED  BY <2>2, <2>3 DEF BudgetInv
<1> QED  BY <1>1, <1>2

LEMMA ReturnKeeps ==
    ASSUME BudgetInv, NEW r \in Request, Return(r)
    PROVE  BudgetInv'
<1>1. BudgetTypeOK'
  BY DEF BudgetInv, BudgetTypeOK, Return, CloseScope, Slot
<1>2. ASSUME NEW s \in Request PROVE ScopeIsOwn(s)' /\ LimitIsBounded(s)'
  <2>1. CASE s = r
    <3>1. at'[r] = "returned"
      BY DEF BudgetInv, BudgetTypeOK, Return
    <3>2. ScopeIsOwn(r)'
      BY <3>1 DEF ScopeIsOwn
    <3>3. LimitIsBounded(r) /\ UNCHANGED <<object, maxTokens, asked, prompts>>
      BY DEF BudgetInv, Return
    <3>4. LimitIsBounded(r)'
      BY <3>3 DEF LimitIsBounded, IsLongest, EffectiveLimit
    <3> QED  BY <2>1, <3>2, <3>4
  <2>2. CASE s # r
    <3>1. Kept(s)
      BY <2>2 DEF BudgetInv, BudgetTypeOK, Return, CloseScope, Slot, Kept
    <3> QED  BY <3>1, KeptKeeps DEF BudgetInv
  <2> QED  BY <2>1, <2>2
<1> QED  BY <1>1, <1>2 DEF BudgetInv

LEMMA GenerateKeeps ==
    ASSUME BudgetInv, NEW r \in Request, NEW p \in Prompt, Generate(r, p)
    PROVE  BudgetInv'
<1>1. BudgetTypeOK'
  BY DEF BudgetInv, BudgetTypeOK, Generate
<1>2. ASSUME NEW s \in Request PROVE ScopeIsOwn(s)' /\ LimitIsBounded(s)'
  <2>1. /\ ScopeIsOwn(s) /\ LimitIsBounded(s)
        /\ UNCHANGED <<scope, outer, object, maxTokens, asked, prompts>>
        /\ at'[s] = at[s] \/ (at[s] = "counting" /\ at'[s] = "generating")
    BY DEF BudgetInv, BudgetTypeOK, Generate
  <2> QED  BY <2>1 DEF ScopeIsOwn, LimitIsBounded, IsLongest, EffectiveLimit
<1> QED  BY <1>1, <1>2 DEF BudgetInv

LEMMA ScopeRequested ==
    ASSUME BudgetInv, NEW r \in Request, at[r] = "counting"
    PROVE  Wanted(scope[r].requested) \in Int
<1>1. PICK q \in Nat : scope[r] = [of |-> r, object |-> object[r], requested |-> asked[r],
                                   maxPrompt |-> q]
  BY DEF BudgetInv, ScopeIsOwn
<1> QED  BY <1>1, MaxOutputAssumption DEF BudgetInv, BudgetTypeOK, Wanted, Limits

LEMMA ValidateKeeps ==
    ASSUME BudgetInv, NEW r \in Request, NEW p \in Prompt, Validate(r, p)
    PROVE  BudgetInv'
<1> DEFINE longest == Max({scope[r].maxPrompt, p})
<1>1. at[r] = "counting" /\ p \in Nat
  BY PromptAssumption DEF Validate
<1>2. CASE Refuse(r)
  BY <1>2, RefuseKeeps
<1>3. CASE /\ p < Context
           /\ Wanted(scope[r].requested) > 0
           /\ scope' = [scope EXCEPT ![r].maxPrompt = longest]
           /\ maxTokens' = [maxTokens EXCEPT ![scope[r].of][scope[r].object] =
                               Bounded(scope[r].requested, longest)]
           /\ prompts' = [prompts EXCEPT ![r] = @ \cup {p}]
           /\ UNCHANGED <<at, outer, object, asked>>
  <2>1. PICK q \in Nat :
           /\ scope[r] = [of |-> r, object |-> object[r], requested |-> asked[r],
                          maxPrompt |-> q]
           /\ IsLongest(r, q) \/ (prompts[r] = {} /\ q = 0)
    BY <1>1 DEF BudgetInv, ScopeIsOwn
  <2> DEFINE new == IF q <= p THEN p ELSE q
  <2>2. longest = new
    BY <1>1, <2>1, MaxOfTwo
  <2>3. /\ asked[r] \in Limits /\ object[r] \in {"sent", "copy"}
        /\ Wanted(asked[r]) > 0 /\ prompts[r] \in SUBSET Nat
    BY <1>3, <2>1 DEF BudgetInv, BudgetTypeOK
  <2>4. q \in prompts[r] => q < Context
    <3>1. LimitIsBounded(r)
      BY DEF BudgetInv
    <3> SUFFICES ASSUME q \in prompts[r] PROVE q < Context
      OBVIOUS
    <3>2. PICK l \in prompts[r] : IsLongest(r, l) /\ l < Context
      BY <3>1 DEF LimitIsBounded
    <3> QED  BY <2>3, <3>2, ContextAssumption DEF IsLongest
  <2>5. new \in Nat /\ new < Context /\ new \in prompts[r] \cup {p}
        /\ \A x \in prompts[r] \cup {p} : x <= new
    <3>1. CASE IsLongest(r, q)
      BY <1>1, <1>3, <2>3, <2>4, <3>1, ContextAssumption DEF IsLongest
    <3>2. CASE prompts[r] = {} /\ q = 0
      <4>1. new = p
        BY <1>1, <3>2
      <4> HIDE DEF new
      <4> QED  BY <1>1, <1>3, <3>2, <4>1
    <3> QED  BY <2>1, <3>1, <3>2
  <2>6. Bounded(asked[r], new) \in Int
    BY <2>3, <2>5, BoundedRoom
  <2>7. /\ scope' = [scope EXCEPT ![r].maxPrompt = new]
        /\ maxTokens' = [maxTokens EXCEPT ![r][object[r]] = Bounded(asked[r], new)]
    <3>1. scope[r].of = r /\ scope[r].object = object[r] /\ scope[r].requested = asked[r]
      BY <2>1
    <3> HIDE DEF new, longest
    <3> QED  BY <1>3, <2>2, <3>1
  <2> HIDE DEF new
  <2>8. BudgetTypeOK'
    <3>1. maxTokens' \in [Request -> [sent : Limits, copy : Limits]]
      BY <2>3, <2>6, <2>7 DEF BudgetInv, BudgetTypeOK, Limits
    <3> QED  BY <1>1, <1>3, <2>7, <3>1 DEF BudgetInv, BudgetTypeOK
  <2>9. ASSUME NEW s \in Request PROVE ScopeIsOwn(s)' /\ LimitIsBounded(s)'
    <3>1. CASE s = r
      <4>1. scope'[r] = [of |-> r, object |-> object[r], requested |-> asked[r],
                         maxPrompt |-> new]
        BY <2>1, <2>7 DEF BudgetInv, BudgetTypeOK
      <4>2. /\ prompts'[r] = prompts[r] \cup {p} /\ at'[r] = "counting"
            /\ object'[r] = object[r] /\ asked'[r] = asked[r]
        BY <1>1, <1>3 DEF BudgetInv, BudgetTypeOK
      <4>3. maxTokens'[r][object[r]] = Bounded(asked[r], new)
        BY <2>3, <2>7 DEF BudgetInv, BudgetTypeOK
      <4>4. IsLongest(r, new)'
        BY <2>5, <4>2 DEF IsLongest
      <4>5. ScopeIsOwn(r)'
        BY <2>5, <4>1, <4>2, <4>4 DEF ScopeIsOwn
      <4>6. LimitIsBounded(r)'
        BY <2>3, <2>5, <4>2, <4>3, <4>4 DEF LimitIsBounded, EffectiveLimit
      <4> QED  BY <3>1, <4>5, <4>6
    <3>2. CASE s # r
      <4>1. Kept(s)
        BY <1>3, <2>7, <3>2 DEF BudgetInv, BudgetTypeOK, Kept
      <4> QED  BY <4>1, KeptKeeps DEF BudgetInv
    <3> QED  BY <3>1, <3>2
  <2> QED  BY <2>8, <2>9 DEF BudgetInv
<1>4. CASE ~(p >= Context \/ scope[r] = None) /\ ~(Wanted(scope[r].requested) <= 0)
  <2>1. p < Context /\ Wanted(scope[r].requested) > 0
    BY <1>1, <1>4, ContextAssumption, ScopeRequested
  <2> QED  BY <1>3, <1>4, <2>1 DEF Validate, Slot
<1> QED
  BY <1>2, <1>4 DEF Validate, Slot

-----------------------------------------------------------------------------
(* The theorems.                                                            *)

LEMMA BudgetInvInit == BudgetInit => BudgetInv
<1> SUFFICES ASSUME BudgetInit PROVE BudgetInv
  OBVIOUS
<1>1. BudgetTypeOK
  BY DEF BudgetInit, BudgetTypeOK, Limits
<1>2. ASSUME NEW r \in Request PROVE ScopeIsOwn(r) /\ LimitIsBounded(r)
  BY DEF BudgetInit, ScopeIsOwn, LimitIsBounded
<1> QED  BY <1>1, <1>2 DEF BudgetInv

LEMMA BudgetInvNext == BudgetInv /\ [ServerNext]_serverVars => BudgetInv'
<1> SUFFICES ASSUME BudgetInv, [ServerNext]_serverVars PROVE BudgetInv'
  OBVIOUS
<1>1. CASE \E r \in Request : Admission(r)
  BY <1>1, EnterScopeKeeps, ReplaceKeeps, ValidateKeeps, RefuseKeeps, ReturnKeeps, FinishKeeps
     DEF Admission, Fail
<1>2. CASE \E r \in Request, p \in Prompt : Begin(r, p)
  BY <1>2, GenerateKeeps DEF Begin
<1>3. CASE UNCHANGED budgetVars
  <2>1. BudgetTypeOK'
    BY <1>3 DEF BudgetInv, BudgetTypeOK, budgetVars
  <2>2. ASSUME NEW s \in Request PROVE Kept(s)
    BY <1>3 DEF budgetVars, Kept
  <2> QED  BY <2>1, <2>2, KeptKeeps DEF BudgetInv
<1> QED
  BY <1>1, <1>2, <1>3 DEF ServerNext, Decode, End, serverVars

THEOREM ServerInvariance == ServerSpec => []BudgetInv
<1>1. ServerInit => BudgetInv
  BY BudgetInvInit DEF ServerInit
<1> QED  BY <1>1, BudgetInvNext, PTL DEF ServerSpec

\* The limit that a request's generation reads is its own, however many other
\* requests are admitted in between.
THEOREM ServerLimits == ServerSpec => []LimitIsOwn
<1>1. BudgetInv => LimitIsOwn
  <2> SUFFICES ASSUME BudgetInv, NEW r \in Request, prompts[r] # {}
               PROVE  EffectiveLimit(r) =
                        Min({Wanted(asked[r]), MaxOutput, Context - Max(prompts[r])})
    BY DEF LimitIsOwn
  <2>1. PICK q \in prompts[r] : IsLongest(r, q) /\ EffectiveLimit(r) = Bounded(asked[r], q)
    BY DEF BudgetInv, LimitIsBounded
  <2>2. prompts[r] \in SUBSET Nat
    BY DEF BudgetInv, BudgetTypeOK
  <2>3. Max(prompts[r]) = q
    BY <2>1, <2>2, MaxOfPrompts DEF IsLongest
  <2> QED  BY <2>1, <2>3 DEF Bounded
<1> QED  BY <1>1, ServerInvariance, PTL

\* A row never starts with less room than the decoder relies on.
LEMMA BeginJoins ==
    ASSUME BudgetInv, NEW r \in Request, NEW p \in Prompt, Begin(r, p)
    PROVE  \E q \in 0..Window, m \in 1..Window : Join(q, m)
<1>1. p \in prompts[r] /\ StartRow(p, EffectiveLimit(r)) /\ p \in Nat
  BY PromptAssumption DEF Begin, Generate
<1>2. PICK q \in prompts[r] : /\ IsLongest(r, q) /\ q < Context /\ Wanted(asked[r]) > 0
                              /\ EffectiveLimit(r) = Bounded(asked[r], q)
  BY <1>1 DEF BudgetInv, LimitIsBounded
<1>3. asked[r] \in Limits /\ q \in Nat /\ p <= q
  BY <1>1, <1>2 DEF BudgetInv, BudgetTypeOK, IsLongest
<1> DEFINE m == EffectiveLimit(r)
<1>4. m \in Int /\ m >= 1 /\ q + m <= Context
  BY <1>2, <1>3, BoundedRoom
<1> HIDE DEF m
<1>5. p \in 0..Window /\ m \in 1..Window /\ p + m <= Window
  BY <1>1, <1>3, <1>4, OneWindowAssumption, WindowAssumption
<1>6. Join(p, m)
  BY <1>1, <1>4, <1>5 DEF Join, m
<1> QED  BY <1>5, <1>6

\* Admission and decoding together implement the decoder that may rely on room
\* for its prompt and its limit: the two halves of the guard fit.
THEOREM ServerImplementsDecode == ServerSpec => DecodeSpec
<1>1. ServerInit => DecodeInit
  BY DEF ServerInit
<1>2. BudgetInv /\ [ServerNext]_serverVars => [DecodeNext]_decodeVars
  <2> SUFFICES ASSUME BudgetInv, [ServerNext]_serverVars PROVE [DecodeNext]_decodeVars
    OBVIOUS
  <2>1. CASE \E r \in Request : Admission(r)
    BY <2>1 DEF Admission
  <2>2. CASE \E r \in Request, p \in Prompt : Begin(r, p)
    BY <2>2, BeginJoins DEF DecodeNext
  <2>3. CASE Decode  BY <2>3 DEF Decode, DecodeNext
  <2>4. CASE End     BY <2>4 DEF End, DecodeNext
  <2>5. CASE UNCHANGED serverVars  BY <2>5 DEF serverVars
  <2> QED  BY <2>1, <2>2, <2>3, <2>4, <2>5 DEF ServerNext
<1> QED  BY <1>1, <1>2, ServerInvariance, PTL DEF ServerSpec, DecodeSpec

\* Whatever clients ask for and however the runtime misbehaves, no row of the
\* server passes its request's limit or the window.
THEOREM ServerStaysInside == ServerSpec => [](OutputFits /\ PositionsFit)
BY ServerImplementsDecode, DecodeStaysInside, DecodePositions, PTL
=============================================================================
