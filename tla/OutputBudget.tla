----------------------------- MODULE OutputBudget -----------------------------
(***************************************************************************)
(* Admission of completion requests by a model server: how secure_server.py*)
(* writes the output limit of every request before its generation starts.  *)
(* A route opens a scope (a ContextVar of the request's task) around the   *)
(* upstream endpoint; each prompt that the endpoint counts is validated in *)
(* that scope; the endpoint may replace the request object by a copy; the  *)
(* scope is closed when the endpoint returns, which for a stream is before *)
(* the body generates anything.                                            *)
(***************************************************************************)
EXTENDS Integers, FiniteSetsExt

CONSTANTS
    Request,        \* tasks of the HTTP server, one request at a time each
    None,           \* no scope; no max_tokens in the request
    Context,        \* active context window
    MaxOutput,      \* MAX_OUTPUT_TOKENS, which the settings must equal
    Asked,          \* the values of max_tokens a client may send
    Prompt          \* the lengths of prompts a client may send

ASSUME NoneAssumption == None \notin Int
ASSUME ContextAssumption == Context \in Nat \ {0}
ASSUME MaxOutputAssumption == MaxOutput \in Nat \ {0}
ASSUME AskedAssumption == Asked \subseteq Int \cup {None}
ASSUME PromptAssumption == Prompt \subseteq Nat

VARIABLES
    at,         \* idle, counting, generating (scope still open) or returned
    scope,      \* _REQUEST_OUTPUT_BUDGET, one slot per task
    outer,      \* what _request_output_scope will reset the slot to
    object,     \* the request object the endpoint works on: "sent" or "copy"
    maxTokens,  \* max_tokens of both objects of every request
    asked,      \* max_tokens as the client sent it
    prompts     \* the prompts counted so far

budgetVars == <<at, scope, outer, object, maxTokens, asked, prompts>>

\* A mutant: the budget is a global of the module.
SharedSlot(r) == CHOOSE s \in Request : TRUE

\* A ContextVar: a task reads and writes a value of its own.
Slot(r) == r

\* _bounded_max_tokens: what the client asked for, or the default.
Wanted(a) == IF a = None THEN MaxOutput ELSE a

\* A mutant: the context window is forgotten.
BoundedOutput(a, p) == Min({Wanted(a), MaxOutput})

Bounded(a, p) == Min({Wanted(a), MaxOutput, Context - p})

BudgetInit ==
    /\ at = [r \in Request |-> "idle"]
    /\ scope = [r \in Request |-> None]
    /\ outer = [r \in Request |-> None]
    /\ object = [r \in Request |-> "sent"]
    /\ maxTokens = [r \in Request |-> [sent |-> None, copy |-> None]]
    /\ asked = [r \in Request |-> None]
    /\ prompts = [r \in Request |-> {}]

\* The route of a POST: a scope around the upstream endpoint.
EnterScope(r, a) ==
    /\ at[r] = "idle"
    /\ at' = [at EXCEPT ![r] = "counting"]
    /\ asked' = [asked EXCEPT ![r] = a]
    /\ maxTokens' = [maxTokens EXCEPT ![r].sent = a]
    /\ outer' = [outer EXCEPT ![r] = scope[Slot(r)]]
    /\ scope' = [scope EXCEPT ![Slot(r)] =
                    [of |-> r, object |-> "sent", requested |-> a, maxPrompt |-> 0]]
    /\ UNCHANGED <<object, prompts>>

\* The `finally` of the scope: the slot gets back what it held before.
CloseScope(r) ==
    /\ scope' = [scope EXCEPT ![Slot(r)] = outer[r]]
    /\ outer' = [outer EXCEPT ![r] = None]

\* The request is over and its objects are garbage.
Forget(r) ==
    /\ at' = [at EXCEPT ![r] = "idle"]
    /\ object' = [object EXCEPT ![r] = "sent"]
    /\ maxTokens' = [maxTokens EXCEPT ![r] = [sent |-> None, copy |-> None]]
    /\ asked' = [asked EXCEPT ![r] = None]
    /\ prompts' = [prompts EXCEPT ![r] = {}]

\* The endpoint raises (HTTP 400 among others): no generation.
Refuse(r) ==
    /\ Forget(r)
    /\ CloseScope(r)

\* The budget of the scope that r finds is that of this object.
BudgetIsOf(r) ==
    /\ scope[Slot(r)] # None
    /\ scope[Slot(r)].of = r
    /\ scope[Slot(r)].object = object[r]

\* A mutant: the budget stays with the object the client sent.
ReplaceUnbound(r) ==
    /\ at[r] = "counting"
    /\ object[r] = "sent"
    /\ object' = [object EXCEPT ![r] = "copy"]
    /\ maxTokens' = [maxTokens EXCEPT ![r].copy = maxTokens[r].sent]
    /\ UNCHANGED <<at, scope, outer, asked, prompts>>

\* preprocess_with_output_budget when upstream hands back another object.
Replace(r) ==
    /\ at[r] = "counting"
    /\ object[r] = "sent"
    /\ IF BudgetIsOf(r)
       THEN /\ object' = [object EXCEPT ![r] = "copy"]
            /\ maxTokens' = [maxTokens EXCEPT ![r].copy = maxTokens[r].sent]
            /\ scope' = [scope EXCEPT ![Slot(r)].object = "copy"]
            /\ UNCHANGED <<at, outer, asked, prompts>>
       ELSE Refuse(r)

\* A mutant: the last prompt counts, not the longest.
ValidateLast(r, p) ==
    /\ at[r] = "counting"
    /\ p < Context
    /\ Wanted(asked[r]) > 0
    /\ maxTokens' = [maxTokens EXCEPT ![r][object[r]] = Bounded(asked[r], p)]
    /\ prompts' = [prompts EXCEPT ![r] = @ \cup {p}]
    /\ UNCHANGED <<at, scope, outer, object, asked>>

\* validate_total_context on one prompt: refuse it, or write the limit for the
\* longest prompt so far straight into the object the budget holds.
Validate(r, p) ==
    /\ at[r] = "counting"
    /\ IF p >= Context \/ scope[Slot(r)] = None
       THEN Refuse(r)
       ELSE LET budget == scope[Slot(r)]
                longest == Max({budget.maxPrompt, p})
            IN  IF Wanted(budget.requested) <= 0
                THEN Refuse(r)
                ELSE /\ scope' = [scope EXCEPT ![Slot(r)].maxPrompt = longest]
                     /\ maxTokens' = [maxTokens EXCEPT ![budget.of][budget.object] =
                                         Bounded(budget.requested, longest)]
                     /\ prompts' = [prompts EXCEPT ![r] = @ \cup {p}]
                     /\ UNCHANGED <<at, outer, object, asked>>

\* The endpoint fails for a reason of its own, while it counts or later.
Fail(r) ==
    /\ at[r] \in {"counting", "generating"}
    /\ Refuse(r)

\* The endpoint returns: with the whole answer, or with a stream to be read.
Return(r) ==
    /\ at[r] \in {"counting", "generating"}
    /\ prompts[r] # {}
    /\ at' = [at EXCEPT ![r] = "returned"]
    /\ CloseScope(r)
    /\ UNCHANGED <<object, maxTokens, asked, prompts>>

\* The limit that generation reads, on the object that it was given.
EffectiveLimit(r) == maxTokens[r][object[r]]

\* Generation starts for one of the prompts.
Generate(r, p) ==
    /\ at[r] \in {"counting", "generating", "returned"}
    /\ p \in prompts[r]
    /\ at' = [at EXCEPT ![r] = IF @ = "counting" THEN "generating" ELSE @]
    /\ UNCHANGED <<scope, outer, object, maxTokens, asked, prompts>>

\* The body of the response has been sent, or its client has gone.
Finish(r) ==
    /\ at[r] = "returned"
    /\ Forget(r)
    /\ UNCHANGED <<scope, outer>>

-----------------------------------------------------------------------------
\* From the moment a prompt of a request may be generated for, the limit on the
\* object that generation reads is the client's own wish, cut to the maximal
\* output and to what the longest of the request's own prompts leaves of the
\* window: whatever other requests do in between, whichever object upstream
\* swapped in and whenever, and although a stream reads it after the scope closed.
LimitIsOwn ==
    \A r \in Request : at[r] # "idle" /\ prompts[r] # {} =>
        EffectiveLimit(r) = Min({Wanted(asked[r]), MaxOutput, Context - Max(prompts[r])})
=============================================================================
