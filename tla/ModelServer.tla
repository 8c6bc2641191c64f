------------------------------ MODULE ModelServer ------------------------------
(***************************************************************************)
(* A model server: admission (OutputBudget) feeds the one generation row   *)
(* (MtpDecode) that max_concurrent_requests = 1 allows.  Nothing is passed *)
(* from one to the other but the number in max_tokens of the request       *)
(* object, read when the row starts.                                       *)
(***************************************************************************)
EXTENDS OutputBudget, MtpDecode

VARIABLE row        \* the request whose row is in the batch, or None

serverVars == <<budgetVars, decodeVars, row>>

ASSUME OneWindowAssumption == Context = Window

ServerInit ==
    /\ BudgetInit
    /\ DecodeInit
    /\ row = None

Admission(r) ==
    /\ \/ \E a \in Asked : EnterScope(r, a)
       \/ Replace(r) /\ row # r
       \/ \E p \in Prompt : Validate(r, p)
       \/ Fail(r) /\ row # r
       \/ Return(r) /\ row # r
       \/ Finish(r) /\ row # r
    /\ UNCHANGED <<decodeVars, row>>

\* The scheduler takes a request whose turn it is; the limit is read now.
Begin(r, p) ==
    /\ row = None
    /\ Generate(r, p)
    /\ StartRow(p, EffectiveLimit(r))
    /\ row' = r

Decode ==
    /\ DecodeStep
    /\ UNCHANGED <<budgetVars, row>>

End ==
    /\ LeaveRow
    /\ row' = None
    /\ UNCHANGED budgetVars

ServerNext ==
    \/ \E r \in Request : Admission(r)
    \/ \E r \in Request, p \in Prompt : Begin(r, p)
    \/ Decode
    \/ End

ServerSpec == ServerInit /\ [][ServerNext]_serverVars
=============================================================================
