-------------------------- MODULE MCBudgetAdmission --------------------------
(***************************************************************************)
(* Small instances of BudgetAdmission.  Amounts are in units of which an   *)
(* estimate is one or two and a limit one to four, so that two attempts    *)
(* compete for the last of a budget; each configuration picks the requests *)
(* (who serves them, what they declare) that make its question interesting.*)
(***************************************************************************)
EXTENDS BudgetAdmissionProofs

CONSTANTS r1, r2, r3, p1, p2

Global  == [scope |-> "global", value |-> None, window |-> "daily"]
Monthly == [scope |-> "project", value |-> "a", window |-> "monthly"]
Run == PerWorkBudget("w")

Block(limit) == [mode |-> "block", limit |-> limit]
Warn(limit)  == [mode |-> "warn", limit |-> limit]

AllOf(x) == [r \in Requests |-> x]
UpToEstimate == [r \in Requests |-> IF Estimate[r] = None THEN {0, 1} ELSE 0 .. Estimate[r]]

OneMonth == [d \in Days |-> 0]

TwoWorkers == [r \in Requests |-> IF r = r2 THEN p2 ELSE p1]
InRun      == AllOf("w")
Nowhere    == AllOf(None)
NoDeclaration == AllOf(None)
AllOne     == AllOf(1)

\* Two requests of a run and a project, each with a retry: the ceilings
\* they declare disagree, and a daily budget, the operator's, and the project's
\* monthly one have room for one of their attempts.  A third request is for a model
\* without a price.
CalendarIds  == {Run, Global, Monthly}
CalendarRows == [b \in BudgetIds |-> IF b = Run THEN NoRow ELSE Block(3)]
OperatorIds  == {Global}
OperatorChoices == {Block(1), Warn(1)}
MixedRun      == [r \in Requests |-> IF r = r3 THEN None ELSE "w"]
MixedProject  == [r \in Requests |-> IF r = r3 THEN None ELSE "a"]
MixedEstimate == [r \in Requests |-> IF r = r3 THEN None ELSE 2]
MixedCharges  == [r \in Requests |-> IF r = r1 THEN {2} ELSE {1}]
MixedLimits   == [r \in Requests |-> CASE r = r1 -> 4 [] r = r2 -> 3 [] OTHER -> None]

\* One run's default budget, which two requests with a retry each can exhaust.
RunOnly   == {Run}
RetryRows == [b \in BudgetIds |-> NoRow]

\* Warn budgets, which admit what exceeds them.
WarnRows == [b \in BudgetIds |-> Warn(1)]

\* One daily budget for one request at a time, charged what it was estimated.
GlobalOnly == {Global}
OneRows    == [b \in BudgetIds |-> Block(1)]
Full       == [r \in Requests |-> {Estimate[r]}]
=============================================================================
