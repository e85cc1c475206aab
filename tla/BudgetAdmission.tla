--------------------------- MODULE BudgetAdmission ---------------------------
(***************************************************************************)
(* Budget enforcement in the gateway: the budgets database (budget rows    *)
(* and reservations), the receipts database, and the requests of several   *)
(* gateway processes that share both files.                                *)
(*                                                                         *)
(* A request makes up to MaxRetries + 1 provider attempts.  Each attempt   *)
(* is admitted in a transaction that holds SQLite's write lock: it reads,  *)
(* for every budget that covers the request, the recorded spend (from the  *)
(* receipts database, which that lock does not protect) and then the       *)
(* outstanding reservations, and reserves an estimate.  When the attempt   *)
(* ends the reservation is released or held and one receipt is written.    *)
(*                                                                         *)
(* A process runs its requests on one event loop: between two awaits a     *)
(* request keeps the loop, and these are the steps that interleave with    *)
(* those of other processes.                                               *)
(***************************************************************************)
EXTENDS Budgets

CONSTANTS
  Requests,
  Processes,
  Worker,          \* the process that serves each request
  Project, WorkId, \* the attribution of each request, or None
  Streams,         \* the requests that ask for a stream
  Estimate,        \* the pre-flight estimate of each request; None: unpriced
  Charges,         \* what the provider may bill an attempt of each request
  Declared,        \* the limit each request declares for its run, or None
  PerWorkDefault,  \* budgets.per_work_default_usd
  PerWorkMax,      \* budgets.per_work_max_usd
  AllowDeclared,   \* budgets.allow_declared_budgets
  MaxRetries,
  InitialRows,     \* the budget rows before the first request
  OperatorBudgets, \* the budgets the operator may set or remove meanwhile
  OperatorRows     \* the rows the operator may set

Attempts == Requests \X (0 .. MaxRetries)

Maybe(S) == S \cup {None}

ASSUME RequestAssumption ==
  /\ IsFiniteSet(Requests)
  /\ None \notin Requests
  /\ Worker \in [Requests -> Processes]
  /\ Streams \subseteq Requests
  /\ Estimate \in [Requests -> Maybe(Nat)]
  /\ Charges \in [Requests -> SUBSET Nat]
  /\ Declared \in [Requests -> Maybe(Nat)]
  /\ MaxRetries \in Nat

ASSUME ConfigurationAssumption ==
  /\ PerWorkDefault \in Maybe(Nat)
  /\ PerWorkMax \in Maybe(Nat)
  /\ AllowDeclared \in BOOLEAN
  /\ InitialRows \in [BudgetIds -> Row \cup {NoRow}]
  /\ OperatorBudgets \subseteq BudgetIds
  /\ OperatorRows \subseteq Row
  /\ \A r \in Requests : WorkId[r] # None => PerWorkBudget(WorkId[r]) \in BudgetIds

VARIABLES
  budgets,   \* table budgets: a row, or NoRow, for each id
  rsv,       \* table budget_reservations: no row, an active or a held one
  since,     \* the day each reservation was created (kept once it is gone)
  receipt,   \* the receipts database: the receipt of each attempt, if any
  lock,      \* the request whose transaction has the write lock, or None
  day,       \* the wall clock, in days
  pc,        \* where each request is
  attempt,   \* its attempt number
  todo,      \* the budgets its admission has still to check
  spent,     \* the recorded spend it has read of the first of them
  fault,     \* how its attempt failed
  answer,    \* the status and cost its receipt will have
  overrun,   \* the overrun it has computed for its receipt
  held,      \* the dollars its earlier attempts left held
  billed,    \* what the provider bills each attempt, known or not
  admitted   \* the attempts admitted since each row was last set or created

vars == <<budgets, rsv, since, receipt, lock, day, pc, attempt, todo, spent,
          fault, answer, overrun, held, billed, admitted>>

-----------------------------------------------------------------------------
NoReceipt == [status |-> "none", cost |-> None, day |-> 0, held |-> 0, overrun |-> 0]
NoAnswer  == [status |-> "none", cost |-> None]

Statuses == {"success", "partial", "error"}

(***************************************************************************)
(* How an attempt fails.  "rejected": an HTTP error status, or a key       *)
(* missing locally; "busy": a status worth retrying (429, 5xx);            *)
(* "timeout"; "unanswered": a transport failure or a malformed answer;     *)
(* "cancelled": the task is cancelled; "broken": an opened stream is left  *)
(* by its client or fails at the provider.                                 *)
(***************************************************************************)
Faults == {"rejected", "busy", "timeout", "unanswered", "cancelled", "broken"}

CallFaults == Faults \ {"broken"}

Retryable(f) == f \in {"busy", "timeout"}

\* Mutant: a timeout taken as "not billed".
TimeoutIsFree(f) == f \notin {"rejected", "busy", "timeout"}

AttemptMayHaveBilled(f) == f \notin {"rejected", "busy"}

(***************************************************************************)
(* The places of a request.  At those of Waiting it awaits the provider,   *)
(* its client or its turn; between them it keeps its process's event loop. *)
(***************************************************************************)
Ended   == {"done", "cancelled", "discarded", "aborted", "crashed"}
Waiting == {"ready", "calling", "opened", "streaming"}
Running == {"reading", "checking", "inserting", "reporting", "settling",
            "measured", "holding", "emitting", "releasing"}

Current(r) == <<r, attempt[r]>>

LoopFree(r) == \A q \in Requests : Worker[q] = Worker[r] => pc[q] \notin Running

\* Mutant: a deferred transaction, which takes no lock before it reads.
LockIgnored == TRUE

LockFree == lock = None

-----------------------------------------------------------------------------
(***************************************************************************)
(* The admission transaction sees the budget it inserts for its own run.   *)
(***************************************************************************)
RunBudget(r) == PerWorkBudget(WorkId[r])

RunLimit(r) == IF Declared[r] # None THEN Declared[r] ELSE PerWorkDefault

CreatesRunBudget(r) ==
  /\ WorkId[r] # None
  /\ RunLimit(r) # None
  /\ budgets[RunBudget(r)] = NoRow

RowsSeen(r) ==
  IF CreatesRunBudget(r)
  THEN [budgets EXCEPT ![RunBudget(r)] = [mode |-> "block", limit |-> RunLimit(r)]]
  ELSE budgets

\* Mutant: no conflict check against the run's existing budget.
DeclarationRefusedUnlessStored(r) ==
  Declared[r] # None /\ (~AllowDeclared \/ WorkId[r] = None
                         \/ (PerWorkMax # None /\ Declared[r] > PerWorkMax))

DeclarationRefused(r) ==
  /\ Declared[r] # None
  /\ \/ ~AllowDeclared
     \/ WorkId[r] = None
     \/ PerWorkMax # None /\ Declared[r] > PerWorkMax
     \/ /\ budgets[RunBudget(r)] # NoRow
        /\ budgets[RunBudget(r)].limit # Declared[r]

CoversRequest(b, r) == Covers(b, Project[r], WorkId[r])

MatchingBudgets(r) == {b \in BudgetIds : RowsSeen(r)[b] # NoRow /\ CoversRequest(b, r)}

FirstOf(S, b) == b \in S /\ \A c \in S : SortKey(b) <= SortKey(c)

(***************************************************************************)
(* How the transaction of a refused admission ends, and of any: SQLite     *)
(* forgets what was inserted and frees the write lock.                     *)
(***************************************************************************)
\* Mutant: a refusal returns without ending the transaction.
LockKeptByRefusal(r) == IF pc[r] = "checking" THEN r ELSE None

RowsAfterRefusal(r) == budgets

LockAfter(r) == None

(***************************************************************************)
(* Recorded spend: the priced receipts of requests the budget covers, from *)
(* its window.  Reserved: the outstanding reservations, active or held.    *)
(***************************************************************************)
Cost   == [a \in Attempts |-> IF receipt[a].cost = None THEN 0 ELSE receipt[a].cost]
Amount == [a \in Attempts |-> IF Estimate[a[1]] = None THEN 0 ELSE Estimate[a[1]]]

Recorded(b) == {a \in Attempts : /\ receipt[a].status \in {"success", "partial"}
                                 /\ CoversRequest(b, a[1])
                                 /\ receipt[a].day >= WindowStart(b, day)}

\* Mutant: the window start excluded.
OutstandingAfterStart(b) ==
  {a \in Attempts : rsv[a] # "none" /\ CoversRequest(b, a[1]) /\ since[a] > WindowStart(b, day)}

Outstanding(b) == {a \in Attempts : /\ rsv[a] # "none"
                                    /\ CoversRequest(b, a[1])
                                    /\ since[a] >= WindowStart(b, day)}

SpentSoFar(b) == Total(Cost, Recorded(b))
ReservedUsd(b) == Total(Amount, Outstanding(b))

-----------------------------------------------------------------------------
Init ==
  /\ budgets = InitialRows
  /\ rsv = [a \in Attempts |-> "none"]
  /\ since = [a \in Attempts |-> None]
  /\ receipt = [a \in Attempts |-> NoReceipt]
  /\ lock = None
  /\ day = 0
  /\ pc = [r \in Requests |-> "ready"]
  /\ attempt = [r \in Requests |-> 0]
  /\ todo = [r \in Requests |-> {}]
  /\ spent = [r \in Requests |-> 0]
  /\ fault = [r \in Requests |-> "none"]
  /\ answer = [r \in Requests |-> NoAnswer]
  /\ overrun = [r \in Requests |-> 0]
  /\ held = [r \in Requests |-> 0]
  /\ billed = [a \in Attempts |-> 0]
  /\ admitted = [b \in BudgetIds |-> {}]

Goto(r, place) == pc' = [pc EXCEPT ![r] = place]

(***************************************************************************)
(* The attempt is sent.  What the provider will bill for it, whether or    *)
(* not the gateway ever learns it, is chosen here.                         *)
(***************************************************************************)
Send(r) ==
  /\ Goto(r, "calling")
  /\ \E c \in Charges[r] : billed' = [billed EXCEPT ![Current(r)] = c]

Enrol(r) ==
  admitted' = [b \in BudgetIds |-> IF b \in MatchingBudgets(r)
                                   THEN admitted[b] \cup {Current(r)} ELSE admitted[b]]

-----------------------------------------------------------------------------
(***************************************************************************)
(* Admission.  The declaration is resolved and the matching rows are read  *)
(* in one step: other writers of the budgets database wait for the lock.   *)
(***************************************************************************)
BeginsAdmission(r) == pc[r] = "ready" /\ LoopFree(r) /\ LockFree

RefuseDeclaration(r) ==
  /\ BeginsAdmission(r)
  /\ DeclarationRefused(r)
  /\ Goto(r, "reporting")
  /\ UNCHANGED <<budgets, rsv, since, receipt, lock, day, attempt, todo, spent,
                 fault, answer, overrun, held, billed, admitted>>

\* No budget, or an unpriced model under warn budgets only.
NothingToReserve(r) ==
  \/ MatchingBudgets(r) = {}
  \/ Estimate[r] = None /\ \A b \in MatchingBudgets(r) : RowsSeen(r)[b].mode = "warn"

AdmitUnmetered(r) ==
  /\ BeginsAdmission(r)
  /\ ~DeclarationRefused(r)
  /\ NothingToReserve(r)
  /\ Enrol(r)
  /\ Send(r)
  /\ UNCHANGED <<budgets, rsv, since, receipt, lock, day, attempt, todo, spent,
                 fault, answer, overrun, held>>

RefuseUnpriced(r) ==
  /\ BeginsAdmission(r)
  /\ ~DeclarationRefused(r)
  /\ Estimate[r] = None
  /\ \E b \in MatchingBudgets(r) : RowsSeen(r)[b].mode = "block"
  /\ Goto(r, "reporting")
  /\ UNCHANGED <<budgets, rsv, since, receipt, lock, day, attempt, todo, spent,
                 fault, answer, overrun, held, billed, admitted>>

BeginChecks(r) ==
  /\ BeginsAdmission(r)
  /\ ~DeclarationRefused(r)
  /\ Estimate[r] # None
  /\ MatchingBudgets(r) # {}
  /\ lock' = r
  /\ todo' = [todo EXCEPT ![r] = MatchingBudgets(r)]
  /\ Goto(r, "reading")
  /\ UNCHANGED <<budgets, rsv, since, receipt, day, attempt, spent,
                 fault, answer, overrun, held, billed, admitted>>

ReadSpent(r) ==
  /\ pc[r] = "reading"
  /\ \E b \in todo[r] : /\ FirstOf(todo[r], b)
                        /\ spent' = [spent EXCEPT ![r] = SpentSoFar(b)]
  /\ Goto(r, "checking")
  /\ UNCHANGED <<budgets, rsv, since, receipt, lock, day, attempt, todo,
                 fault, answer, overrun, held, billed, admitted>>

Fits(r, b) == spent[r] + ReservedUsd(b) + Estimate[r] <= RowsSeen(r)[b].limit

PassBudget(r) ==
  /\ pc[r] = "checking"
  /\ \E b \in todo[r] :
       /\ FirstOf(todo[r], b)
       /\ Fits(r, b) \/ RowsSeen(r)[b].mode = "warn"
       /\ todo' = [todo EXCEPT ![r] = @ \ {b}]
  /\ Goto(r, IF todo'[r] = {} THEN "inserting" ELSE "reading")
  /\ spent' = [spent EXCEPT ![r] = 0]
  /\ UNCHANGED <<budgets, rsv, since, receipt, lock, day, attempt,
                 fault, answer, overrun, held, billed, admitted>>

\* The transaction is rolled back, and with it the run budget it created.
RefuseOverBudget(r) ==
  /\ pc[r] = "checking"
  /\ \E b \in todo[r] : /\ FirstOf(todo[r], b)
                        /\ ~Fits(r, b)
                        /\ RowsSeen(r)[b].mode = "block"
  /\ Goto(r, "reporting")
  /\ lock' = LockAfter(r)
  /\ budgets' = RowsAfterRefusal(r)
  /\ todo' = [todo EXCEPT ![r] = {}]
  /\ spent' = [spent EXCEPT ![r] = 0]
  /\ UNCHANGED <<rsv, since, receipt, day, attempt,
                 fault, answer, overrun, held, billed, admitted>>

CommitReservation(r) ==
  /\ pc[r] = "inserting"
  /\ lock' = LockAfter(r)
  /\ budgets' = RowsSeen(r)
  /\ rsv' = [rsv EXCEPT ![Current(r)] = "active"]
  /\ since' = [since EXCEPT ![Current(r)] = day]
  /\ Enrol(r)
  /\ Send(r)
  /\ UNCHANGED <<receipt, day, attempt, todo, spent, fault, answer, overrun, held>>

-----------------------------------------------------------------------------
(***************************************************************************)
(* The provider's side of an attempt.  Usage comes back priced only for a  *)
(* priced model, and may be missing; then the cost is None.                *)
(***************************************************************************)
PossibleCosts(r) ==
  IF Estimate[r] = None THEN {None} ELSE {billed[Current(r)], None}

Answered(r) ==
  /\ pc[r] = "calling" /\ LoopFree(r)
  /\ r \notin Streams
  /\ \E c \in PossibleCosts(r) :
       answer' = [answer EXCEPT ![r] = [status |-> "success", cost |-> c]]
  /\ Goto(r, "measured")
  /\ UNCHANGED <<budgets, rsv, since, receipt, lock, day, attempt, todo, spent,
                 fault, overrun, held, billed, admitted>>

\* A provider that answers an attempt with an error status bills nothing.
Fail(r) ==
  /\ pc[r] = "calling" /\ LoopFree(r)
  /\ \E f \in CallFaults :
       /\ f \in {"rejected", "busy"} => billed[Current(r)] = 0
       /\ fault' = [fault EXCEPT ![r] = f]
  /\ Goto(r, "settling")
  /\ UNCHANGED <<budgets, rsv, since, receipt, lock, day, attempt, todo, spent,
                 answer, overrun, held, billed, admitted>>

OpenStream(r) ==
  /\ pc[r] = "calling" /\ LoopFree(r)
  /\ r \in Streams
  /\ Goto(r, "opened")
  /\ UNCHANGED <<budgets, rsv, since, receipt, lock, day, attempt, todo, spent,
                 fault, answer, overrun, held, billed, admitted>>

IterateStream(r) ==
  /\ pc[r] = "opened" /\ LoopFree(r)
  /\ Goto(r, "streaming")
  /\ UNCHANGED <<budgets, rsv, since, receipt, lock, day, attempt, todo, spent,
                 fault, answer, overrun, held, billed, admitted>>

\* The server drops the response before its first item is pulled.
DiscardStream(r) ==
  /\ pc[r] = "opened" /\ LoopFree(r)
  /\ Goto(r, "discarded")
  /\ UNCHANGED <<budgets, rsv, since, receipt, lock, day, attempt, todo, spent,
                 fault, answer, overrun, held, billed, admitted>>

(***************************************************************************)
(* A stream ends: in full, broken by its client or by the provider (after  *)
(* some output or before any), or by a cancellation, which the generator   *)
(* does not catch and leaves its status as it was.                         *)
(***************************************************************************)
StreamOutcome(f) ==
  CASE f = "none" -> {"success"}
    [] f = "broken" -> {"partial", "error"}
    [] f = "cancelled" -> {"success"}

EndStream(r) ==
  /\ pc[r] = "streaming" /\ LoopFree(r)
  /\ \E f \in {"none", "broken", "cancelled"}, c \in PossibleCosts(r) :
       \E s \in StreamOutcome(f) :
         /\ s = "error" => c = None
         /\ fault' = [fault EXCEPT ![r] = f]
         /\ answer' = [answer EXCEPT ![r] = [status |-> s, cost |-> c]]
  /\ Goto(r, "measured")
  /\ UNCHANGED <<budgets, rsv, since, receipt, lock, day, attempt, todo, spent,
                 overrun, held, billed, admitted>>

-----------------------------------------------------------------------------
(***************************************************************************)
(* A failed attempt is settled, and then retried, reported or, if it was   *)
(* cancelled, left without a receipt.                                      *)
(***************************************************************************)
Holds(r) == rsv[Current(r)] # "none" /\ AttemptMayHaveBilled(fault[r])

\* Mutant: one retry more than configured.
NextAttemptTooMany(r) == Retryable(fault[r]) /\ attempt[r] <= MaxRetries

NextAttempt(r) == Retryable(fault[r]) /\ attempt[r] < MaxRetries

\* Mutant: the last attempt's hold replaces the earlier ones.
HeldLast(r) == IF Holds(r) THEN Estimate[r] ELSE held[r]

HeldAfter(r) == IF Holds(r) THEN held[r] + Estimate[r] ELSE held[r]

AfterFailure(r) ==
  IF fault[r] = "cancelled" THEN "cancelled"
  ELSE IF NextAttempt(r) THEN "ready" ELSE "reporting"

SettleFailedAttempt(r) ==
  /\ pc[r] = "settling"
  /\ rsv[Current(r)] # "none" => LockFree
  /\ rsv' = [rsv EXCEPT ![Current(r)] = IF Holds(r) THEN "held" ELSE "none"]
  /\ held' = [held EXCEPT ![r] = HeldAfter(r)]
  /\ Goto(r, AfterFailure(r))
  /\ attempt' = [attempt EXCEPT ![r] = IF NextAttempt(r) THEN @ + 1 ELSE @]
  /\ fault' = [fault EXCEPT ![r] = IF NextAttempt(r) THEN "none" ELSE @]
  /\ UNCHANGED <<budgets, since, receipt, lock, day, todo, spent,
                 answer, overrun, billed, admitted>>

\* The request is cancelled while it sleeps before its next attempt.
CancelBackoff(r) ==
  /\ pc[r] = "ready" /\ attempt[r] > 0 /\ LoopFree(r)
  /\ Goto(r, "cancelled")
  /\ UNCHANGED <<budgets, rsv, since, receipt, lock, day, attempt, todo, spent,
                 fault, answer, overrun, held, billed, admitted>>

EmitFailure(r) ==
  /\ pc[r] = "reporting"
  /\ receipt' = [receipt EXCEPT ![Current(r)] =
       [status |-> "error", cost |-> None, day |-> day, held |-> held[r], overrun |-> 0]]
  /\ Goto(r, "done")
  /\ UNCHANGED <<budgets, rsv, since, lock, day, attempt, todo, spent,
                 fault, answer, overrun, held, billed, admitted>>

-----------------------------------------------------------------------------
(***************************************************************************)
(* An answered attempt: compute its overrun, hold what cannot be priced,   *)
(* write the receipt, and only then release what can.                      *)
(***************************************************************************)
StoredMatches(r) == {b \in BudgetIds : budgets[b] # NoRow /\ CoversRequest(b, r)}

Excess(b, cost) == LET total == SpentSoFar(b) + cost
                   IN  IF total > budgets[b].limit THEN total - budgets[b].limit ELSE 0

Excesses(r, cost) == {Excess(b, cost) : b \in StoredMatches(r)} \cup {0}

\* The overrun is the worst of the matching budgets' excesses.
AugmentOverrun(r) ==
  /\ pc[r] = "measured"
  /\ IF answer[r].cost = None THEN UNCHANGED overrun
     ELSE \E x \in Excesses(r, answer[r].cost) :
            /\ \A y \in Excesses(r, answer[r].cost) : y <= x
            /\ overrun' = [overrun EXCEPT ![r] = x]
  /\ Goto(r, IF answer[r].cost = None /\ rsv[Current(r)] # "none"
             THEN "holding" ELSE "emitting")
  /\ UNCHANGED <<budgets, rsv, since, receipt, lock, day, attempt, todo, spent,
                 fault, answer, held, billed, admitted>>

HoldUnpriced(r) ==
  /\ pc[r] = "holding" /\ LockFree
  /\ rsv' = [rsv EXCEPT ![Current(r)] = "held"]
  /\ held' = [held EXCEPT ![r] = @ + Estimate[r]]
  /\ Goto(r, "emitting")
  /\ UNCHANGED <<budgets, since, receipt, lock, day, attempt, todo, spent,
                 fault, answer, overrun, billed, admitted>>

AfterReceipt(r) == IF rsv[Current(r)] = "active" THEN "releasing" ELSE "done"

EmitReceipt(r) ==
  /\ pc[r] = "emitting"
  /\ receipt' = [receipt EXCEPT ![Current(r)] =
       [status |-> answer[r].status, cost |-> answer[r].cost, day |-> day,
        held |-> held[r], overrun |-> overrun[r]]]
  /\ Goto(r, AfterReceipt(r))
  /\ UNCHANGED <<budgets, rsv, since, lock, day, attempt, todo, spent,
                 fault, answer, overrun, held, billed, admitted>>

ReleaseReservation(r) ==
  /\ pc[r] = "releasing" /\ LockFree
  /\ rsv' = [rsv EXCEPT ![Current(r)] = "none"]
  /\ Goto(r, "done")
  /\ UNCHANGED <<budgets, since, receipt, lock, day, attempt, todo, spent,
                 fault, answer, overrun, held, billed, admitted>>

-----------------------------------------------------------------------------
(***************************************************************************)
(* What can go wrong around a request.  A store call that waits longer     *)
(* than the busy timeout raises, and the request ends there, unsettled.    *)
(***************************************************************************)
NeedsLock(r) ==
  \/ pc[r] \in {"ready", "holding", "releasing"}
  \/ pc[r] = "settling" /\ rsv[Current(r)] # "none"

StoreTimeout(r) ==
  /\ NeedsLock(r)
  /\ pc[r] = "ready" => LoopFree(r)
  /\ lock # None
  /\ Worker[lock] # Worker[r]
  /\ Goto(r, "aborted")
  /\ UNCHANGED <<budgets, rsv, since, receipt, lock, day, attempt, todo, spent,
                 fault, answer, overrun, held, billed, admitted>>

\* A process dies: SQLite rolls its transaction back.  Requests that have
\* not begun are served by the process that replaces it.
Crash(p) ==
  LET begun == {r \in Requests : /\ Worker[r] = p
                                 /\ pc[r] \notin Ended
                                 /\ pc[r] # "ready" \/ attempt[r] > 0}
  IN  /\ begun # {}
      /\ pc' = [r \in Requests |-> IF r \in begun THEN "crashed" ELSE pc[r]]
      /\ lock' = IF lock \in begun THEN None ELSE lock
      /\ todo' = [r \in Requests |-> IF r \in begun THEN {} ELSE todo[r]]
      /\ spent' = [r \in Requests |-> IF r \in begun THEN 0 ELSE spent[r]]
      /\ UNCHANGED <<budgets, rsv, since, receipt, day, attempt,
                     fault, answer, overrun, held, billed, admitted>>

-----------------------------------------------------------------------------
(***************************************************************************)
(* The operator's commands, from another process, and the calendar.        *)
(***************************************************************************)
SetBudget(b, row) ==
  /\ LockFree
  /\ budgets[b] # row
  /\ budgets' = [budgets EXCEPT ![b] = row]
  /\ admitted' = [admitted EXCEPT ![b] = {}]
  /\ UNCHANGED <<rsv, since, receipt, lock, day, pc, attempt, todo, spent,
                 fault, answer, overrun, held, billed>>

RemoveBudget(b) ==
  /\ LockFree
  /\ budgets[b] # NoRow
  /\ budgets' = [budgets EXCEPT ![b] = NoRow]
  /\ admitted' = [admitted EXCEPT ![b] = {}]
  /\ UNCHANGED <<rsv, since, receipt, lock, day, pc, attempt, todo, spent,
                 fault, answer, overrun, held, billed>>

Tick ==
  /\ day < LastDay
  /\ day' = day + 1
  /\ UNCHANGED <<budgets, rsv, since, receipt, lock, pc, attempt, todo, spent,
                 fault, answer, overrun, held, billed, admitted>>

-----------------------------------------------------------------------------
Admit(r) ==
  \/ RefuseDeclaration(r) \/ AdmitUnmetered(r) \/ RefuseUnpriced(r)
  \/ BeginChecks(r) \/ ReadSpent(r) \/ PassBudget(r) \/ RefuseOverBudget(r)
  \/ CommitReservation(r)

Call(r) ==
  \/ Answered(r) \/ Fail(r) \/ OpenStream(r) \/ IterateStream(r) \/ EndStream(r)

Settle(r) ==
  \/ SettleFailedAttempt(r) \/ EmitFailure(r) \/ AugmentOverrun(r)
  \/ HoldUnpriced(r) \/ EmitReceipt(r) \/ ReleaseReservation(r)

\* What the code and the provider do with a request when nothing goes wrong.
Serve(r) == Admit(r) \/ Call(r) \/ Settle(r)

Disturb(r) == CancelBackoff(r) \/ DiscardStream(r) \/ StoreTimeout(r)

Operate == \E b \in OperatorBudgets :
             RemoveBudget(b) \/ \E row \in OperatorRows : SetBudget(b, row)

Finished == (\A r \in Requests : pc[r] \in Ended) /\ UNCHANGED vars

Next ==
  \/ \E r \in Requests : Serve(r) \/ Disturb(r)
  \/ \E p \in Processes : Crash(p)
  \/ Operate
  \/ Tick
  \/ Finished

Spec == Init /\ [][Next]_vars

(***************************************************************************)
(* A process keeps running its loop, and every wait ends: a provider call  *)
(* by its timeout, a stream by its client, its provider or its read        *)
(* timeout, a lock because its holder goes on.                             *)
(***************************************************************************)
FairSpec == Spec /\ \A r \in Requests : WF_vars(Serve(r))

-----------------------------------------------------------------------------
(***************************************************************************)
(* Every variable holds a value the code can put there.                    *)
(***************************************************************************)
Receipts == [status : Statuses, cost : Maybe(Nat), day : Days, held : Nat, overrun : Nat]
              \cup {NoReceipt}
Answers == [status : Statuses, cost : Maybe(Nat)] \cup {NoAnswer}

TypeOK ==
  /\ budgets \in [BudgetIds -> Row \cup {NoRow}]
  /\ rsv \in [Attempts -> {"none", "active", "held"}]
  /\ since \in [Attempts -> Maybe(Days)]
  /\ receipt \in [Attempts -> Receipts]
  /\ lock \in Maybe(Requests)
  /\ day \in Days
  /\ pc \in [Requests -> Ended \cup Waiting \cup Running]
  /\ attempt \in [Requests -> 0 .. MaxRetries]
  /\ todo \in [Requests -> SUBSET BudgetIds]
  /\ spent \in [Requests -> Nat]
  /\ fault \in [Requests -> Faults \cup {"none"}]
  /\ answer \in [Requests -> Answers]
  /\ overrun \in [Requests -> Nat]
  /\ held \in [Requests -> Nat]
  /\ billed \in [Attempts -> Nat]
  /\ admitted \in [BudgetIds -> SUBSET Attempts]

-----------------------------------------------------------------------------
InWindow(b) ==
  {a \in admitted[b] : since[a] = None \/ since[a] >= WindowStart(b, day)}

(***************************************************************************)
(* A block budget is never overspent by what was admitted under it: what   *)
(* the provider bills for the attempts of one window, known to the gateway *)
(* or not, stays within the limit.  This is what the admission transaction *)
(* is for (check-then-act races between processes, attempts whose cost is  *)
(* never learnt, crashes).  It needs estimates that are upper bounds.      *)
(***************************************************************************)
EstimateIsUpperBound ==
  \A r \in Requests : Estimate[r] # None => \A c \in Charges[r] : c <= Estimate[r]

AdmittedSpendWithinLimit ==
  \A b \in BudgetIds :
    budgets[b].mode = "block" => Total(billed, InWindow(b)) <= budgets[b].limit

(***************************************************************************)
(* Money billed for a metered attempt never leaves the books: until its    *)
(* cost is on a receipt that counts, its reservation is outstanding, at no *)
(* less than what was billed.                                              *)
(***************************************************************************)
MoneyAlwaysAccounted ==
  \A a \in Attempts :
    (since[a] # None /\ billed[a] > 0) =>
      \/ rsv[a] # "none" /\ Estimate[a[1]] >= billed[a]
      \/ receipt[a].status \in {"success", "partial"} /\ receipt[a].cost = billed[a]

(***************************************************************************)
(* The ledger never carries two receipts for one request, whatever its     *)
(* attempts, and a request that ends normally has one: success, partial,   *)
(* error or refusal, after any number of retries.                          *)
(***************************************************************************)
ReceiptsOf(r) == {a \in Attempts : a[1] = r /\ receipt[a] # NoReceipt}

OneReceiptPerRequest ==
  \A r \in Requests : /\ Cardinality(ReceiptsOf(r)) <= 1
                      /\ pc[r] = "done" => ReceiptsOf(r) # {}

(***************************************************************************)
(* budget_held_usd on a receipt is what the request left held, over all    *)
(* its attempts: dollars held earlier are not lost by a later attempt.     *)
(***************************************************************************)
HeldOf(r) == {a \in Attempts : a[1] = r /\ rsv[a] = "held"}

HeldIsReported ==
  \A r \in Requests : \A a \in ReceiptsOf(r) :
    receipt[a].held = Total(Amount, HeldOf(r))

(***************************************************************************)
(* Two runs cannot both be admitted under one per-run budget with          *)
(* different declared ceilings: whichever of several concurrent first      *)
(* requests creates it, every declaration admitted under it is its limit.  *)
(***************************************************************************)
DeclarationsAgree ==
  \A b \in BudgetIds : \A a \in admitted[b] :
    (b.window = "per_work" /\ Declared[a[1]] # None)
      => budgets[b].limit = Declared[a[1]]

(***************************************************************************)
(* A request that is refused leaves no budget behind: a per-run budget no  *)
(* operator can have set exists only with an attempt admitted under it.    *)
(***************************************************************************)
RefusalLeavesNoRow ==
  \A b \in BudgetIds \ OperatorBudgets :
    (budgets[b] # NoRow /\ InitialRows[b] = NoRow) => admitted[b] # {}

(***************************************************************************)
(* A recorded total over a budget's limit is visible on the receipts: one  *)
(* that counts in it carries budget_overrun_usd.                           *)
(***************************************************************************)
OverrunIsRecorded ==
  \A b \in BudgetIds :
    (budgets[b] # NoRow /\ SpentSoFar(b) > budgets[b].limit)
      => \E a \in Recorded(b) : receipt[a].overrun > 0

(***************************************************************************)
(* docs/adr/0021: overshoot has one source, a request that costs more than *)
(* its reservation.  So the spend recorded in a block budget's window      *)
(* stays within its limit when estimates are upper bounds.                 *)
(***************************************************************************)
RecordedSpendWithinLimit ==
  \A b \in BudgetIds :
    budgets[b].mode = "block" =>
      Total(Cost, Recorded(b) \cap admitted[b]) <= budgets[b].limit

(***************************************************************************)
(* gateway/execution.py: a stream that did not reach its end is recorded   *)
(* as partial, never as a success.                                         *)
(***************************************************************************)
InterruptedIsNotSuccess ==
  \A r \in Requests : \A a \in ReceiptsOf(r) :
    (r \in Streams /\ fault[r] = "cancelled") => receipt[a].status # "success"

-----------------------------------------------------------------------------
(***************************************************************************)
(* Every request ends, however its process's loop and the write lock are   *)
(* shared, and whatever fails on the way.                                  *)
(***************************************************************************)
EveryRequestEnds == \A r \in Requests : <>(pc[r] \in Ended)

(***************************************************************************)
(* No reservation stays active for ever, unless its process died, its      *)
(* stream was discarded or its settlement could not get the lock.          *)
(***************************************************************************)
Unsettled(r) == pc[r] \in {"crashed", "discarded", "aborted"}

ReservationsSettle ==
  \A a \in Attempts :
    rsv[a] = "active" ~> (rsv[a] # "active" \/ Unsettled(a[1]))

-----------------------------------------------------------------------------
(***************************************************************************)
(* The ledger this implements.  An attempt counts for its reservation as   *)
(* long as that is outstanding, and then for the cost on its receipt.      *)
(***************************************************************************)
Exposure(a) ==
  IF since[a] = None THEN 0
  ELSE IF rsv[a] # "none" THEN Estimate[a[1]]
  ELSE Cost[a]

Ledger == INSTANCE SpendLedger WITH
  Reserve <- [a \in Attempts |-> Estimate[a[1]]],
  Covered <- [b \in BudgetIds |-> {a \in Attempts : CoversRequest(b, a[1])}],
  rows <- budgets,
  charge <- [a \in Attempts |-> Exposure(a)]

(***************************************************************************)
(* The gateways, their databases and their interleavings implement the     *)
(* ledger: every admission is a single step that had room for its charge.  *)
(***************************************************************************)
ImplementsLedger == Ledger!Spec

(***************************************************************************)
(* The budget of a run is the one its admitted requests agreed to, and     *)
(* comes of an admitted request: a refused one changes nothing for the     *)
(* others.                                                                 *)
(***************************************************************************)
RunBudgetsAgree == DeclarationsAgree /\ RefusalLeavesNoRow

(***************************************************************************)
(* Every request that ended leaves one receipt, and it reports everything  *)
(* that was left held.                                                     *)
(***************************************************************************)
ReceiptTellsAll == OneReceiptPerRequest /\ HeldIsReported

(***************************************************************************)
(* Every request ends, and with it its reservations.                       *)
(***************************************************************************)
RequestsSettle == EveryRequestEnds /\ ReservationsSettle
=============================================================================
