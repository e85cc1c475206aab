----------------------------- MODULE RetryCosts -----------------------------
(***************************************************************************)
(* What the retry of a case costs, and what the live report says of it:    *)
(* the adapter estimates, the engine authorizes, calls and records, each   *)
(* in its own transaction; the lease may run out meanwhile and the case be *)
(* reaped, reviewed and corrected; a report reads the tables one after the *)
(* other.  Which case is retried at all, hand-offs and races for the       *)
(* decision are in RetryRecovery.                                          *)
(***************************************************************************)
EXTENDS Integers, Sequences, SequencesExt, Money

CONSTANTS
  Invoices,       \* [chars, input, output]: the text and the price of the model
  Usages,         \* [prompt, completion] tokens that a call may take
  MaxCompletion,  \* _MAX_COMPLETION_TOKENS
  CharsPerToken, RetryCostLimit, ReviewCosts, MaxReviews, MaxReports

VARIABLES
  invoice,
  caseRow,      \* the decision: status and recommended action
  attempt,      \* the row of retry_attempts
  lateResults,  \* costs
  reviewCosts,  \* of the outcomes, in order
  worker,       \* where the engine is, its estimate and the adapter's result
  billed,       \* what the provider charged for the case
  early,        \* a review was recorded while the retry was in progress
  report,       \* what a report has read, and how far it is
  reports       \* how many were begun

costVars == <<invoice, caseRow, attempt, lateResults, reviewCosts, worker, billed, early, report, reports>>

-----------------------------------------------------------------------------
(* Costs. *)

CostUnknown == -1 \* None

Amounts == Nat \cup {CostUnknown}

\* Lengths, tokens and costs are not negative; a list price has both its parts.
ASSUME CostsAssumption ==
  /\ Invoices # {} /\ Invoices \subseteq [chars : Amounts, input : Amounts, output : Amounts]
  /\ \A i \in Invoices : i.input # CostUnknown => i.output # CostUnknown
  /\ Usages \subseteq [prompt : Nat, completion : Nat] /\ ReviewCosts \subseteq Amounts
  /\ MaxCompletion \in Nat /\ CharsPerToken \in Nat \ {0} /\ RetryCostLimit \in Nat

NoAttempt == [status |-> "none", cost |-> CostUnknown, passed |-> FALSE, estimate |-> CostUnknown]

TokenCost(prompt, completion) == prompt * invoice.input + completion * invoice.output

\* OpenAIRetryAdapter.estimate_cost: no bound without a text and a list price.
EstimateCost ==
  IF invoice.chars = CostUnknown \/ invoice.input = CostUnknown THEN CostUnknown
  ELSE LET tokens == invoice.chars \div CharsPerToken
       IN  TokenCost(IF tokens < 1 THEN 1 ELSE tokens, MaxCompletion)

Authorized(estimate) == estimate # CostUnknown /\ estimate <= RetryCostLimit

\* What the adapter returns: from the answer its status, from the usage its cost.
Results ==
  [status : {"success", "partial", "ambiguous"}, usage : Usages, reported : BOOLEAN, passed : BOOLEAN]

\* Validation asks for the status success, and for confidence.
Possible(result) == result.passed => result.status = "success"

ChargeOf(usage) == TokenCost(usage.prompt, usage.completion)

CostOfResult(result) == IF result.reported THEN ChargeOf(result.usage) ELSE CostUnknown

AttemptRow(result, estimate) ==
  [status |-> result.status, cost |-> CostOfResult(result), passed |-> result.passed, estimate |-> estimate]

AmbiguousRow == [NoAttempt EXCEPT !.status = "ambiguous"]

-----------------------------------------------------------------------------
(* The report of a case from what was read of it. *)

ReportTerminal == {"retry_resolved", "resolved"}

\* Mutant: a retry that succeeded is taken for the end.
CompleteOnSuccess(d, a, rs) ==
  /\ d.status \in ReportTerminal \/ a.status = "success"
  /\ d.action = "retry" /\ a.status # "none" => a.cost # CostUnknown

Complete(d, a, rs) ==
  /\ d.status \in ReportTerminal
  /\ d.action = "retry" /\ a.status # "none" => a.cost # CostUnknown
  /\ rs # <<>> => Last(rs) # CostUnknown

\* The known components: the retry's own cost and the latest review's.
KnownCosts(d, a, rs) ==
  (IF d.action = "retry" /\ a.cost # CostUnknown THEN <<a.cost>> ELSE <<>>)
    \o (IF rs # <<>> /\ Last(rs) # CostUnknown THEN <<Last(rs)>> ELSE <<>>)

SumUp(costs) == Total(costs, DOMAIN costs)

Overrun(a) ==
  IF a.cost # CostUnknown /\ a.estimate # CostUnknown /\ a.cost > a.estimate THEN a.cost - a.estimate
  ELSE CostUnknown

LiveRow(d, a, rs, ls) ==
  [status |-> d.status, action |-> d.action, retryCost |-> a.cost, overrun |-> Overrun(a),
   observed |-> SumUp(KnownCosts(d, a, rs)), complete |-> Complete(d, a, rs),
   revisions |-> Len(rs), late |-> IF ls = <<>> THEN CostUnknown ELSE Last(ls), hasLate |-> ls # <<>>]

\* export_work_economics_events: a retry event and a review event.
ExportedEvents(a, rs) ==
  (IF a.status # "none" THEN <<[of |-> "retry", cost |-> a.cost]>> ELSE <<>>)
    \o (IF rs # <<>> THEN <<[of |-> "review", cost |-> Last(rs)]>> ELSE <<>>)

ExportedKnown(a, rs) ==
  LET exported == ExportedEvents(a, rs)
  IN  Total([i \in DOMAIN exported |-> exported[i].cost],
            {i \in DOMAIN exported : exported[i].cost # CostUnknown})

-----------------------------------------------------------------------------
NothingRead == [at |-> "idle", decision |-> caseRow, attempt |-> attempt,
                reviews |-> reviewCosts, late |-> lateResults]

CostsInit ==
  /\ invoice = (CHOOSE i \in Invoices : TRUE)
  /\ caseRow = [status |-> "none", action |-> "none"]
  /\ attempt = NoAttempt /\ lateResults = <<>> /\ reviewCosts = <<>>
  /\ worker = [at |-> "gone", estimate |-> CostUnknown, raised |-> FALSE, result |-> NoAttempt]
  /\ billed = 0 /\ early = FALSE
  /\ report = NothingRead /\ reports = 0

ToReview == caseRow' = [caseRow EXCEPT !.status = "awaiting_human_review"]

(* The engine. *)

DecideRetry ==
  /\ caseRow.status = "none"
  /\ invoice' \in Invoices
  /\ \E action \in {"retry", "human_review", "insufficient_evidence"} :
       /\ caseRow' = [status |-> IF action = "retry" THEN "retry_in_progress" ELSE "awaiting_human_review",
                       action |-> action]
       /\ worker' = [worker EXCEPT !.at = IF action = "retry" THEN "estimating" ELSE "gone"]
  /\ UNCHANGED <<attempt, lateResults, reviewCosts, billed, early, report, reports>>

Authorize ==
  /\ worker.at = "estimating"
  /\ worker' = [worker EXCEPT !.estimate = EstimateCost,
                              !.at = IF Authorized(EstimateCost) THEN "calling" ELSE "refused"]
  /\ UNCHANGED <<invoice, caseRow, attempt, lateResults, reviewCosts, billed, early, report, reports>>

LeaveToReview ==
  /\ worker.at = "refused"
  /\ ToReview
  /\ worker' = [worker EXCEPT !.at = "gone"]
  /\ UNCHANGED <<invoice, attempt, lateResults, reviewCosts, billed, early, report, reports>>

\* One request without retries: it answers, or raises, charged or not.
CallAdapter ==
  /\ worker.at = "calling"
  /\ \E result \in Results :
       /\ Possible(result)
       /\ \/ /\ billed' = billed + ChargeOf(result.usage)
             /\ worker' = [worker EXCEPT !.at = "recording",
                                         !.result = AttemptRow(result, worker.estimate)]
          \/ /\ billed' \in {billed, billed + ChargeOf(result.usage)}
             /\ worker' = [worker EXCEPT !.at = "recording", !.raised = TRUE, !.result = AmbiguousRow]
  /\ UNCHANGED <<invoice, caseRow, attempt, lateResults, reviewCosts, early, report, reports>>

\* Where another attempt is recorded already, a real result is kept as a late one.
RecordRetry ==
  /\ worker.at = "recording"
  /\ IF attempt.status = "none"
     THEN /\ attempt' = worker.result
          /\ worker' = [worker EXCEPT !.at = "settling"] /\ UNCHANGED lateResults
     ELSE /\ lateResults' = IF worker.raised THEN lateResults ELSE Append(lateResults, worker.result.cost)
          /\ worker' = [worker EXCEPT !.at = IF worker.raised THEN "settling" ELSE "gone"]
          /\ UNCHANGED attempt
  /\ UNCHANGED <<invoice, caseRow, reviewCosts, billed, early, report, reports>>

SettleCase ==
  /\ worker.at = "settling"
  /\ IF worker.result.passed THEN caseRow' = [caseRow EXCEPT !.status = "retry_resolved"] ELSE ToReview
  /\ worker' = [worker EXCEPT !.at = "gone"]
  /\ UNCHANGED <<invoice, attempt, lateResults, reviewCosts, billed, early, report, reports>>

WorkerDies ==
  /\ worker.at # "gone" /\ worker' = [worker EXCEPT !.at = "gone"]
  /\ UNCHANGED <<invoice, caseRow, attempt, lateResults, reviewCosts, billed, early, report, reports>>

(* The reaper, once the lease is stale: the worker may be dead or slow. *)

ReapStaleLease ==
  /\ caseRow.status = "retry_in_progress"
  /\ IF attempt.status = "none"
     THEN attempt' = AmbiguousRow /\ ToReview
     ELSE /\ caseRow' = [caseRow EXCEPT !.status = IF attempt.passed THEN "retry_resolved"
                                                     ELSE "awaiting_human_review"]
          /\ UNCHANGED attempt
  /\ UNCHANGED <<invoice, lateResults, reviewCosts, worker, billed, early, report, reports>>

(* The reviewer: outcomes are appended, whatever the status. *)

RecordReviewCost ==
  /\ caseRow.status # "none" /\ Len(reviewCosts) < MaxReviews
  /\ \E cost \in ReviewCosts : reviewCosts' = Append(reviewCosts, cost)
  /\ caseRow' = [caseRow EXCEPT !.status = "resolved"]
  /\ early' = (early \/ caseRow.status = "retry_in_progress")
  /\ UNCHANGED <<invoice, attempt, lateResults, worker, billed, report, reports>>

(* The report: a connection, and a read, for each table. *)

ReadsTable(from, to, next) ==
  /\ report.at = from /\ report' = [next EXCEPT !.at = to]
  /\ UNCHANGED <<invoice, caseRow, attempt, lateResults, reviewCosts, worker, billed, early>>

ReadDecision ==
  /\ caseRow.status # "none" /\ report.at \in {"idle", "built"} /\ reports < MaxReports
  /\ reports' = reports + 1
  /\ ReadsTable(report.at, "attempt", [report EXCEPT !.decision = caseRow])

ReadRetry    == UNCHANGED reports /\ ReadsTable("attempt", "reviews", [report EXCEPT !.attempt = attempt])
ReadOutcomes == UNCHANGED reports /\ ReadsTable("reviews", "late", [report EXCEPT !.reviews = reviewCosts])
ReadLate     == UNCHANGED reports /\ ReadsTable("late", "built", [report EXCEPT !.late = lateResults])

CostsNext ==
  \/ DecideRetry \/ Authorize \/ LeaveToReview \/ CallAdapter \/ RecordRetry \/ SettleCase \/ WorkerDies
  \/ ReapStaleLease \/ RecordReviewCost
  \/ ReadDecision \/ ReadRetry \/ ReadOutcomes \/ ReadLate

CostsSpec == CostsInit /\ [][CostsNext]_costVars

-----------------------------------------------------------------------------
CostsTypeOK ==
  /\ caseRow.status \in {"none", "retry_in_progress", "awaiting_human_review"} \cup ReportTerminal
  /\ attempt.cost >= CostUnknown /\ attempt.estimate >= CostUnknown /\ billed >= 0
  /\ worker.at \in {"gone", "estimating", "refused", "calling", "recording", "settling"}
  /\ report.at \in {"idle", "attempt", "reviews", "late", "built"}

(***************************************************************************)
(* However its reads fell between the steps of worker, reaper and          *)
(* reviewer: a row that calls its cost complete says what the provider     *)
(* charged for the case and what the review it knows cost, unless a review *)
(* was recorded while the retry was still in progress; it has no late      *)
(* result; a retry that cost more than the maximum shows its overrun; and  *)
(* the export never says another sum (_observed_cost, build_live_report,   *)
(* authorize_retry_cost, export_work_economics_events).                    *)
(***************************************************************************)
ReportedRow == LiveRow(report.decision, report.attempt, report.reviews, report.late)

CompleteCostsAreTrue ==
  /\ report.at = "built" /\ ReportedRow.complete /\ ~early =>
       /\ ~ReportedRow.hasLate
       /\ ReportedRow.observed = billed + IF report.reviews = <<>> THEN 0 ELSE Last(report.reviews)
  /\ attempt.cost > RetryCostLimit => Overrun(attempt) > 0
  /\ billed > 0 => EstimateCost # CostUnknown
  /\ ExportedKnown(attempt, reviewCosts) = SumUp(KnownCosts(caseRow, attempt, reviewCosts))
=============================================================================
