---------------------------- MODULE BatchAnalysis ----------------------------
(***************************************************************************)
(* The historical analysis of AP exceptions: rows of an export (attempts   *)
(* and reviews) come in, in any order and perhaps again; they are joined   *)
(* into one history per work item; each policy is asked what it would have *)
(* done at the item's first attempt and is compared with what was done.    *)
(***************************************************************************)
EXTENDS Integers, FiniteSets, SequencesExt, Money

CONSTANTS
  AttemptRows,  \* rows: work, id, number, status, at, cost, confidence
  ReviewRows,   \* rows: work, action, outcome, at, cost
  RetryFloor, ReviewThreshold,
  MaxRetryCost, \* of the live policy
  MaxExportRows

VARIABLES attempts, reviews \* the rows read so far

batchVars == <<attempts, reviews>>

Absent   == -1
NoReview == [action |-> "none", cost |-> Absent]

\* Costs are not negative.
ASSUME BatchAssumption ==
  /\ \A row \in AttemptRows : row.number \in Int /\ row.cost \in Nat \cup {Absent}
  /\ \A row \in ReviewRows : row.cost \in Nat \cup {Absent}

-----------------------------------------------------------------------------
(* Ingestion. *)

Parses(row) == row.number >= 1

\* Mutant: a row that comes again disagrees with itself.
ComesOnce(A, id) == Cardinality({i \in DOMAIN A : Parses(A[i]) /\ A[i].id = id}) = 1

\* One content for an id, however often it came.
Agreed(A, id) == Cardinality({row \in ToSet(A) : Parses(row) /\ row.id = id}) = 1

Firsts(A, w) ==
  {i \in DOMAIN A : /\ Parses(A[i]) /\ A[i].work = w /\ Agreed(A, A[i].id)
                    /\ \A j \in 1 .. i - 1 : A[j] # A[i]}

\* By attempt number; those of one number stay in the order they came.
Precedes(A, i, j) == A[i].number < A[j].number \/ (A[i].number = A[j].number /\ i < j)

Before(A, w, i) == {j \in Firsts(A, w) : Precedes(A, j, i)}

\* The k-th is the one that k - 1 others precede.
AttemptsOf(A, w) ==
  [k \in 1 .. Cardinality(Firsts(A, w)) |->
     A[First({i \in Firsts(A, w) : Cardinality(Before(A, w, i)) = k - 1})]]

\* The latest of the reviews, unless two different ones are the latest.
ReviewOf(R, w) ==
  LET versions == {row \in ToSet(R) : row.work = w}
      latest == {row \in versions : \A other \in versions : other.at <= row.at}
  IN  IF Cardinality(latest) = 1 THEN CHOOSE row \in latest : TRUE ELSE NoReview

Records(A, R) ==
  [w \in {row.work : row \in {r \in ToSet(A) : Parses(r) /\ Agreed(A, r.id)} \cup ToSet(R)} |->
     [attempts |-> AttemptsOf(A, w), review |-> ReviewOf(R, w)]]

-----------------------------------------------------------------------------
(* The policies, live and in retrospect. *)

InRetryBand(confidence) == RetryFloor <= confidence /\ confidence < ReviewThreshold

\* Costs by attempt, or by whatever they are of, those that are known added up.
SumOf(costs) == Total(costs, {i \in DOMAIN costs : costs[i] # Absent})

CostsOf(rows) == [i \in DOMAIN rows |-> rows[i].cost]

CostSoFar(record) ==
  IF \A i \in DOMAIN record.attempts : record.attempts[i].cost = Absent THEN Absent
  ELSE SumOf(CostsOf(record.attempts))

Policies == {"human_review_baseline_placeholder", "retry_once_baseline", "candidate_policy"}

RecommendBatch(policy, record) ==
  LET made == Len(record.attempts)
      unsure == made = 0 \/ record.attempts[made].confidence = Absent
  IN  CASE policy = "human_review_baseline_placeholder" ->
             IF unsure THEN "insufficient_evidence" ELSE "human_review"
        [] policy = "retry_once_baseline" ->
             IF made = 0 THEN "insufficient_evidence"
             ELSE IF made = 1 /\ record.attempts[1].status # "success" THEN "retry" ELSE "human_review"
        [] policy = "candidate_policy" ->
             IF unsure \/ CostSoFar(record) = Absent THEN "insufficient_evidence"
             ELSE IF made <= 1 /\ InRetryBand(record.attempts[made].confidence)
                  THEN "retry" ELSE "human_review"

\* policy.recommend, of a case that is not stale.
RecommendLive(case) ==
  IF ~case.eligible \/ case.confidence = Absent \/ ~case.checkFailed THEN "insufficient_evidence"
  ELSE IF case.cost <= MaxRetryCost /\ InRetryBand(case.confidence)
       THEN "retry" ELSE "human_review"

-----------------------------------------------------------------------------
(* The report. *)

Eligible(record) ==
  record.attempts = <<>>
  \/ /\ record.attempts[1].status # "success"
     /\ Len(record.attempts) <= 2
     /\ Len(record.attempts) = 2 =>
          /\ record.attempts[1].at < record.attempts[2].at
          /\ record.review # NoReview => record.attempts[2].at <= record.review.at

\* Mutant: the policy is shown the whole history.
WholeView(record) == record

\* What was known when the first attempt had failed.
CheckpointView(record) ==
  [attempts |-> IF record.attempts = <<>> THEN <<>> ELSE <<record.attempts[1]>>,
   review |-> NoReview]

ActualAction(record) ==
  IF Len(record.attempts) > 1 THEN "retry" ELSE record.review.action

\* What the decision caused, not what was spent before it: the later attempts
\* and, in the place of the first, the human review.
Caused(record) ==
  [i \in (2 .. Len(record.attempts)) \cup (IF record.review.action = "human_review" THEN {1} ELSE {}) |->
     IF i = 1 THEN record.review.cost ELSE record.attempts[i].cost]

DecisionCost(record) ==
  [known |-> \E i \in DOMAIN Caused(record) : Caused(record)[i] # Absent,
   amount |-> SumOf(Caused(record)),
   complete |-> /\ \A i \in DOMAIN Caused(record) : Caused(record)[i] # Absent
                /\ ActualAction(record) = "retry"
                     => Last(record.attempts).status = "success" \/ record.review # NoReview]

NotCosted == [known |-> FALSE, amount |-> 0, complete |-> FALSE]

\* A recommendation is compared with what was done, and costed only where they agree.
Evaluate(policy, record) ==
  LET recommended == RecommendBatch(policy, CheckpointView(record))
      actual == ActualAction(record)
      compared == recommended # "insufficient_evidence" /\ actual # "none"
  IN  [recommended |-> recommended, compared |-> compared,
       agrees |-> compared /\ recommended = actual,
       cost |-> IF compared /\ recommended = actual THEN DecisionCost(record) ELSE NotCosted]

Rows(policy, records) ==
  [w \in {x \in DOMAIN records : Eligible(records[x])} |-> Evaluate(policy, records[w])]

Agreements(rows) == {w \in DOMAIN rows : rows[w].agrees}

Summary(policy, records) ==
  LET rows == Rows(policy, records)
  IN  [total |-> Cardinality(DOMAIN rows),
       comparable |-> Cardinality({w \in DOMAIN rows : rows[w].compared}),
       agreement |-> Cardinality(Agreements(rows)),
       knownCost |-> Total([w \in DOMAIN rows |-> rows[w].cost.amount], Agreements(rows)),
       allComplete |-> \A w \in Agreements(rows) : rows[w].cost.known /\ rows[w].cost.complete]

-----------------------------------------------------------------------------
BatchInit == attempts = <<>> /\ reviews = <<>>

ReadAttempt(row) == attempts' = Append(attempts, row) /\ UNCHANGED reviews

ReadReview(row) == reviews' = Append(reviews, row) /\ UNCHANGED attempts

BatchNext ==
  /\ Len(attempts) + Len(reviews) < MaxExportRows
  /\ \/ \E row \in AttemptRows : ReadAttempt(row)
     \/ \E row \in ReviewRows : ReadReview(row)

BatchSpec == BatchInit /\ [][BatchNext]_batchVars

-----------------------------------------------------------------------------
(***************************************************************************)
(* A row that comes again -- a replayed export, a duplicate webhook --     *)
(* changes nothing (ingest); no policy's cost total counts a dollar twice, *)
(* or one that was spent before the decision (build_report, _decision_cost,*)
(* _summarize); and where both apply, the candidate policy recommends in   *)
(* retrospect what the live policy would have done.                        *)
(***************************************************************************)
ReplayChangesNothing ==
  /\ \A i \in DOMAIN attempts : Records(Append(attempts, attempts[i]), reviews) = Records(attempts, reviews)
  /\ \A i \in DOMAIN reviews : Records(attempts, Append(reviews, reviews[i])) = Records(attempts, reviews)

SpentOn(record) ==
  SumOf(CostsOf(record.attempts)) + (IF record.review.cost = Absent THEN 0 ELSE record.review.cost)

SunkIn(record) ==
  IF record.attempts = <<>> THEN 0
  ELSE IF record.attempts[1].cost = Absent THEN 0 ELSE record.attempts[1].cost

NoDollarTwice ==
  LET records == Records(attempts, reviews)
      items == DOMAIN records
      spent == Total([w \in items |-> SpentOn(records[w])], items)
      sunk == Total([w \in items |-> SunkIn(records[w])], items)
  IN  \A policy \in Policies :
        /\ Summary(policy, records).knownCost + sunk <= spent
        /\ Summary(policy, records).agreement <= Summary(policy, records).comparable

RetrospectIsLive ==
  \A w \in DOMAIN Records(attempts, reviews) :
    LET record == Records(attempts, reviews)[w]
        first == record.attempts[1]
    IN  record.attempts # <<>> /\ Eligible(record) /\ first.cost \in 0 .. MaxRetryCost =>
          RecommendBatch("candidate_policy", CheckpointView(record))
            = RecommendLive([eligible |-> TRUE, checkFailed |-> TRUE,
                             cost |-> first.cost, confidence |-> first.confidence])

BatchIsFair == ReplayChangesNothing /\ NoDollarTwice /\ RetrospectIsLive

AdviceStays ==
  LET before == Records(attempts, reviews)
      after  == Records(attempts', reviews')
  IN  \A w \in DOMAIN before \cap DOMAIN after, policy \in Policies :
        /\ before[w].attempts # <<>> /\ after[w].attempts # <<>>
        /\ before[w].attempts[1] = after[w].attempts[1]
        /\ Eligible(before[w]) /\ Eligible(after[w])
        => Evaluate(policy, before[w]).recommended = Evaluate(policy, after[w]).recommended

(***************************************************************************)
(* No hindsight: what happened after an item's first attempt, once read,   *)
(* never changes what a policy is said to recommend for it, as long as the *)
(* item can be judged at all (_checkpoint_view).                           *)
(***************************************************************************)
NoHindsight == [][AdviceStays]_batchVars
=============================================================================
