----------------------------- MODULE CaseService -----------------------------
(***************************************************************************)
(* The hosted recovery of invoice exceptions (hosted/ap_exceptions): the   *)
(* service decides and keeps the records of one tenant, and never retries; *)
(* its clients retry, and run the documented walkthrough, more than once   *)
(* for a case, in processes that die or lose the response to a request.    *)
(*                                                                         *)
(* A handler has no await: in the one process of the service each request  *)
(* is a step, unless that process dies between the transactions of one.    *)
(* A sandbox key expires, and when no request that it let in can still be  *)
(* running, for the grace is longer than REQUEST_TIMEOUT_SECONDS, its      *)
(* tenant's file is deleted.  Rate limits and the checks of a body refuse  *)
(* requests, which changes nothing.                                        *)
(***************************************************************************)
EXTENDS Integers, FiniteSets

CONSTANTS
  WorkIds,      \* the cases
  Runs,         \* runs of a client, each about one case, with one attempt id
  MaxRows,      \* SANDBOX_MAX_ROWS_PER_TENANT
  MaxTroubles   \* bound on lost responses, deaths and deleted cases

ASSUME CaseAssumption ==
  /\ IsFiniteSet(WorkIds) /\ IsFiniteSet(Runs) /\ MaxRows \in Nat /\ MaxTroubles \in Nat
  /\ {"nobody", "the reaper"} \cap Runs = {}

VARIABLES
  key,       \* of the sandbox: live, expired, or purged with its tenant
  decision,  \* of each case: its status and its lease
  tried,     \* the retry attempt recorded: who made it, and did it pass?
  tardy,     \* late_retry_results
  outcomes,  \* how many review outcomes were recorded
  run,       \* where each client is, of which case, with which result
  retried,   \* the runs that called their retry adapter
  answered,  \* the runs whose result was answered, as new, late or replayed
  erased,    \* the cases of which something was deleted
  troubles

caseVars == <<key, decision, tried, tardy, outcomes, run, retried, answered, erased, troubles>>

-----------------------------------------------------------------------------
NoDecision == [status |-> "none", lease |-> "none"]
NotTried   == [by |-> "nobody", passed |-> FALSE]

CaseInit ==
  /\ key = "live"
  /\ decision = [w \in WorkIds |-> NoDecision] /\ tried = [w \in WorkIds |-> NotTried]
  /\ tardy = [w \in WorkIds |-> {}] /\ outcomes = [w \in WorkIds |-> 0]
  /\ run = [r \in Runs |-> [at |-> "new", of |-> "no case", passed |-> FALSE]]
  /\ retried = {} /\ answered = {} /\ erased = {} /\ troubles = 0

On(w) == decision[w] # NoDecision

HasRow == Cardinality({w \in WorkIds : On(w)}) < MaxRows

Trouble == troubles < MaxTroubles /\ troubles' = troubles + 1

Goes(r, place) == run' = [run EXCEPT ![r].at = place]

(***************************************************************************)
(* The response to r's request comes, and r goes on to place, or is lost.  *)
(***************************************************************************)
Responds(r, place) ==
  \/ Goes(r, place) /\ UNCHANGED troubles
  \/ Trouble /\ Goes(r, "cut off")

-----------------------------------------------------------------------------
(***************************************************************************)
(* POST /v1/decisions: decided once.  A client that created the decision   *)
(* goes on with the retry, if it authorizes the cost, or with the review;  *)
(* one that finds a retry in progress has it reaped.                       *)
(***************************************************************************)
MayCreate(w) == ~On(w)

DecideCase(r, w) ==
  /\ key = "live" /\ run[r].at = "new"
  /\ \/ /\ MayCreate(w) /\ HasRow
        /\ \E retry \in BOOLEAN :
             /\ decision' = [decision EXCEPT ![w] =
                  IF retry THEN [status |-> "retry_in_progress", lease |-> "live"]
                           ELSE [status |-> "awaiting_human_review", lease |-> "none"]]
             /\ \E place \in (IF retry THEN {"retrying", "handing off"} ELSE {"handing off"}) :
                  \/ run' = [run EXCEPT ![r].at = place, ![r].of = w] /\ UNCHANGED troubles
                  \/ Trouble /\ run' = [run EXCEPT ![r].at = "cut off", ![r].of = w]
     \/ /\ On(w)
        /\ run' = [run EXCEPT ![r].at = CASE decision[w].status = "retry_in_progress" -> "reaping"
                                        [] decision[w].status = "awaiting_human_review" -> "reporting"
                                        [] OTHER -> "done",
                              ![r].of = w]
        /\ UNCHANGED <<decision, troubles>>
  /\ UNCHANGED <<key, tried, tardy, outcomes, retried, answered, erased>>

RetryLocally(r) ==
  /\ run[r].at = "retrying"
  /\ retried' = retried \cup {r}
  /\ \E passed \in BOOLEAN : run' = [run EXCEPT ![r].at = "posting", ![r].passed = passed]
  /\ UNCHANGED <<key, decision, tried, tardy, outcomes, answered, erased, troubles>>

(***************************************************************************)
(* POST retry-attempts: the first attempt recorded decides, whatever the   *)
(* status was; the same one again changes nothing; another one is late.    *)
(***************************************************************************)
StatusBy(passed) == IF passed THEN "retry_resolved" ELSE "awaiting_human_review"

FirstAttempt(r) == On(run[r].of) /\ tried[run[r].of] = NotTried

RecordedBy(r) == [tried EXCEPT ![run[r].of] = [by |-> r, passed |-> run[r].passed]]

RecordAttemptAs(r, status) ==
  decision' = [decision EXCEPT ![run[r].of] = [status |-> status, lease |-> "none"]]

LateForgotten(r) == tardy

LateKept(r) == [tardy EXCEPT ![run[r].of] = @ \cup {r}]

PostAttempt(r) ==
  LET w == run[r].of
      next == IF run[r].passed THEN "done" ELSE "handing off"
  IN
  /\ key = "live" /\ run[r].at = "posting"
  /\ On(w)
  /\ answered' = answered \cup {r}
  /\ \/ /\ FirstAttempt(r)
        /\ tried' = RecordedBy(r)
        /\ RecordAttemptAs(r, StatusBy(run[r].passed))
        /\ Responds(r, next)
        /\ UNCHANGED tardy
     \/ /\ tried[w].by = r
        /\ Responds(r, next)
        /\ UNCHANGED <<decision, tried, tardy>>
     \/ /\ tried[w] # NotTried /\ tried[w].by # r
        /\ tardy' = LateKept(r)
        /\ Responds(r, "done")
        /\ UNCHANGED <<decision, tried>>
  /\ UNCHANGED <<key, outcomes, retried, erased>>

\* The service dies once the attempt is recorded, before the status is set.
PostAttemptDies(r) ==
  /\ key = "live" /\ run[r].at = "posting"
  /\ FirstAttempt(r) /\ Trouble
  /\ tried' = RecordedBy(r)
  /\ Goes(r, "cut off")
  /\ UNCHANGED <<key, decision, tardy, outcomes, retried, answered, erased>>

\* A client that lost the response posts the same attempt again.
PostAgain(r) ==
  /\ run[r].at = "cut off" /\ r \in retried
  /\ Goes(r, "posting")
  /\ UNCHANGED <<key, decision, tried, tardy, outcomes, retried, answered, erased, troubles>>

(***************************************************************************)
(* The review: the hand-off is recorded once, the outcome is appended.     *)
(***************************************************************************)
RecordReview(r) ==
  LET w == run[r].of IN
  /\ key = "live" /\ run[r].at = "handing off"
  /\ On(w)
  /\ outcomes' = [outcomes EXCEPT ![w] = @ + 1]
  /\ decision' = [decision EXCEPT ![w].status = "resolved"]
  /\ Goes(r, "done")
  /\ UNCHANGED <<key, tried, tardy, retried, answered, erased, troubles>>

ReadReport(r) ==
  /\ key = "live" /\ run[r].at = "reporting"
  /\ Goes(r, IF On(run[r].of) /\ outcomes[run[r].of] = 0 THEN "handing off" ELSE "done")
  /\ UNCHANGED <<key, decision, tried, tardy, outcomes, retried, answered, erased, troubles>>

(***************************************************************************)
(* POST reap and reap-stale, also called on a schedule.                    *)
(***************************************************************************)
StaleCase(w) == decision[w].status = "retry_in_progress" /\ decision[w].lease = "expired"

ReapsCase(w) == tried[w] = NotTried

Reaped(w) ==
  IF StaleCase(w)
  THEN /\ decision' = [decision EXCEPT ![w] = [status |-> StatusBy(tried[w].passed), lease |-> "none"]]
       /\ tried' = IF ReapsCase(w) THEN [tried EXCEPT ![w] = [by |-> "the reaper", passed |-> FALSE]]
                   ELSE tried
  ELSE UNCHANGED <<decision, tried>>

ReapOne(r) ==
  /\ key = "live" /\ run[r].at = "reaping"
  /\ Reaped(run[r].of)
  /\ Goes(r, IF decision'[run[r].of].status = "awaiting_human_review" THEN "reporting" ELSE "done")
  /\ UNCHANGED <<key, tardy, outcomes, retried, answered, erased, troubles>>

ReapStaleCases ==
  /\ key = "live"
  /\ \E w \in WorkIds : StaleCase(w) /\ Reaped(w)
  /\ UNCHANGED <<key, tardy, outcomes, run, retried, answered, erased, troubles>>

LeaseRunsOut(w) ==
  /\ decision[w].lease = "live"
  /\ decision' = [decision EXCEPT ![w].lease = "expired"]
  /\ UNCHANGED <<key, tried, tardy, outcomes, run, retried, answered, erased, troubles>>

(***************************************************************************)
(* Deletion of a case; expiry and purge of the sandbox; a client's death.  *)
(* A request for a case that is not there, or with a key that is no longer *)
(* live, is refused, and the walkthrough ends.                             *)
(***************************************************************************)
Erased(ws) ==
  /\ decision' = [w \in WorkIds |-> IF w \in ws THEN NoDecision ELSE decision[w]]
  /\ tried' = [w \in WorkIds |-> IF w \in ws THEN NotTried ELSE tried[w]]
  /\ tardy' = [w \in WorkIds |-> IF w \in ws THEN {} ELSE tardy[w]]
  /\ outcomes' = [w \in WorkIds |-> IF w \in ws THEN 0 ELSE outcomes[w]]
  /\ erased' = erased \cup ws

EraseCase(w) ==
  /\ key = "live" /\ On(w) /\ Trouble
  /\ Erased({w})
  /\ UNCHANGED <<key, run, retried, answered>>

ExpireKey == key = "live" /\ key' = "expired"
               /\ UNCHANGED <<decision, tried, tardy, outcomes, run, retried, answered, erased, troubles>>

PurgeSandbox ==
  /\ key = "expired" /\ key' = "purged"
  /\ Erased(WorkIds)
  /\ UNCHANGED <<run, retried, answered, troubles>>

CutOff(r) ==
  /\ run[r].at \notin {"new", "done", "cut off"}
  /\ \/ Trouble
     \/ (key = "live" => ~On(run[r].of)) /\ UNCHANGED troubles
  /\ Goes(r, "cut off")
  /\ UNCHANGED <<key, decision, tried, tardy, outcomes, retried, answered, erased>>

CaseNext ==
  \/ \E r \in Runs : \/ \E w \in WorkIds : DecideCase(r, w)
                     \/ RetryLocally(r) \/ PostAttempt(r) \/ PostAttemptDies(r) \/ PostAgain(r)
                     \/ RecordReview(r) \/ ReadReport(r) \/ ReapOne(r) \/ CutOff(r)
  \/ ReapStaleCases
  \/ \E w \in WorkIds : LeaseRunsOut(w) \/ EraseCase(w)
  \/ ExpireKey \/ PurgeSandbox

CaseSpec == CaseInit /\ [][CaseNext]_caseVars

(***************************************************************************)
(* Leases run out, and the sweep is called again and again, as the README  *)
(* has it done on a schedule.                                              *)
(***************************************************************************)
CaseFairness == WF_caseVars(ReapStaleCases) /\ \A w \in WorkIds : WF_caseVars(LeaseRunsOut(w))

-----------------------------------------------------------------------------
(***************************************************************************)
(* Every variable holds values of its kind (RecoveryStore, the registry).  *)
(***************************************************************************)
CaseTypeOK ==
  /\ key \in {"live", "expired", "purged"}
  /\ \A w \in WorkIds :
       /\ decision[w].status \in {"none", "retry_in_progress", "retry_resolved",
                                  "awaiting_human_review", "resolved"}
       /\ decision[w].lease \in {"none", "live", "expired"}
       /\ tried[w].by \in {"nobody", "the reaper"} \cup Runs /\ tried[w].passed \in BOOLEAN
       /\ tardy[w] \subseteq Runs /\ outcomes[w] \in Nat
  /\ \A r \in Runs : /\ run[r].at \in {"new", "retrying", "posting", "handing off", "reaping",
                                       "reporting", "done", "cut off"}
                     /\ run[r].of \in WorkIds \cup {"no case"} /\ run[r].passed \in BOOLEAN
  /\ retried \subseteq Runs /\ answered \subseteq Runs /\ erased \subseteq WorkIds
  /\ troubles \in 0 .. MaxTroubles

(***************************************************************************)
(* However often a walkthrough is run, dies or loses a response: a case is *)
(* retried by one client at most; a result the service has answered is the *)
(* case's attempt or a late one; a case is resolved by a retry only with   *)
(* an attempt that passed; a retry in progress can be reaped; and no       *)
(* sandbox holds more rows than it may (create_decision,                   *)
(* record_retry_attempt, reap_one).                                        *)
(***************************************************************************)
AnsweredIsOnRecord ==
  /\ \A r, q \in retried : run[r].of = run[q].of /\ run[r].of \notin erased => r = q
  /\ \A r \in answered : run[r].of \notin erased => tried[run[r].of].by = r \/ r \in tardy[run[r].of]
  /\ \A w \in WorkIds :
       /\ decision[w].status = "retry_resolved" => tried[w].passed /\ tried[w].by \in retried
       /\ decision[w].status = "retry_in_progress" => decision[w].lease # "none"
  /\ Cardinality({w \in WorkIds : On(w)}) <= MaxRows

(***************************************************************************)
(* No retry stays in progress while the key lives: neither when its client *)
(* died, nor when the service died with its attempt recorded (reap_stale). *)
(***************************************************************************)
NoRetryHangs ==
  \A w \in WorkIds : decision[w].status = "retry_in_progress"
                       ~> decision[w].status # "retry_in_progress" \/ key # "live"

(***************************************************************************)
(* What the walkthrough says of itself: it never appends a second outcome. *)
(***************************************************************************)
OneOutcome == \A w \in WorkIds : outcomes[w] <= 1
=============================================================================
