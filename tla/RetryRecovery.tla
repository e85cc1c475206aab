---------------------------- MODULE RetryRecovery ----------------------------
(***************************************************************************)
(* Recovery of invoice exceptions (inferrail/ap): decide() chooses between *)
(* one paid retry and human review, a lease marks the retry in progress, a *)
(* reaper recovers the leases of workers that died, ensure_handoff()       *)
(* completes a hand-off, and the reviewers record outcomes.                *)
(*                                                                         *)
(* Every call of the engine runs in some thread or process of its own and  *)
(* meets the others only in the SQLite store, one transaction at a time:   *)
(* a transaction, a call of the customer's retry adapter or hand-off       *)
(* callback, and what happens between two of them, are the steps.          *)
(***************************************************************************)
EXTENDS Naturals

CONSTANTS
  Cases,         \* the work_ids
  Decides,       \* calls of RecoveryEngine.decide
  Ensures,       \* recovery jobs, each calling ensure_handoff again and again
  Work,          \* the case each call is about
  None, Reaper,  \* no call; the "lease_reaper" that records an attempt
  MaxMishaps     \* bound on the calls that die and the cases that are deleted

Calls == Decides \cup Ensures

ASSUME CallAssumption ==
  /\ Decides \cap Ensures = {}
  /\ None \notin Calls /\ Reaper \notin Calls /\ None # Reaper
  /\ Work \in [Calls -> Cases]
  /\ MaxMishaps \in Nat

VARIABLES
  status,    \* table decisions: the status of each case, "none" without a row
  lease,     \* its lease: none, live, or expired
  attempt,   \* table retry_attempts: who made the attempt, and its result
  late,      \* table late_retry_results: the calls whose result came late
  handoff,   \* table handoffs: the call whose send the recorded ref is of
  pc,        \* where each call is
  verdict,   \* how its decision or its retry came out
  ref,       \* the hand-off it returned
  invoked,   \* the calls that have called the paid retry adapter
  sent,      \* the calls whose hand-off the reviewers have received
  mishaps,   \* how many calls have died and cases were deleted
  deleted    \* the cases that were deleted

vars == <<status, lease, attempt, late, handoff, pc, verdict, ref,
          invoked, sent, mishaps, deleted>>

store == <<status, lease, attempt, late, handoff>>
history == <<mishaps, deleted>>

-----------------------------------------------------------------------------
NoAttempt == [by |-> None, result |-> "none"]

Statuses == {"retry_in_progress", "retry_resolved", "awaiting_human_review", "resolved"}

Results == {"passed", "failed", "ambiguous"}

(***************************************************************************)
(* A call ends by returning, by raising HandoffSendFailed ("unsent") or    *)
(* ValueError ("refused"), or because its process dies or the store or a   *)
(* customer's plug-in raises ("broken").                                   *)
(***************************************************************************)
Ended  == {"done", "unsent", "refused", "broken"}
Places == {"start", "creating", "authorized", "calling", "recording", "late",
           "settling", "clearing", "looking", "sending", "noting"} \cup Ended

Decided(w) == status[w] # "none"

Goto(c, place) == pc' = [pc EXCEPT ![c] = place]

Init ==
  /\ status = [w \in Cases |-> "none"]
  /\ lease = [w \in Cases |-> "none"]
  /\ attempt = [w \in Cases |-> NoAttempt]
  /\ late = [w \in Cases |-> {}]
  /\ handoff = [w \in Cases |-> None]
  /\ pc = [c \in Calls |-> "start"]
  /\ verdict = [c \in Calls |-> "none"]
  /\ ref = [c \in Calls |-> None]
  /\ invoked = {}
  /\ sent = {}
  /\ mishaps = 0
  /\ deleted = {}

-----------------------------------------------------------------------------
(***************************************************************************)
(* decide: look for a decision, then evaluate the policy, then create the  *)
(* decision in a transaction that looks again.                             *)
(***************************************************************************)
GetDecision(c) ==
  /\ c \in Decides /\ pc[c] = "start"
  /\ Goto(c, IF Decided(Work[c]) THEN "done" ELSE "creating")
  /\ UNCHANGED <<store, verdict, ref, invoked, sent, history>>

InsertsDecision(w) == ~Decided(w)

ReplayDecision(c) ==
  /\ pc[c] = "creating"
  /\ ~InsertsDecision(Work[c])
  /\ Goto(c, "done")
  /\ UNCHANGED <<store, verdict, ref, invoked, sent, history>>

CreateReview(c) ==
  /\ pc[c] = "creating"
  /\ InsertsDecision(Work[c])
  /\ status' = [status EXCEPT ![Work[c]] = "awaiting_human_review"]
  /\ verdict' = [verdict EXCEPT ![c] = "review"]
  /\ Goto(c, "looking")
  /\ UNCHANGED <<lease, attempt, late, handoff, ref, invoked, sent, history>>

\* The cost of the retry is authorized, or refused, once it is recommended.
CreateRetry(c) ==
  /\ pc[c] = "creating"
  /\ InsertsDecision(Work[c])
  /\ status' = [status EXCEPT ![Work[c]] = "retry_in_progress"]
  /\ lease' = [lease EXCEPT ![Work[c]] = "live"]
  /\ \/ Goto(c, "authorized") /\ UNCHANGED verdict
     \/ Goto(c, "settling") /\ verdict' = [verdict EXCEPT ![c] = "refused"]
  /\ UNCHANGED <<attempt, late, handoff, ref, invoked, sent, history>>

-----------------------------------------------------------------------------
(***************************************************************************)
(* The retry.  An adapter that raises leaves an outcome nobody knows.      *)
(***************************************************************************)
InvokeAdapter(c) ==
  /\ pc[c] = "authorized"
  /\ invoked' = invoked \cup {c}
  /\ Goto(c, "calling")
  /\ UNCHANGED <<store, verdict, ref, sent, history>>

AdapterEnds(c) ==
  /\ pc[c] = "calling"
  /\ \E r \in Results : verdict' = [verdict EXCEPT ![c] = r]
  /\ Goto(c, "recording")
  /\ UNCHANGED <<store, ref, invoked, sent, history>>

RecordAttempt(c) ==
  /\ pc[c] = "recording"
  /\ Decided(Work[c]) /\ attempt[Work[c]] = NoAttempt
  /\ attempt' = [attempt EXCEPT ![Work[c]] = [by |-> c, result |-> verdict[c]]]
  /\ Goto(c, "settling")
  /\ UNCHANGED <<status, lease, late, handoff, verdict, ref, invoked, sent, history>>

\* AmbiguousRetryError: the case has an attempt already, the reaper's.
AttemptTaken(c) ==
  /\ pc[c] = "recording"
  /\ attempt[Work[c]] # NoAttempt
  /\ Goto(c, IF verdict[c] = "ambiguous" THEN "settling" ELSE "late")
  /\ UNCHANGED <<store, verdict, ref, invoked, sent, history>>

\* Mutant: the late result is dropped.
LateDropped(c) == late[Work[c]]

LateAfter(c) == late[Work[c]] \cup {c}

RecordLate(c) ==
  /\ pc[c] = "late" /\ Decided(Work[c])
  /\ late' = [late EXCEPT ![Work[c]] = LateAfter(c)]
  /\ Goto(c, "done")
  /\ UNCHANGED <<status, lease, attempt, handoff, verdict, ref, invoked, sent, history>>

StatusAfter(c) ==
  IF verdict[c] = "passed" THEN "retry_resolved" ELSE "awaiting_human_review"

\* The update has no condition on the status it replaces.
SetStatus(c) ==
  /\ pc[c] = "settling"
  /\ status' = [status EXCEPT ![Work[c]] = IF Decided(Work[c]) THEN StatusAfter(c) ELSE @]
  /\ Goto(c, "clearing")
  /\ UNCHANGED <<lease, attempt, late, handoff, verdict, ref, invoked, sent, history>>

ClearLease(c) ==
  /\ pc[c] = "clearing"
  /\ lease' = [lease EXCEPT ![Work[c]] = "none"]
  /\ Goto(c, IF verdict[c] = "passed" THEN "done" ELSE "looking")
  /\ UNCHANGED <<status, attempt, late, handoff, verdict, ref, invoked, sent, history>>

-----------------------------------------------------------------------------
(***************************************************************************)
(* The hand-off: look for one, send, record.  The reviewers may receive    *)
(* what the callback then raises on.                                       *)
(***************************************************************************)
\* Mutant: a case that has an attempt is not handed off.
CallsForFirstHandoff(w) == status[w] = "awaiting_human_review" /\ attempt[w] = NoAttempt

CallsForHandoff(w) == status[w] = "awaiting_human_review"

EnsureHandoff(c) ==
  /\ c \in Ensures /\ pc[c] = "start"
  /\ Goto(c, IF CallsForHandoff(Work[c]) THEN "looking" ELSE "refused")
  /\ UNCHANGED <<store, verdict, ref, invoked, sent, history>>

GetHandoff(c) ==
  /\ pc[c] = "looking"
  /\ ref' = [ref EXCEPT ![c] = handoff[Work[c]]]
  /\ Goto(c, IF handoff[Work[c]] # None THEN "done" ELSE "sending")
  /\ UNCHANGED <<store, verdict, invoked, sent, history>>

SendHandoff(c) ==
  /\ pc[c] = "sending"
  /\ sent' = sent \cup {c}
  /\ Goto(c, "noting")
  /\ UNCHANGED <<store, verdict, ref, invoked, history>>

AfterFailedSend == "unsent"

SendFails(c) ==
  /\ pc[c] = "sending"
  /\ sent' \in {sent, sent \cup {c}}
  /\ Goto(c, AfterFailedSend)
  /\ UNCHANGED <<store, verdict, ref, invoked, history>>

HandoffAfter(c) == IF handoff[Work[c]] # None THEN handoff[Work[c]] ELSE c

RecordHandoff(c) ==
  /\ pc[c] = "noting" /\ Decided(Work[c])
  /\ handoff' = [handoff EXCEPT ![Work[c]] = HandoffAfter(c)]
  /\ ref' = [ref EXCEPT ![c] = HandoffAfter(c)]
  /\ Goto(c, "done")
  /\ UNCHANGED <<status, lease, attempt, late, verdict, invoked, sent, history>>

\* The case was deleted meanwhile: an insert violates its foreign key.
StoreRefuses(c) ==
  /\ pc[c] \in {"recording", "late", "noting"}
  /\ ~Decided(Work[c])
  /\ Goto(c, "broken")
  /\ UNCHANGED <<store, verdict, ref, invoked, sent, history>>

-----------------------------------------------------------------------------
(***************************************************************************)
(* The reaper, in one transaction: of a case whose lease has expired, it   *)
(* reconciles the status with an attempt that was recorded, or else        *)
(* records one of unknown outcome.                                         *)
(***************************************************************************)
Stale(w) == status[w] = "retry_in_progress" /\ lease[w] = "expired"

\* Mutant: it records its own attempt over one of unknown outcome.
ReapsUnknown(w) == attempt[w].result \in {"none", "ambiguous"}

Reaps(w) == attempt[w] = NoAttempt

ReconciledStatus(w) ==
  IF attempt[w].result = "passed" THEN "retry_resolved" ELSE "awaiting_human_review"

ReapStaleRetry(w) ==
  /\ Stale(w)
  /\ lease' = [lease EXCEPT ![w] = "none"]
  /\ \/ /\ Reaps(w)
        /\ attempt' = [attempt EXCEPT ![w] = [by |-> Reaper, result |-> "ambiguous"]]
        /\ status' = [status EXCEPT ![w] = "awaiting_human_review"]
     \/ /\ ~Reaps(w)
        /\ status' = [status EXCEPT ![w] = ReconciledStatus(w)]
        /\ UNCHANGED attempt
  /\ UNCHANGED <<late, handoff, pc, verdict, ref, invoked, sent, history>>

LeaseExpires(w) ==
  /\ lease[w] = "live"
  /\ lease' = [lease EXCEPT ![w] = "expired"]
  /\ UNCHANGED <<status, attempt, late, handoff, pc, verdict, ref, invoked, sent, history>>

-----------------------------------------------------------------------------
(***************************************************************************)
(* The reviewers and the operator.  An outcome is accepted for any case    *)
(* that has a decision; a deletion removes all rows of one, which may then *)
(* be decided again.                                                       *)
(***************************************************************************)
RecordOutcome(w) ==
  /\ Decided(w)
  /\ status' = [status EXCEPT ![w] = "resolved"]
  /\ UNCHANGED <<lease, attempt, late, handoff, pc, verdict, ref, invoked, sent, history>>

DeleteCase(w) ==
  /\ Decided(w)
  /\ mishaps < MaxMishaps /\ mishaps' = mishaps + 1
  /\ deleted' = deleted \cup {w}
  /\ status' = [status EXCEPT ![w] = "none"]
  /\ lease' = [lease EXCEPT ![w] = "none"]
  /\ attempt' = [attempt EXCEPT ![w] = NoAttempt]
  /\ late' = [late EXCEPT ![w] = {}]
  /\ handoff' = [handoff EXCEPT ![w] = None]
  /\ UNCHANGED <<pc, verdict, ref, invoked, sent>>

\* A call's process dies, or the store or a customer's plug-in raises.
Crash(c) ==
  /\ mishaps < MaxMishaps /\ mishaps' = mishaps + 1
  /\ pc[c] \notin Ended \cup {"start"}
  /\ Goto(c, "broken")
  /\ UNCHANGED <<store, verdict, ref, invoked, sent, deleted>>

\* A recovery job calls ensure_handoff again.
Again(c) ==
  /\ c \in Ensures /\ pc[c] \in Ended
  /\ Goto(c, "start")
  /\ ref' = [ref EXCEPT ![c] = None]
  /\ UNCHANGED <<store, verdict, invoked, sent, history>>

-----------------------------------------------------------------------------
Decide(c) ==
  \/ GetDecision(c) \/ ReplayDecision(c) \/ CreateReview(c) \/ CreateRetry(c)
  \/ InvokeAdapter(c) \/ AdapterEnds(c) \/ RecordAttempt(c) \/ AttemptTaken(c)
  \/ RecordLate(c) \/ SetStatus(c) \/ ClearLease(c)

HandOff(c) ==
  \/ EnsureHandoff(c) \/ GetHandoff(c) \/ SendHandoff(c) \/ SendFails(c)
  \/ RecordHandoff(c) \/ StoreRefuses(c)

Next ==
  \/ \E c \in Calls : Decide(c) \/ HandOff(c) \/ Crash(c) \/ Again(c)
  \/ \E w \in Cases : \/ ReapStaleRetry(w) \/ LeaseExpires(w)
                      \/ RecordOutcome(w) \/ DeleteCase(w)

Spec == Init /\ [][Next]_vars

(***************************************************************************)
(* Calls go on until they end, time passes, and the operator's recovery    *)
(* jobs (the reaper, ensure_handoff) run again and again; a hand-off that  *)
(* is tried again and again is received and acknowledged at last.          *)
(***************************************************************************)
FairSpec ==
  /\ Spec
  /\ \A c \in Calls : WF_vars(Decide(c) \/ HandOff(c) \/ Again(c))
  /\ \A c \in Ensures : SF_vars(SendHandoff(c))
  /\ \A w \in Cases : WF_vars(LeaseExpires(w)) /\ WF_vars(ReapStaleRetry(w))

-----------------------------------------------------------------------------
(***************************************************************************)
(* Every variable holds a value the code can put there.                    *)
(***************************************************************************)
Attempt == [by : Calls \cup {Reaper}, result : Results] \cup {NoAttempt}

TypeOK ==
  /\ status \in [Cases -> Statuses \cup {"none"}]
  /\ lease \in [Cases -> {"none", "live", "expired"}]
  /\ attempt \in [Cases -> Attempt]
  /\ late \in [Cases -> SUBSET Calls]
  /\ handoff \in [Cases -> Calls \cup {None}]
  /\ pc \in [Calls -> Places]
  /\ verdict \in [Calls -> Results \cup {"none", "review", "refused"}]
  /\ ref \in [Calls -> Calls \cup {None}]
  /\ invoked \subseteq Calls
  /\ sent \subseteq Calls
  /\ mishaps \in Nat
  /\ deleted \subseteq Cases

\* The cases of which nothing was deleted.
Kept == Cases \ deleted

(***************************************************************************)
(* The paid retry adapter is called at most once for a case, however many  *)
(* calls decide it at once, crash or come after a reaped lease.            *)
(***************************************************************************)
RetriedAtMostOnce ==
  \A c, d \in invoked : Work[c] = Work[d] /\ Work[c] \in Kept => c = d

(***************************************************************************)
(* A retry result that came back is never lost, also when the reaper had   *)
(* given its worker up: it is the case's attempt or a late result.         *)
(***************************************************************************)
ResultKept ==
  \A c \in invoked :
    (/\ verdict[c] \in {"passed", "failed"} /\ Work[c] \in Kept
     /\ pc[c] \notin {"calling", "recording", "late", "broken"})
      => attempt[Work[c]].by = c \/ c \in late[Work[c]]

(***************************************************************************)
(* Once recorded, an attempt is never overwritten: not by the reaper, nor  *)
(* by a worker that was thought dead, nor by a second decision.            *)
(***************************************************************************)
AttemptIsFinal ==
  [][\A w \in Cases :
       attempt[w] # NoAttempt /\ Decided(w)' => attempt'[w] = attempt[w]]_vars

(***************************************************************************)
(* A case reads as resolved by its retry only with a real attempt that     *)
(* passed validation, and waits for a human only without one: whether the  *)
(* worker set the status, or the reaper, or both.                          *)
(***************************************************************************)
StatusMatchesAttempt ==
  \A w \in Kept :
    /\ status[w] = "retry_resolved" => attempt[w].result = "passed" /\ attempt[w].by \in invoked
    /\ status[w] = "awaiting_human_review" => attempt[w].result # "passed"

(***************************************************************************)
(* A retry in progress always has a lease: without one the reaper would    *)
(* never find it and the case would be stuck.                              *)
(***************************************************************************)
InProgressHasLease ==
  \A w \in Kept : status[w] = "retry_in_progress" => lease[w] # "none"

(***************************************************************************)
(* Every call that returns a hand-off returns the same one, the recorded   *)
(* one, although several may have sent.                                    *)
(***************************************************************************)
OneHandoffRef ==
  \A c \in Calls : ref[c] # None /\ Work[c] \in Kept => ref[c] = handoff[Work[c]]

(***************************************************************************)
(* A recorded hand-off was received by the reviewers.                      *)
(***************************************************************************)
HandoffWasSent == \A w \in Cases : handoff[w] # None => handoff[w] \in sent

(***************************************************************************)
(* Reviewers are never asked about a case whose retry passed validation.   *)
(***************************************************************************)
ValidatedIsNotReviewed ==
  \A c \in sent : Work[c] \in Kept => attempt[Work[c]].result # "passed"

(***************************************************************************)
(* ap/handoff.py: the callback is called exactly once for a case.          *)
(***************************************************************************)
SentOnce == \A c, d \in sent : Work[c] = Work[d] /\ Work[c] \in Kept => c = d

-----------------------------------------------------------------------------
(***************************************************************************)
(* No case stays in progress for ever, whatever became of its worker.      *)
(***************************************************************************)
RetryEnds ==
  \A w \in Cases :
    status[w] = "retry_in_progress" ~> status[w] # "retry_in_progress" \/ w \in deleted

(***************************************************************************)
(* Every case that waits for a human is handed off at last, also one whose *)
(* worker died, or whose first hand-off failed, unless it is reviewed.     *)
(***************************************************************************)
EveryReviewIsHandedOff ==
  \A w \in Cases :
    status[w] = "awaiting_human_review"
      ~> handoff[w] # None \/ status[w] # "awaiting_human_review" \/ w \in deleted

(***************************************************************************)
(* However calls, recovery jobs, the reaper and crashes meet over a case:  *)
(* one paid retry, whose result is kept and agrees with the status; no     *)
(* retry out of the reaper's sight; one hand-off, which was received, and  *)
(* of no case that passed.                                                 *)
(***************************************************************************)
RecoveryIsSafe ==
  /\ TypeOK /\ RetriedAtMostOnce /\ ResultKept /\ StatusMatchesAttempt /\ InProgressHasLease
  /\ OneHandoffRef /\ HandoffWasSent /\ ValidatedIsNotReviewed

(***************************************************************************)
(* No case is forgotten, in progress or waiting for a human.               *)
(***************************************************************************)
RecoveryEnds == RetryEnds /\ EveryReviewIsHandedOff
=============================================================================
