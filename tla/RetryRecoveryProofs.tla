------------------------- MODULE RetryRecoveryProofs -------------------------
(***************************************************************************)
(* Proofs about RetryRecovery: its types, and, of every case that is not   *)
(* deleted, that it is retried at most once, that its status agrees with   *)
(* its attempt, that no result is lost, that a retry in progress can       *)
(* always be found by the reaper and that one hand-off is agreed on.       *)
(***************************************************************************)
EXTENDS RetryRecovery, TLAPS

-----------------------------------------------------------------------------
(***************************************************************************)
(* The invariant.  A call owns its case from the moment it creates a       *)
(* decision to retry it; no other call can while the decision stays.  A    *)
(* case is settled for review once no retry can still pass.                *)
(***************************************************************************)
Fresh    == {"authorized", "calling", "recording"}
Retrying == Fresh \cup {"late", "settling", "clearing"}
Handing  == {"looking", "sending", "noting"}

Owns(c) == pc[c] \in Retrying \/ c \in invoked

Settled(w) ==
  /\ Decided(w)
  /\ attempt[w].result # "passed"
  /\ \A d \in Calls : (Work[d] = w /\ pc[d] \in Fresh) => attempt[w] # NoAttempt

OwnerInv ==
  /\ \A c \in Calls : Work[c] \in Kept /\ Owns(c) => Decided(Work[c])
  /\ \A c, d \in Calls :
       (Work[c] \in Kept /\ Owns(c) /\ Owns(d) /\ Work[c] = Work[d]) => c = d
  /\ \A c \in Calls : (Owns(c) \/ pc[c] = "creating") => c \in Decides
  /\ \A c \in invoked : pc[c] \notin {"start", "creating", "authorized"}
  /\ \A w \in Cases : ~Decided(w) => attempt[w] = NoAttempt

VerdictInv ==
  /\ \A c \in Calls : pc[c] \in {"calling", "recording", "late"} => c \in invoked
  /\ \A c \in Calls : pc[c] \in {"recording", "late"} => verdict[c] \in Results
  /\ \A c \in Calls : pc[c] \in Fresh => attempt[Work[c]].by # c
  /\ \A c \in Calls :
       (Work[c] \in Kept /\ pc[c] \in {"settling", "clearing"} /\ verdict[c] = "passed")
         => attempt[Work[c]] = [by |-> c, result |-> "passed"]
  /\ \A w \in Cases : attempt[w].result = "passed"
                        => /\ attempt[w].by \in invoked
                           /\ Work[attempt[w].by] = w
                           /\ verdict[attempt[w].by] = "passed"

StatusInv ==
  /\ \A c \in Calls : Work[c] \in Kept /\ pc[c] = "clearing"
                        => status[Work[c]] # "retry_in_progress"
  /\ \A c \in Calls : (Work[c] \in Kept /\ pc[c] = "clearing" /\ verdict[c] # "passed")
                        => Settled(Work[c])
  /\ \A c \in Calls : Work[c] \in Kept /\ (pc[c] \in Handing \/ c \in sent)
                        => Settled(Work[c])
  /\ \A w \in Kept : status[w] = "awaiting_human_review" => Settled(w)

\* Of the hand-offs, whatever is deleted.
SentInv ==
  /\ \A c \in Calls : pc[c] = "noting" => c \in sent
  /\ HandoffWasSent

IInv == /\ OwnerInv /\ VerdictInv /\ StatusInv
        /\ StatusMatchesAttempt /\ InProgressHasLease /\ ResultKept /\ OneHandoffRef /\ SentInv

-----------------------------------------------------------------------------
(***************************************************************************)
(* Every variable keeps its type; what is recorded is a result.            *)
(***************************************************************************)
Recordable == \A c \in Calls : pc[c] = "recording" => verdict[c] \in Results

LEMMA TypeStep ==
  ASSUME TypeOK, Recordable, [Next]_vars
  PROVE  TypeOK' /\ Recordable'
<1> USE CallAssumption DEF TypeOK, Recordable, Calls, Places, Ended, Results, Statuses, Attempt, NoAttempt,
                           Goto, store, history
<1>1. ASSUME NEW c \in Calls, Decide(c)
      PROVE  TypeOK' /\ Recordable'
  <2>1. CASE GetDecision(c)
    BY <2>1 DEF GetDecision
  <2>2. CASE ReplayDecision(c)
    BY <2>2 DEF ReplayDecision, InsertsDecision
  <2>3. CASE CreateReview(c)
    BY <2>3 DEF CreateReview, InsertsDecision
  <2>4. CASE CreateRetry(c)
    BY <2>4 DEF CreateRetry, InsertsDecision
  <2>5. CASE InvokeAdapter(c)
    BY <2>5 DEF InvokeAdapter
  <2>6. CASE AdapterEnds(c)
    BY <2>6 DEF AdapterEnds
  <2>7. CASE RecordAttempt(c)
    BY <2>7 DEF RecordAttempt
  <2>8. CASE AttemptTaken(c)
    BY <2>8 DEF AttemptTaken
  <2>9. CASE RecordLate(c)
    BY <2>9 DEF RecordLate, LateAfter
  <2>10. CASE SetStatus(c)
    BY <2>10 DEF SetStatus, StatusAfter
  <2>11. CASE ClearLease(c)
    BY <2>11 DEF ClearLease
  <2> QED
    BY <1>1, <2>1, <2>2, <2>3, <2>4, <2>5, <2>6, <2>7, <2>8, <2>9, <2>10, <2>11 DEF Decide
<1>2. ASSUME NEW c \in Calls, HandOff(c)
      PROVE  TypeOK' /\ Recordable'
  <2>1. CASE EnsureHandoff(c)
    BY <2>1 DEF EnsureHandoff, CallsForHandoff
  <2>2. CASE GetHandoff(c)
    BY <2>2 DEF GetHandoff
  <2>3. CASE SendHandoff(c)
    BY <2>3 DEF SendHandoff
  <2>4. CASE SendFails(c)
    BY <2>4 DEF SendFails, AfterFailedSend
  <2>5. CASE RecordHandoff(c)
    BY <2>5 DEF RecordHandoff, HandoffAfter
  <2>6. CASE StoreRefuses(c)
    BY <2>6 DEF StoreRefuses
  <2> QED
    BY <1>2, <2>1, <2>2, <2>3, <2>4, <2>5, <2>6 DEF HandOff
<1>3. ASSUME NEW c \in Calls, Crash(c)
      PROVE  TypeOK' /\ Recordable'
  BY <1>3 DEF Crash, Ended
<1>4. ASSUME NEW c \in Calls, Again(c)
      PROVE  TypeOK' /\ Recordable'
  BY <1>4 DEF Again, Ended
<1>5. ASSUME NEW w \in Cases, ReapStaleRetry(w)
      PROVE  TypeOK' /\ Recordable'
  <2>1. /\ lease' \in [Cases -> {"none", "live", "expired"}]
        /\ UNCHANGED <<late, handoff, pc, verdict, ref, invoked, sent, mishaps, deleted>>
    BY <1>5 DEF ReapStaleRetry
  <2>2. status' \in [Cases -> Statuses \cup {"none"}]
    BY <1>5 DEF ReapStaleRetry, ReconciledStatus
  <2>3. attempt' \in [Cases -> Attempt]
    BY <1>5 DEF ReapStaleRetry
  <2> QED
    BY <2>1, <2>2, <2>3
<1>6. ASSUME NEW w \in Cases, LeaseExpires(w)
      PROVE  TypeOK' /\ Recordable'
  BY <1>6 DEF LeaseExpires
<1>7. ASSUME NEW w \in Cases, RecordOutcome(w)
      PROVE  TypeOK' /\ Recordable'
  BY <1>7 DEF RecordOutcome
<1>8. ASSUME NEW w \in Cases, DeleteCase(w)
      PROVE  TypeOK' /\ Recordable'
  BY <1>8 DEF DeleteCase
<1>9. CASE UNCHANGED vars
  BY <1>9 DEF vars
<1> QED
  BY <1>1, <1>2, <1>3, <1>4, <1>5, <1>6, <1>7, <1>8, <1>9 DEF Next

(***************************************************************************)
(* For every set of cases and calls, crashes and deletions included, every *)
(* variable keeps its type.                                                *)
(***************************************************************************)
THEOREM TypeCorrect == Spec => []TypeOK
<1>1. Init => TypeOK /\ Recordable
  BY CallAssumption DEF Init, TypeOK, Recordable, Calls, Places, Ended, Results, Statuses,
                        Attempt, NoAttempt
<1> QED
  BY <1>1, TypeStep, PTL DEF Spec

-----------------------------------------------------------------------------
(***************************************************************************)
(* Every step keeps the invariant.                                         *)
(***************************************************************************)
LEMMA IInvStep ==
  ASSUME TypeOK, IInv, [Next]_vars
  PROVE  IInv'
<1> USE DEF IInv
<1> USE CallAssumption DEF TypeOK, Calls, Places, Ended, Results, Attempt, NoAttempt, Decided,
           Owns, Fresh, Retrying, Handing, Settled, OwnerInv, VerdictInv, StatusInv,
           StatusMatchesAttempt, InProgressHasLease, ResultKept, OneHandoffRef, SentInv,
           HandoffWasSent, Kept, Goto, store, history
<1>1. ASSUME NEW c \in Calls, Decide(c)
      PROVE  IInv'
  <2>1. CASE GetDecision(c)
    BY <2>1 DEF GetDecision
  <2>2. CASE ReplayDecision(c)
    BY <2>2 DEF ReplayDecision, InsertsDecision
  <2>3. CASE CreateReview(c)
    BY <2>3 DEF CreateReview, InsertsDecision
  <2>4. CASE CreateRetry(c)
    BY <2>4 DEF CreateRetry, InsertsDecision
  <2>5. CASE InvokeAdapter(c)
    BY <2>5 DEF InvokeAdapter
  <2>6. CASE AdapterEnds(c)
    BY <2>6 DEF AdapterEnds
  <2>7. CASE RecordAttempt(c)
    BY <2>7 DEF RecordAttempt
  <2>8. CASE AttemptTaken(c)
    BY <2>8 DEF AttemptTaken
  <2>9. CASE RecordLate(c)
    BY <2>9 DEF RecordLate, LateAfter
  <2>10. CASE SetStatus(c)
    <3>1. OwnerInv'
      BY <2>10 DEF SetStatus, StatusAfter
    <3>2. VerdictInv'
      BY <2>10 DEF SetStatus, StatusAfter
    <3>3. StatusInv'
      BY <2>10 DEF SetStatus, StatusAfter
    <3>4. StatusMatchesAttempt'
      <4>1. Owns(c) /\ Work[c] \in Cases
        BY <2>10 DEF SetStatus
      <4>2. ASSUME Work[c] \in Kept, attempt[Work[c]].result = "passed"
            PROVE  verdict[c] = "passed"
        <5> DEFINE b == attempt[Work[c]].by
        <5>1. b \in invoked /\ Work[b] = Work[c] /\ verdict[b] = "passed"
          BY <4>1, <4>2
        <5>2. b \in Calls /\ Owns(b)
          BY <5>1
        <5>3. b = c
          BY <4>1, <4>2, <5>1, <5>2
        <5> QED
          BY <5>1, <5>3
      <4>3. ASSUME Work[c] \in Kept, verdict[c] = "passed"
            PROVE  attempt[Work[c]] = [by |-> c, result |-> "passed"] /\ c \in invoked
        <5>1. attempt[Work[c]] = [by |-> c, result |-> "passed"]
          BY <2>10, <4>3 DEF SetStatus
        <5> QED
          BY <4>1, <5>1
      <4>4. /\ \A w \in Kept : status'[w] = IF w = Work[c] /\ Decided(w) THEN StatusAfter(c)
                                                                        ELSE status[w]
            /\ Kept' = Kept
            /\ UNCHANGED <<attempt, invoked>>
        BY <2>10, <4>1 DEF SetStatus
      <4>5. ASSUME NEW w \in Kept
            PROVE  /\ status'[w] = "retry_resolved"
                         => attempt[w].result = "passed" /\ attempt[w].by \in invoked
                   /\ status'[w] = "awaiting_human_review" => attempt[w].result # "passed"
        <5>1. CASE w = Work[c]
          BY <4>1, <4>2, <4>3, <4>4, <4>5, <5>1 DEF StatusAfter
        <5>2. CASE w # Work[c]
          BY <4>4, <4>5, <5>2
        <5> QED
          BY <5>1, <5>2
      <4> QED
        BY <4>4, <4>5
    <3>5. InProgressHasLease'
      BY <2>10 DEF SetStatus, StatusAfter
    <3>6. ResultKept'
      BY <2>10 DEF SetStatus, StatusAfter
    <3>7. OneHandoffRef'
      BY <2>10 DEF SetStatus, StatusAfter
    <3>8. SentInv'
      BY <2>10 DEF SetStatus, StatusAfter
    <3> QED
      BY <3>1, <3>2, <3>3, <3>4, <3>5, <3>6, <3>7, <3>8
  <2>11. CASE ClearLease(c)
    <3>1. OwnerInv'
      BY <2>11 DEF ClearLease
    <3>2. VerdictInv'
      BY <2>11 DEF ClearLease
    <3>3. StatusInv'
      BY <2>11 DEF ClearLease
    <3>4. StatusMatchesAttempt'
      BY <2>11 DEF ClearLease
    <3>5. InProgressHasLease'
      BY <2>11 DEF ClearLease
    <3>6. ResultKept'
      BY <2>11 DEF ClearLease
    <3>7. OneHandoffRef' /\ SentInv'
      BY <2>11 DEF ClearLease
    <3> QED
      BY <3>1, <3>2, <3>3, <3>4, <3>5, <3>6, <3>7
  <2> QED
    BY <1>1, <2>1, <2>2, <2>3, <2>4, <2>5, <2>6, <2>7, <2>8, <2>9, <2>10, <2>11 DEF Decide
<1>2. ASSUME NEW c \in Calls, HandOff(c)
      PROVE  IInv'
  <2>1. CASE EnsureHandoff(c)
    BY <2>1 DEF EnsureHandoff, CallsForHandoff
  <2>2. CASE GetHandoff(c)
    BY <2>2 DEF GetHandoff
  <2>3. CASE SendHandoff(c)
    BY <2>3 DEF SendHandoff
  <2>4. CASE SendFails(c)
    BY <2>4 DEF SendFails, AfterFailedSend
  <2>5. CASE RecordHandoff(c)
    BY <2>5 DEF RecordHandoff, HandoffAfter
  <2>6. CASE StoreRefuses(c)
    BY <2>6 DEF StoreRefuses
  <2> QED
    BY <1>2, <2>1, <2>2, <2>3, <2>4, <2>5, <2>6 DEF HandOff
<1>3. ASSUME NEW c \in Calls, Crash(c)
      PROVE  IInv'
  BY <1>3 DEF Crash, Ended
<1>4. ASSUME NEW c \in Calls, Again(c)
      PROVE  IInv'
  BY <1>4 DEF Again, Ended
<1>5. ASSUME NEW w \in Cases, ReapStaleRetry(w)
      PROVE  IInv'
  <2>1. OwnerInv'
    BY <1>5 DEF ReapStaleRetry, Stale, Reaps, ReconciledStatus
  <2>2. VerdictInv'
    BY <1>5 DEF ReapStaleRetry, Stale, Reaps, ReconciledStatus
  <2>3. StatusInv'
    BY <1>5 DEF ReapStaleRetry, Stale, Reaps, ReconciledStatus
  <2>4. StatusMatchesAttempt'
    BY <1>5 DEF ReapStaleRetry, Stale, Reaps, ReconciledStatus
  <2>5. InProgressHasLease'
    BY <1>5 DEF ReapStaleRetry, Stale, Reaps, ReconciledStatus
  <2>6. ResultKept'
    BY <1>5 DEF ReapStaleRetry, Stale, Reaps, ReconciledStatus
  <2>7. OneHandoffRef'
    BY <1>5 DEF ReapStaleRetry, Stale, Reaps, ReconciledStatus
  <2>8. SentInv'
    BY <1>5 DEF ReapStaleRetry, Stale, Reaps, ReconciledStatus
  <2> QED
    BY <2>1, <2>2, <2>3, <2>4, <2>5, <2>6, <2>7, <2>8
<1>6. ASSUME NEW w \in Cases, LeaseExpires(w)
      PROVE  IInv'
  BY <1>6 DEF LeaseExpires
<1>7. ASSUME NEW w \in Cases, RecordOutcome(w)
      PROVE  IInv'
  BY <1>7 DEF RecordOutcome
<1>8. ASSUME NEW w \in Cases, DeleteCase(w)
      PROVE  IInv'
  BY <1>8 DEF DeleteCase
<1>9. CASE UNCHANGED vars
  BY <1>9 DEF vars
<1> HIDE DEF IInv, TypeOK, OwnerInv, VerdictInv, StatusInv, StatusMatchesAttempt, InProgressHasLease,
             ResultKept, OneHandoffRef, SentInv
<1> QED
  BY <1>1, <1>2, <1>3, <1>4, <1>5, <1>6, <1>7, <1>8, <1>9 DEF Next

LEMMA IInvHolds == Spec => [](TypeOK /\ IInv)
<1>1. Init => IInv
  BY CallAssumption
     DEF Init, IInv, OwnerInv, VerdictInv, StatusInv, StatusMatchesAttempt, InProgressHasLease,
         ResultKept, OneHandoffRef, SentInv, HandoffWasSent, Kept, Owns, Settled, Decided, Fresh,
         Retrying, Handing, NoAttempt, Calls, Results
<1>2. TypeOK /\ IInv /\ [Next]_vars => IInv'
  BY IInvStep
<1> QED
  BY <1>1, <1>2, TypeCorrect, PTL DEF Spec

(***************************************************************************)
(* decide() and its transaction (ap/store.py create_decision) keep the     *)
(* promise of at most one retry: for any number of calls about a case,     *)
(* whichever of them crash and whatever the reaper does, the paid adapter  *)
(* is called once.                                                         *)
(***************************************************************************)
THEOREM AtMostOneRetry == Spec => []RetriedAtMostOnce
<1>1. TypeOK /\ IInv => RetriedAtMostOnce
  BY DEF TypeOK, IInv, OwnerInv, Owns, RetriedAtMostOnce
<1> QED
  BY <1>1, IInvHolds, PTL

(***************************************************************************)
(* The worker's transition and the reaper's never disagree: a case is      *)
(* resolved by its retry exactly when a real attempt passed validation.    *)
(***************************************************************************)
THEOREM StatusAgrees == Spec => []StatusMatchesAttempt
<1>1. IInv => StatusMatchesAttempt
  BY DEF IInv
<1> QED
  BY <1>1, IInvHolds, PTL

(***************************************************************************)
(* No retry result that came back is lost to the reaper: it is recorded as *)
(* the case's attempt or as a late result.                                 *)
(***************************************************************************)
THEOREM NoResultIsLost == Spec => []ResultKept
<1>1. IInv => ResultKept
  BY DEF IInv
<1> QED
  BY <1>1, IInvHolds, PTL

(***************************************************************************)
(* No retry in progress is out of the reaper's sight: the worker gives its *)
(* lease up only after it has changed the status.                          *)
(***************************************************************************)
THEOREM LeaseIsHeld == Spec => []InProgressHasLease
<1>1. IInv => InProgressHasLease
  BY DEF IInv
<1> QED
  BY <1>1, IInvHolds, PTL

(***************************************************************************)
(* Reviewers are never handed a case whose retry passed validation, by the *)
(* worker or by any number of recovery jobs.                               *)
(***************************************************************************)
THEOREM NoReviewOfValidated == Spec => []ValidatedIsNotReviewed
<1>1. TypeOK /\ IInv => ValidatedIsNotReviewed
  BY DEF TypeOK, IInv, StatusInv, Settled, ValidatedIsNotReviewed
<1> QED
  BY <1>1, IInvHolds, PTL

(***************************************************************************)
(* However many calls send, the first recorded hand-off stays, and every   *)
(* call that returns a hand-off returns that one.                          *)
(***************************************************************************)
THEOREM OneHandoff == Spec => []OneHandoffRef
<1>1. IInv => OneHandoffRef
  BY DEF IInv
<1> QED
  BY <1>1, IInvHolds, PTL

(***************************************************************************)
(* A hand-off is recorded only after the reviewers received it.            *)
(***************************************************************************)
THEOREM HandoffIsReceived == Spec => []HandoffWasSent
<1>1. IInv => HandoffWasSent
  BY DEF IInv, SentInv
<1> QED
  BY <1>1, IInvHolds, PTL

(***************************************************************************)
(* Together: whoever meets over a case, and wherever they crash, it is     *)
(* retried for money once, its result is kept and agrees with its status,  *)
(* the reaper can find it, and the reviewers' one hand-off was received    *)
(* and is of a case that did not pass.                                     *)
(***************************************************************************)
THEOREM RecoveryStaysSafe == Spec => []RecoveryIsSafe
<1>1. TypeOK /\ RetriedAtMostOnce /\ ResultKept /\ StatusMatchesAttempt /\ InProgressHasLease
        /\ OneHandoffRef /\ HandoffWasSent /\ ValidatedIsNotReviewed
      => RecoveryIsSafe
  BY DEF RecoveryIsSafe
<1> QED
  BY <1>1, TypeCorrect, AtMostOneRetry, NoResultIsLost, StatusAgrees, LeaseIsHeld, OneHandoff,
     HandoffIsReceived, NoReviewOfValidated, PTL

(***************************************************************************)
(* Once recorded, an attempt is never overwritten (ap/store.py, where the  *)
(* work_id is the primary key): not by the reaper, nor by a worker thought *)
(* dead, nor by a second decision.  Only a deletion, which removes the     *)
(* decision too, takes it away.                                            *)
(***************************************************************************)
THEOREM AttemptsAreFinal == Spec => AttemptIsFinal
<1>1. ASSUME TypeOK, [Next]_vars, NEW w \in Cases, attempt[w] # NoAttempt, status'[w] # "none"
      PROVE  attempt'[w] = attempt[w]
  <2>1. ASSUME NEW c \in Calls, RecordAttempt(c)
        PROVE  attempt'[w] = attempt[w]
    <3>1. Work[c] # w
      BY <1>1, <2>1 DEF RecordAttempt
    <3> QED
      BY <1>1, <2>1, <3>1 DEF RecordAttempt, TypeOK
  <2>2. ASSUME NEW v \in Cases, ReapStaleRetry(v)
        PROVE  attempt'[w] = attempt[w]
    <3>1. attempt' = attempt \/ v # w
      BY <1>1, <2>2 DEF ReapStaleRetry, Reaps
    <3> QED
      BY <1>1, <2>2, <3>1 DEF ReapStaleRetry, TypeOK
  <2>3. ASSUME NEW v \in Cases, DeleteCase(v)
        PROVE  attempt'[w] = attempt[w]
    <3>1. v # w
      BY <1>1, <2>3 DEF DeleteCase, TypeOK
    <3> QED
      BY <1>1, <2>3, <3>1 DEF DeleteCase, TypeOK
  <2>4. ASSUME NEW c \in Calls,
               Decide(c) \/ HandOff(c) \/ Crash(c) \/ Again(c), ~RecordAttempt(c)
        PROVE  UNCHANGED attempt
    BY <2>4 DEF store, Decide, GetDecision, ReplayDecision, CreateReview, CreateRetry,
       InvokeAdapter, AdapterEnds, AttemptTaken, RecordLate, SetStatus, ClearLease,
       HandOff, EnsureHandoff, GetHandoff, SendHandoff, SendFails, RecordHandoff, StoreRefuses,
       Crash, Again
  <2>5. ASSUME NEW v \in Cases, LeaseExpires(v) \/ RecordOutcome(v)
        PROVE  UNCHANGED attempt
    BY <2>5 DEF LeaseExpires, RecordOutcome
  <2>6. CASE UNCHANGED vars
    BY <2>6 DEF vars
  <2> QED
    BY <1>1, <2>1, <2>2, <2>3, <2>4, <2>5, <2>6 DEF Next
<1>2. TypeOK /\ [Next]_vars =>
        [\A w \in Cases :
           attempt[w] # NoAttempt /\ Decided(w)' => attempt'[w] = attempt[w]]_vars
  BY <1>1 DEF Decided
<1> QED
  BY <1>2, TypeCorrect, PTL DEF Spec, AttemptIsFinal
=============================================================================
