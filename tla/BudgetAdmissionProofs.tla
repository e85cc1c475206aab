------------------------ MODULE BudgetAdmissionProofs ------------------------
(***************************************************************************)
(* What BudgetAdmission guarantees for every set of requests, processes    *)
(* and budgets, every number of retries and every calendar: its types; who *)
(* has the lock and what each request's place says of its attempt; that    *)
(* requests of one run which declare its budget agree on it; what receipts *)
(* tell; and then why the limits hold and the ledger is implemented.       *)
(***************************************************************************)
EXTENDS BudgetAdmission

-----------------------------------------------------------------------------
(***************************************************************************)
(* The inductive invariant.  First, what the place of a request says of    *)
(* its current attempt.                                                    *)
(***************************************************************************)
InTransaction == {"reading", "checking", "inserting"}

Unsent(a) == /\ since[a] = None /\ rsv[a] = "none" /\ receipt[a] = NoReceipt
             /\ \A b \in BudgetIds : a \notin admitted[b]

InFlight(a) == /\ receipt[a] = NoReceipt
               /\ rsv[a] = IF since[a] = None THEN "none" ELSE "active"

LockInv == \A r \in Requests :
  /\ pc[r] \in InTransaction <=> lock = r
  /\ pc[r] \in InTransaction => Estimate[r] # None

UnsentInv == \A r \in Requests :
  /\ \A k \in 0 .. MaxRetries : k > attempt[r] => Unsent(<<r, k>>)
  /\ pc[r] \in InTransaction \cup {"ready"} => Unsent(Current(r))

FlightInv == \A r \in Requests :
  /\ pc[r] \in {"calling", "opened", "streaming", "settling", "measured"}
       => InFlight(Current(r))
  /\ pc[r] = "settling" =>
       /\ fault[r] # "none"
       /\ fault[r] \in {"rejected", "busy"} => billed[Current(r)] = 0
  /\ pc[r] = "reporting" =>
       /\ receipt[Current(r)] = NoReceipt
       /\ since[Current(r)] # None /\ rsv[Current(r)] = "none" => billed[Current(r)] = 0
       /\ rsv[Current(r)] # "active"

AnswerInv == \A r \in Requests :
  /\ pc[r] \in {"measured", "holding", "emitting"} =>
       /\ answer[r] # NoAnswer
       /\ answer[r].cost \in {billed[Current(r)], None}
       /\ answer[r].cost # None => answer[r].status \in {"success", "partial"}
       /\ receipt[Current(r)] = NoReceipt
  /\ pc[r] = "holding" => rsv[Current(r)] = "active" /\ answer[r].cost = None
  /\ pc[r] = "emitting" =>
       /\ rsv[Current(r)] = "active" => answer[r].cost # None
       /\ rsv[Current(r)] = "none" => since[Current(r)] = None
  /\ pc[r] = "releasing" =>
       /\ rsv[Current(r)] = "active"
       /\ receipt[Current(r)].status \in {"success", "partial"}
       /\ receipt[Current(r)].cost = billed[Current(r)]

(***************************************************************************)
(* Then, what the databases say of an attempt and of a budget.             *)
(***************************************************************************)
BooksInv == \A a \in Attempts :
  /\ rsv[a] # "none" => since[a] # None
  /\ since[a] # None =>
       /\ Estimate[a[1]] # None
       /\ since[a] <= day
       /\ receipt[a].cost # None =>
            /\ receipt[a].status \in {"success", "partial"}
            /\ receipt[a].cost = billed[a]
            /\ since[a] <= receipt[a].day
       /\ rsv[a] = "none" => billed[a] = 0 \/ receipt[a].cost # None

AdmittedInv == \A b \in BudgetIds :
  /\ budgets[b] = NoRow => admitted[b] = {}
  /\ \A a \in admitted[b] :
       /\ CoversRequest(b, a[1])
       /\ budgets[b].mode = "block" => since[a] # None

PlaceInv == LockInv /\ UnsentInv /\ FlightInv /\ AnswerInv /\ BooksInv /\ AdmittedInv

-----------------------------------------------------------------------------
LEMMA AttemptsFinite == IsFiniteSet(Attempts)
<1>1. IsFiniteSet(Requests) /\ MaxRetries \in Int
  BY RequestAssumption
<1>2. IsFiniteSet(0 .. MaxRetries)
  BY <1>1, FS_Interval
<1> QED
  BY <1>1, <1>2, FS_Product DEF Attempts

(***************************************************************************)
(* The sums the code takes over receipts and reservations are amounts.     *)
(***************************************************************************)
LEMMA SumsType ==
  ASSUME TypeOK, NEW b \in BudgetIds
  PROVE  SpentSoFar(b) \in Nat /\ ReservedUsd(b) \in Nat
<1>1. \A S : S \subseteq Attempts => IsFiniteSet(S)
  BY AttemptsFinite, FS_Subset
<1>2. \A a \in Attempts : Cost[a] \in Nat
  BY DEF Cost, TypeOK, Receipts, Maybe, NoReceipt
<1>3. \A a \in Attempts : Amount[a] \in Nat
  BY RequestAssumption DEF Amount, Attempts, Maybe
<1>4. Recorded(b) \subseteq Attempts /\ Outstanding(b) \subseteq Attempts
  BY DEF Recorded, Outstanding
<1>5. Total(Cost, Recorded(b)) \in Nat
  BY <1>1, <1>2, <1>4, TotalType
<1>6. Total(Amount, Outstanding(b)) \in Nat
  BY <1>1, <1>3, <1>4, TotalType
<1> QED
  BY <1>5, <1>6 DEF SpentSoFar, ReservedUsd

(***************************************************************************)
(* A request's current attempt is an attempt of it.                        *)
(***************************************************************************)
LEMMA CurrentType ==
  ASSUME TypeOK, NEW r \in Requests
  PROVE  Current(r) \in Attempts /\ Current(r)[1] = r
BY DEF Current, Attempts, TypeOK

LEMMA EnrolType ==
  ASSUME TypeOK, NEW r \in Requests, Enrol(r)
  PROVE  admitted' \in [BudgetIds -> SUBSET Attempts]
<1>1. \A b \in BudgetIds : admitted[b] \cup {Current(r)} \in SUBSET Attempts
  BY CurrentType DEF TypeOK
<1> QED
  BY <1>1 DEF TypeOK, Enrol

LEMMA SendType ==
  ASSUME TypeOK, NEW r \in Requests, Send(r)
  PROVE  billed' \in [Attempts -> Nat]
<1>1. PICK c \in Charges[r] : billed' = [billed EXCEPT ![Current(r)] = c]
  BY DEF Send
<1>2. c \in Nat
  BY RequestAssumption
<1> QED
  BY <1>1, <1>2 DEF TypeOK

LEMMA TypeInit == Init => TypeOK
BY RequestAssumption, ConfigurationAssumption, CalendarAssumption
DEF Init, TypeOK, Maybe, Receipts, Answers, Waiting, Days

LEMMA TypeStep ==
  ASSUME TypeOK, PlaceInv, [Next]_vars
  PROVE  TypeOK'
<1> USE DEF Maybe, Goto, Current
<1>1. ASSUME NEW r \in Requests, RefuseDeclaration(r)
      PROVE  TypeOK'
  BY <1>1 DEF TypeOK, RefuseDeclaration, Waiting, Running
<1>2. ASSUME NEW r \in Requests, AdmitUnmetered(r)
      PROVE  TypeOK'
  <2>1. admitted' \in [BudgetIds -> SUBSET Attempts]
    BY <1>2, EnrolType DEF AdmitUnmetered
  <2>2. billed' \in [Attempts -> Nat]
    BY <1>2, SendType DEF AdmitUnmetered
  <2> QED
    BY <1>2, <2>1, <2>2 DEF TypeOK, AdmitUnmetered, Send, Waiting, Running
<1>3. ASSUME NEW r \in Requests, RefuseUnpriced(r)
      PROVE  TypeOK'
  BY <1>3 DEF TypeOK, RefuseUnpriced, Waiting, Running
<1>4. ASSUME NEW r \in Requests, BeginChecks(r)
      PROVE  TypeOK'
  BY <1>4 DEF TypeOK, BeginChecks, Waiting, Running, MatchingBudgets
<1>5. ASSUME NEW r \in Requests, ReadSpent(r)
      PROVE  TypeOK'
  <2>1. \A b \in todo[r] : SpentSoFar(b) \in Nat
    BY SumsType DEF TypeOK
  <2> QED
    BY <1>5, <2>1 DEF TypeOK, ReadSpent, Waiting, Running, MatchingBudgets
<1>6. ASSUME NEW r \in Requests, PassBudget(r)
      PROVE  TypeOK'
  BY <1>6 DEF TypeOK, PassBudget, Waiting, Running
<1>7. ASSUME NEW r \in Requests, RefuseOverBudget(r)
      PROVE  TypeOK'
  BY <1>7 DEF TypeOK, RefuseOverBudget, Waiting, Running, LockAfter, RowsAfterRefusal
<1>8. ASSUME NEW r \in Requests, CommitReservation(r)
      PROVE  TypeOK'
  <2>1. RowsSeen(r) \in [BudgetIds -> Row \cup {NoRow}]
    BY RequestAssumption, ConfigurationAssumption
    DEF TypeOK, RowsSeen, CreatesRunBudget, RunLimit, Row, Modes, RunBudget
  <2>2. admitted' \in [BudgetIds -> SUBSET Attempts]
    BY <1>8, EnrolType DEF CommitReservation
  <2>3. billed' \in [Attempts -> Nat]
    BY <1>8, SendType DEF CommitReservation
  <2> QED
    BY <1>8, <2>1, <2>2, <2>3
    DEF TypeOK, CommitReservation, Send, LockAfter, Waiting, Running
<1>9. ASSUME NEW r \in Requests, Answered(r)
      PROVE  TypeOK'
  <2>1. PossibleCosts(r) \subseteq Nat \cup {None}
    BY DEF TypeOK, PossibleCosts, Attempts
  <2> QED
    BY <1>9, <2>1 DEF TypeOK, Answered, Answers, Statuses, Waiting, Running
<1>10. ASSUME NEW r \in Requests, Fail(r)
      PROVE  TypeOK'
  BY <1>10 DEF TypeOK, Fail, CallFaults, Waiting, Running
<1>11. ASSUME NEW r \in Requests, OpenStream(r) \/ IterateStream(r)
      PROVE  TypeOK'
  BY <1>11 DEF TypeOK, OpenStream, IterateStream, Waiting, Running
<1>12. ASSUME NEW r \in Requests, EndStream(r)
      PROVE  TypeOK'
  <2>1. PossibleCosts(r) \subseteq Nat \cup {None}
    BY DEF TypeOK, PossibleCosts, Attempts
  <2>2. \A f \in {"none", "broken", "cancelled"} : StreamOutcome(f) \subseteq Statuses
    BY DEF StreamOutcome, Statuses
  <2> QED
    BY <1>12, <2>1, <2>2 DEF TypeOK, EndStream, Answers, Faults, Waiting, Running
<1>13. ASSUME NEW r \in Requests, SettleFailedAttempt(r)
      PROVE  TypeOK'
  <2>1. HeldAfter(r) \in Nat
    BY RequestAssumption DEF HeldAfter, Holds, TypeOK, PlaceInv, BooksInv, Attempts
  <2>2. NextAttempt(r) => attempt[r] + 1 \in 0 .. MaxRetries
    BY RequestAssumption DEF NextAttempt, TypeOK
  <2>3. AfterFailure(r) \in Ended \cup Waiting \cup Running
    BY DEF AfterFailure, Ended, Waiting, Running
  <2> QED
    BY <1>13, <2>1, <2>2, <2>3 DEF TypeOK, SettleFailedAttempt
<1>14. ASSUME NEW r \in Requests, CancelBackoff(r) \/ DiscardStream(r) \/ StoreTimeout(r)
      PROVE  TypeOK'
  BY <1>14 DEF TypeOK, CancelBackoff, DiscardStream, StoreTimeout, Ended
<1>15. ASSUME NEW r \in Requests, EmitFailure(r)
      PROVE  TypeOK'
  <2>1. [status |-> "error", cost |-> None, day |-> day, held |-> held[r], overrun |-> 0]
           \in Receipts
    BY DEF TypeOK, Receipts, Statuses
  <2> QED
    BY <1>15, <2>1 DEF TypeOK, EmitFailure, Ended
<1>16. ASSUME NEW r \in Requests, AugmentOverrun(r)
      PROVE  TypeOK'
  <2>1. answer[r].cost # None => answer[r].cost \in Nat
    BY DEF TypeOK, Answers, NoAnswer
  <2>2. \A b \in BudgetIds : budgets[b] # NoRow => budgets[b].limit \in Nat
    BY DEF TypeOK, Row
  <2>3. answer[r].cost # None => Excesses(r, answer[r].cost) \subseteq Nat
    BY <2>1, <2>2, SumsType DEF Excesses, Excess, StoredMatches
  <2> QED
    BY <1>16, <2>3 DEF TypeOK, AugmentOverrun, Running
<1>17. ASSUME NEW r \in Requests, HoldUnpriced(r)
      PROVE  TypeOK'
  <2>1. rsv[Current(r)] # "none"
    BY <1>17 DEF HoldUnpriced, PlaceInv, AnswerInv
  <2>2. Estimate[r] # None
    BY <2>1, CurrentType DEF PlaceInv, BooksInv
  <2>3. held[r] + Estimate[r] \in Nat
    BY <2>2, RequestAssumption DEF TypeOK
  <2> QED
    BY <1>17, <2>3 DEF TypeOK, HoldUnpriced, Running
<1>18. ASSUME NEW r \in Requests, EmitReceipt(r)
      PROVE  TypeOK'
  <2>1. [status |-> answer[r].status, cost |-> answer[r].cost, day |-> day,
         held |-> held[r], overrun |-> overrun[r]] \in Receipts
    <3>1. answer[r] \in [status : Statuses, cost : Nat \cup {None}]
      BY <1>18 DEF EmitReceipt, PlaceInv, AnswerInv, TypeOK, Answers
    <3> QED
      BY <3>1 DEF TypeOK, Receipts
  <2>2. AfterReceipt(r) \in Ended \cup Waiting \cup Running
    BY DEF AfterReceipt, Ended, Running
  <2> QED
    BY <1>18, <2>1, <2>2 DEF TypeOK, EmitReceipt
<1>19. ASSUME NEW r \in Requests, ReleaseReservation(r)
      PROVE  TypeOK'
  BY <1>19 DEF TypeOK, ReleaseReservation, Ended
<1>20. ASSUME NEW p \in Processes, Crash(p)
      PROVE  TypeOK'
  BY <1>20 DEF TypeOK, Crash, Ended
<1>21. ASSUME Operate
      PROVE  TypeOK'
  BY <1>21, ConfigurationAssumption DEF TypeOK, Operate, SetBudget, RemoveBudget
<1>22. ASSUME Tick
      PROVE  TypeOK'
  BY <1>22, CalendarAssumption DEF TypeOK, Tick, Days
<1>23. ASSUME UNCHANGED vars
      PROVE  TypeOK'
  BY <1>23 DEF TypeOK, vars
<1> QED
  BY <1>1, <1>2, <1>3, <1>4, <1>5, <1>6, <1>7, <1>8, <1>9, <1>10, <1>11, <1>12, <1>13,
     <1>14, <1>15, <1>16, <1>17, <1>18, <1>19, <1>20, <1>21, <1>22, <1>23
  DEF Next, Serve, Admit, Call, Settle, Disturb, Finished

(***************************************************************************)
(* A transaction sees the stored rows, and possibly a new block row that   *)
(* covers its own request.                                                 *)
(***************************************************************************)
LEMMA RowsSeenFacts ==
  ASSUME TypeOK, NEW r \in Requests, NEW b \in BudgetIds
  PROVE  /\ RowsSeen(r)[b] \in Row \cup {NoRow}
         /\ budgets[b] # NoRow => RowsSeen(r)[b] = budgets[b]
         /\ RowsSeen(r)[b] # budgets[b] =>
              /\ CoversRequest(b, r)
              /\ RowsSeen(r)[b].mode = "block"
<1>1. CASE CreatesRunBudget(r)
  <2>1. /\ RunLimit(r) \in Nat
        /\ budgets[RunBudget(r)] = NoRow
        /\ WorkId[r] # None
    BY <1>1, RequestAssumption, ConfigurationAssumption DEF CreatesRunBudget, RunLimit, Maybe
  <2>2. RowsSeen(r)[b] = IF b = RunBudget(r) THEN [mode |-> "block", limit |-> RunLimit(r)]
                         ELSE budgets[b]
    BY <1>1 DEF RowsSeen, TypeOK
  <2>3. CoversRequest(RunBudget(r), r)
    BY <2>1 DEF CoversRequest, Covers, RunBudget, PerWorkBudget
  <2> QED
    BY <2>1, <2>2, <2>3 DEF TypeOK, Row, Modes
<1>2. CASE ~CreatesRunBudget(r)
  BY <1>2 DEF RowsSeen, TypeOK
<1> QED
  BY <1>1, <1>2

LEMMA PlaceStep ==
  ASSUME TypeOK, PlaceInv, [Next]_vars
  PROVE  PlaceInv'
<1> USE RequestAssumption DEF TypeOK, PlaceInv, LockInv, UnsentInv, FlightInv, AnswerInv, BooksInv,
        AdmittedInv, InTransaction, Unsent, InFlight, Goto, Current, BeginsAdmission,
        LockFree, Attempts
<1>1. ASSUME NEW r \in Requests, RefuseDeclaration(r)
      PROVE  PlaceInv'
  BY <1>1 DEF RefuseDeclaration
<1>2. ASSUME NEW r \in Requests, AdmitUnmetered(r)
      PROVE  PlaceInv'
  <2>1. LockInv' /\ UnsentInv' /\ FlightInv' /\ AnswerInv' /\ BooksInv'
    BY <1>2 DEF AdmitUnmetered, Send, Enrol, NothingToReserve
  <2>2. \A b \in MatchingBudgets(r) : budgets[b] # NoRow /\ budgets[b].mode = "warn"
    BY <1>2, RowsSeenFacts DEF AdmitUnmetered, NothingToReserve, MatchingBudgets
  <2>3. ASSUME NEW b \in BudgetIds
        PROVE  /\ admitted'[b] = {} \/ budgets[b] # NoRow
               /\ \A a \in admitted'[b] : /\ CoversRequest(b, a[1])
                                          /\ budgets[b].mode = "block" => since[a] # None
    BY <1>2, <2>2, CurrentType DEF AdmitUnmetered, Enrol, MatchingBudgets
  <2>4. AdmittedInv'
    BY <1>2, <2>3 DEF AdmitUnmetered
  <2> QED
    BY <2>1, <2>4
<1>3. ASSUME NEW r \in Requests, RefuseUnpriced(r)
      PROVE  PlaceInv'
  BY <1>3 DEF RefuseUnpriced
<1>4. ASSUME NEW r \in Requests, BeginChecks(r)
      PROVE  PlaceInv'
  BY <1>4 DEF BeginChecks
<1>5. ASSUME NEW r \in Requests, ReadSpent(r)
      PROVE  PlaceInv'
  BY <1>5 DEF ReadSpent
<1>6. ASSUME NEW r \in Requests, PassBudget(r)
      PROVE  PlaceInv'
  BY <1>6 DEF PassBudget
<1>7. ASSUME NEW r \in Requests, RefuseOverBudget(r)
      PROVE  PlaceInv'
  BY <1>7 DEF RefuseOverBudget, LockAfter, RowsAfterRefusal
<1>8. ASSUME NEW r \in Requests, CommitReservation(r)
      PROVE  PlaceInv'
  <2>1. LockInv' /\ UnsentInv' /\ AnswerInv'
    BY <1>8 DEF CommitReservation, Send, Enrol, LockAfter
  <2>2. since' = [since EXCEPT ![Current(r)] = day] /\ day \in Days /\ day # None
    BY <1>8, NoneAssumption DEF CommitReservation, Days
  <2>3. FlightInv'
    BY <1>8, <2>2 DEF CommitReservation, Send
  <2>4. Estimate[r] # None
    BY <1>8 DEF CommitReservation
  <2>5. BooksInv'
    BY <1>8, <2>2, <2>4 DEF CommitReservation, Send, NoReceipt, Days
  <2>6. AdmittedInv'
    <3>1. ASSUME NEW b \in BudgetIds
          PROVE  /\ budgets'[b] = NoRow => admitted'[b] = {}
                 /\ \A a \in admitted'[b] : /\ CoversRequest(b, a[1])
                                            /\ budgets'[b].mode = "block" => since'[a] # None
      <4>1. budgets'[b] = RowsSeen(r)[b]
        BY <1>8 DEF CommitReservation
      <4>2. CASE b \in MatchingBudgets(r)
        <5>1. budgets'[b] # NoRow /\ CoversRequest(b, r)
          BY <4>1, <4>2 DEF MatchingBudgets
        <5>2. admitted'[b] = admitted[b] \cup {Current(r)}
          BY <1>8, <4>2 DEF CommitReservation, Enrol
        <5>3. \A a \in admitted[b] : budgets'[b] = budgets[b]
          BY <4>1, RowsSeenFacts
        <5>4. \A a \in admitted[b] : a \in Attempts /\ since[a] # None => since'[a] # None
          BY <2>2
        <5>5. since'[Current(r)] # None
          BY <2>2, CurrentType
        <5>6. \A a \in admitted[b] :
                 a \in Attempts /\ CoversRequest(b, a[1])
                 /\ (budgets[b].mode = "block" => since[a] # None)
          OBVIOUS
        <5>7. \A a \in admitted[b] :
                 CoversRequest(b, a[1]) /\ (budgets'[b].mode = "block" => since'[a] # None)
          BY <5>3, <5>4, <5>6
        <5>8. Current(r)[1] = r
          BY CurrentType
        <5> HIDE DEF AdmittedInv, Current, TypeOK, PlaceInv
        <5> QED
          BY <5>1, <5>2, <5>5, <5>7, <5>8
      <4>3. CASE b \notin MatchingBudgets(r)
        <5>1. admitted'[b] = admitted[b]
          BY <1>8, <4>3 DEF CommitReservation, Enrol
        <5>2. budgets'[b] = budgets[b]
          BY <4>1, <4>3, RowsSeenFacts DEF MatchingBudgets
        <5>3. \A a \in admitted[b] : since[a] # None => since'[a] # None
          BY <2>2
        <5> QED
          BY <5>1, <5>2, <5>3
      <4> QED
        BY <4>2, <4>3
    <3> QED
      BY <3>1
  <2> QED
    BY <2>1, <2>3, <2>5, <2>6
<1>9. ASSUME NEW r \in Requests, Answered(r)
      PROVE  PlaceInv'
  <2>1. LockInv' /\ UnsentInv' /\ FlightInv' /\ BooksInv' /\ AdmittedInv'
    BY <1>9 DEF Answered
  <2>2. PICK c \in PossibleCosts(r) :
          answer' = [answer EXCEPT ![r] = [status |-> "success", cost |-> c]]
    BY <1>9 DEF Answered
  <2>3. c \in {billed[Current(r)], None}
    BY DEF PossibleCosts
  <2>4. AnswerInv'
    <3> HIDE DEF LockInv, UnsentInv, BooksInv, AdmittedInv
    <3>1. /\ UNCHANGED <<rsv, since, receipt, attempt, billed>>
          /\ pc' = [pc EXCEPT ![r] = "measured"] /\ pc[r] = "calling"
      BY <1>9 DEF Answered
    <3> QED
      BY <2>2, <2>3, <3>1, ZenonT(60) DEF NoAnswer
  <2> QED
    BY <2>1, <2>4
<1>10. ASSUME NEW r \in Requests, Fail(r)
      PROVE  PlaceInv'
  <2>1. LockInv' /\ UnsentInv' /\ AnswerInv' /\ BooksInv' /\ AdmittedInv'
    BY <1>10 DEF Fail, CallFaults, Faults
  <2>2. FlightInv'
    <3>1. PICK f \in CallFaults :
            /\ f \in {"rejected", "busy"} => billed[Current(r)] = 0
            /\ fault' = [fault EXCEPT ![r] = f]
      BY <1>10 DEF Fail
    <3>2. f # "none"
      BY DEF CallFaults, Faults
    <3>3. /\ UNCHANGED <<rsv, since, receipt, attempt, billed>>
          /\ pc' = [pc EXCEPT ![r] = "settling"] /\ pc[r] = "calling"
      BY <1>10 DEF Fail
    <3> HIDE DEF LockInv, UnsentInv, AnswerInv, BooksInv, AdmittedInv
    <3> QED
      BY <3>1, <3>2, <3>3
  <2> QED
    BY <2>1, <2>2
<1>11. ASSUME NEW r \in Requests, OpenStream(r)
      PROVE  PlaceInv'
  BY <1>11 DEF OpenStream
<1>12. ASSUME NEW r \in Requests, IterateStream(r)
      PROVE  PlaceInv'
  BY <1>12 DEF IterateStream
<1>13. ASSUME NEW r \in Requests, EndStream(r)
      PROVE  PlaceInv'
  <2>1. LockInv' /\ UnsentInv' /\ FlightInv' /\ BooksInv' /\ AdmittedInv'
    BY <1>13 DEF EndStream, StreamOutcome
  <2>2. PICK f \in {"none", "broken", "cancelled"}, c \in PossibleCosts(r) :
          \E s \in StreamOutcome(f) :
            /\ s = "error" => c = None
            /\ fault' = [fault EXCEPT ![r] = f]
            /\ answer' = [answer EXCEPT ![r] = [status |-> s, cost |-> c]]
    BY <1>13 DEF EndStream
  <2>3. PICK s \in StreamOutcome(f) :
            /\ s = "error" => c = None
            /\ answer' = [answer EXCEPT ![r] = [status |-> s, cost |-> c]]
    BY <2>2
  <2>4. c \in {billed[Current(r)], None} /\ s \in {"success", "partial", "error"}
    BY DEF PossibleCosts, StreamOutcome
  <2>5. AnswerInv'
    <3> HIDE DEF LockInv, UnsentInv, BooksInv, AdmittedInv
    <3>1. /\ UNCHANGED <<rsv, since, receipt, attempt, billed>>
          /\ pc' = [pc EXCEPT ![r] = "measured"] /\ pc[r] = "streaming"
      BY <1>13 DEF EndStream
    <3> QED
      BY <2>3, <2>4, <3>1, ZenonT(60) DEF NoAnswer
  <2> QED
    BY <2>1, <2>5
<1>14. ASSUME NEW r \in Requests, SettleFailedAttempt(r)
      PROVE  PlaceInv'
  <2>1. LockInv' /\ UnsentInv' /\ AnswerInv' /\ AdmittedInv'
    <3>1. LockInv'
      BY <1>14 DEF SettleFailedAttempt, AfterFailure
    <3>2. UnsentInv'
      BY <1>14 DEF SettleFailedAttempt, Holds, AfterFailure, NextAttempt
    <3>3. AnswerInv'
      BY <1>14 DEF SettleFailedAttempt, Holds, AfterFailure, NextAttempt
    <3>4. AdmittedInv'
      BY <1>14 DEF SettleFailedAttempt
    <3> QED
      BY <3>1, <3>2, <3>3, <3>4
  <2>2. ASSUME NEW q \in Requests
        PROVE  /\ q # r => pc'[q] = pc[q] /\ fault'[q] = fault[q] /\ Current(q)' = Current(q)
               /\ pc'[r] \in {"cancelled", "ready", "reporting"}
               /\ pc'[r] # "ready" => Current(r)' = Current(r)
    BY <1>14 DEF SettleFailedAttempt, AfterFailure, NextAttempt, Retryable
  <2>3. /\ rsv' = [rsv EXCEPT ![Current(r)] = IF Holds(r) THEN "held" ELSE "none"]
        /\ UNCHANGED <<since, receipt, billed, day>>
    BY <1>14 DEF SettleFailedAttempt
  <2>4. InFlight(Current(r)) /\ (fault[r] \in {"rejected", "busy"} => billed[Current(r)] = 0)
    BY <1>14 DEF SettleFailedAttempt
  <2>5. since[Current(r)] # None /\ ~Holds(r) => billed[Current(r)] = 0
    BY <2>4 DEF Holds, AttemptMayHaveBilled
  <2>6. since[Current(r)] = None => ~Holds(r)
    BY <2>4 DEF Holds
  <2>7. FlightInv'
    <3>1. ASSUME NEW q \in Requests, q # r
          PROVE  Current(q) # Current(r)
      BY <3>1
    <3>2. ASSUME NEW q \in Requests, q # r
          PROVE  rsv'[Current(q)] = rsv[Current(q)]
      BY <2>3, <3>1, <3>2, CurrentType
    <3>3. rsv'[Current(r)] = IF Holds(r) THEN "held" ELSE "none"
      BY <2>3, CurrentType
    <3> HIDE DEF LockInv, UnsentInv, AnswerInv, BooksInv, AdmittedInv, Current
    <3> QED
      BY <2>2, <2>3, <2>4, <2>5, <3>2, <3>3, SMTT(60)
  <2>8. BooksInv'
    <3>1. ASSUME NEW a \in Attempts
          PROVE  rsv'[a] = IF a = Current(r) THEN IF Holds(r) THEN "held" ELSE "none" ELSE rsv[a]
      BY <2>3
    <3> QED
      BY <2>3, <2>5, <2>6, <3>1
  <2> QED
    BY <2>1, <2>7, <2>8
<1>15. ASSUME NEW r \in Requests, CancelBackoff(r)
      PROVE  PlaceInv'
  BY <1>15 DEF CancelBackoff
<1>16. ASSUME NEW r \in Requests, DiscardStream(r)
      PROVE  PlaceInv'
  <2>1. /\ UNCHANGED <<budgets, rsv, since, receipt, lock, day, attempt, fault, answer,
                        billed, admitted>>
        /\ pc' = [pc EXCEPT ![r] = "discarded"]
        /\ pc[r] \notin InTransaction
    BY <1>16 DEF DiscardStream
  <2>2. BooksInv' /\ AdmittedInv'
    BY <2>1
  <2>3. LockInv' /\ UnsentInv'
    <3> HIDE DEF BooksInv, AdmittedInv, FlightInv, AnswerInv
    <3> QED
      BY <2>1
  <2>4. FlightInv'
    <3> HIDE DEF BooksInv, AdmittedInv, LockInv, UnsentInv, AnswerInv
    <3> QED
      BY <2>1
  <2>5. AnswerInv'
    <3> HIDE DEF BooksInv, AdmittedInv, LockInv, UnsentInv, FlightInv
    <3> QED
      BY <2>1
  <2> QED
    BY <2>2, <2>3, <2>4, <2>5
<1>17. ASSUME NEW r \in Requests, StoreTimeout(r)
      PROVE  PlaceInv'
  BY <1>17 DEF StoreTimeout
<1>18. ASSUME NEW r \in Requests, EmitFailure(r)
      PROVE  PlaceInv'
  BY <1>18 DEF EmitFailure
<1>19. ASSUME NEW r \in Requests, AugmentOverrun(r)
      PROVE  PlaceInv'
  <2>1. LockInv' /\ UnsentInv' /\ FlightInv' /\ BooksInv' /\ AdmittedInv'
    BY <1>19 DEF AugmentOverrun
  <2>2. /\ UNCHANGED <<rsv, since, receipt, attempt, answer, billed>>
        /\ pc' = [pc EXCEPT ![r] = IF answer[r].cost = None /\ rsv[Current(r)] # "none"
                                   THEN "holding" ELSE "emitting"]
    BY <1>19 DEF AugmentOverrun
  <2>3. AnswerInv'
    <3> HIDE DEF LockInv, UnsentInv, BooksInv, AdmittedInv
    <3>1. pc[r] = "measured" /\ rsv[Current(r)] \in {"none", "active"}
          /\ (rsv[Current(r)] = "none" => since[Current(r)] = None)
      BY <1>19, CurrentType DEF AugmentOverrun
    <3>2. \A q \in Requests : Current(q)' = Current(q) /\ (q # r => pc'[q] = pc[q])
      BY <2>2
    <3> HIDE DEF Current, FlightInv, TypeOK
    <3> QED
      BY <2>2, <3>1, <3>2, CurrentType DEF TypeOK
  <2> QED
    BY <2>1, <2>3
<1>20. ASSUME NEW r \in Requests, HoldUnpriced(r)
      PROVE  PlaceInv'
  BY <1>20 DEF HoldUnpriced
<1>21. ASSUME NEW r \in Requests, EmitReceipt(r)
      PROVE  PlaceInv'
  <2>1. LockInv' /\ UnsentInv' /\ FlightInv' /\ BooksInv' /\ AdmittedInv'
    BY <1>21 DEF EmitReceipt, AfterReceipt
  <2>2. /\ UNCHANGED <<rsv, since, attempt, answer, billed>>
        /\ pc' = [pc EXCEPT ![r] = AfterReceipt(r)]
        /\ receipt'[Current(r)].status = answer[r].status
        /\ receipt'[Current(r)].cost = answer[r].cost
        /\ \A a \in Attempts : a # Current(r) => receipt'[a] = receipt[a]
    BY <1>21 DEF EmitReceipt
  <2>3. pc'[r] \in {"releasing", "done"}
        /\ (pc'[r] = "releasing" => rsv[Current(r)] = "active")
    BY <2>2 DEF AfterReceipt
  <2>4. AnswerInv'
    <3> HIDE DEF LockInv, UnsentInv, BooksInv, AdmittedInv, FlightInv
    <3>1. pc[r] = "emitting"
      BY <1>21 DEF EmitReceipt
    <3>2. \A q \in Requests : q # r => Current(q)' = Current(q) /\ pc'[q] = pc[q]
                                        /\ receipt'[Current(q)] = receipt[Current(q)]
      BY <2>2, CurrentType
    <3>3. Current(r)' = Current(r)
      BY <2>2
    <3>4. rsv[Current(r)] = "active" =>
             /\ answer[r].cost = billed[Current(r)]
             /\ answer[r].status \in {"success", "partial"}
      BY <3>1
    <3> HIDE DEF Current
    <3> QED
      BY <2>2, <2>3, <3>1, <3>2, <3>3, <3>4
  <2> QED
    BY <2>1, <2>4
<1>22. ASSUME NEW r \in Requests, ReleaseReservation(r)
      PROVE  PlaceInv'
  <2>1. LockInv' /\ UnsentInv' /\ FlightInv' /\ AnswerInv' /\ AdmittedInv'
    BY <1>22 DEF ReleaseReservation
  <2>2. /\ UNCHANGED <<since, receipt, billed, day>>
        /\ \A a \in Attempts : rsv'[a] = IF a = Current(r) THEN "none" ELSE rsv[a]
    BY <1>22 DEF ReleaseReservation
  <2>3. receipt[Current(r)].cost # None
    <3>1. receipt[Current(r)].cost = billed[Current(r)] /\ billed[Current(r)] \in Nat
      BY <1>22, CurrentType DEF ReleaseReservation
    <3> QED
      BY <3>1, NoneAssumption
  <2>4. BooksInv'
    <3> HIDE DEF LockInv, UnsentInv, AnswerInv, FlightInv, AdmittedInv, Current
    <3> QED
      BY <2>2, <2>3
  <2> QED
    BY <2>1, <2>4
<1>23. ASSUME NEW p \in Processes, Crash(p)
      PROVE  PlaceInv'
  BY <1>23 DEF Crash, Ended
<1>24. ASSUME Operate
       PROVE  PlaceInv'
  <2>1. PICK b \in BudgetIds :
          /\ UNCHANGED <<rsv, since, receipt, lock, day, pc, attempt, fault, answer, billed>>
          /\ admitted' = [admitted EXCEPT ![b] = {}]
          /\ \A c \in BudgetIds \ {b} : budgets'[c] = budgets[c]
    <3> HIDE DEF LockInv, UnsentInv, AnswerInv, FlightInv, BooksInv, AdmittedInv
    <3>1. PICK b \in OperatorBudgets :
            RemoveBudget(b) \/ \E row \in OperatorRows : SetBudget(b, row)
      BY <1>24 DEF Operate
    <3>2. b \in BudgetIds
      BY <3>1, ConfigurationAssumption
    <3> QED
      BY <3>1, <3>2 DEF SetBudget, RemoveBudget
  <2>2. LockInv' /\ UnsentInv' /\ FlightInv' /\ AnswerInv' /\ BooksInv'
    BY <2>1
  <2>3. AdmittedInv'
    BY <2>1
  <2> QED
    BY <2>2, <2>3
<1>25. ASSUME Tick
      PROVE  PlaceInv'
  <2>1. /\ UNCHANGED <<budgets, rsv, since, receipt, lock, pc, attempt, fault, answer,
                        billed, admitted>>
        /\ day' = day + 1
    BY <1>25 DEF Tick
  <2>2. \A a \in Attempts : since[a] # None => since[a] \in Int
    BY DEF Maybe, Days
  <2>3. day \in Int
    BY DEF Days
  <2>4. LockInv' /\ UnsentInv' /\ FlightInv' /\ AnswerInv' /\ AdmittedInv'
    BY <2>1
  <2>5. BooksInv'
    <3> HIDE DEF LockInv, UnsentInv, AnswerInv, FlightInv, AdmittedInv, TypeOK
    <3> QED
      BY <2>1, <2>2, <2>3
  <2> QED
    BY <2>4, <2>5
<1>26. ASSUME UNCHANGED vars
      PROVE  PlaceInv'
  BY <1>26 DEF vars
<1> HIDE DEF PlaceInv
<1> QED
  BY <1>1, <1>2, <1>3, <1>4, <1>5, <1>6, <1>7, <1>8, <1>9, <1>10, <1>11, <1>12, <1>13, <1>14, <1>15, <1>16, <1>17, <1>18, <1>19, <1>20, <1>21, <1>22, <1>23, <1>24, <1>25, <1>26
  DEF Next, Serve, Admit, Call, Settle, Disturb, Finished

LEMMA PlaceInit == Init => PlaceInv
<1> SUFFICES ASSUME Init
             PROVE  PlaceInv
  OBVIOUS
<1>1. None \notin Requests
  BY RequestAssumption
<1>2. UnsentInv
  <2>1. \A r \in Requests, k \in 0 .. MaxRetries : Unsent(<<r, k>>)
    BY DEF Init, Unsent, Attempts
  <2>2. \A r \in Requests : Current(r) = <<r, 0>> /\ 0 \in 0 .. MaxRetries
    BY RequestAssumption DEF Init, Current
  <2> QED
    BY <2>1, <2>2 DEF UnsentInv
<1>3. LockInv /\ FlightInv /\ AnswerInv
  BY <1>1 DEF Init, LockInv, FlightInv, AnswerInv, InTransaction
<1>4. BooksInv /\ AdmittedInv
  BY DEF Init, BooksInv, AdmittedInv
<1> QED
  BY <1>2, <1>3, <1>4 DEF PlaceInv

(***************************************************************************)
(* The two invariants are inductive together: what a place promises of its *)
(* attempt is what keeps a settlement's sums and a receipt's fields in     *)
(* their types.                                                            *)
(***************************************************************************)
LEMMA PlacesCorrect == Spec => [](TypeOK /\ PlaceInv)
<1>1. Init => TypeOK /\ PlaceInv
  BY TypeInit, PlaceInit
<1>2. TypeOK /\ PlaceInv /\ [Next]_vars => (TypeOK /\ PlaceInv)'
  BY TypeStep, PlaceStep
<1> QED
  BY <1>1, <1>2, PTL DEF Spec

(***************************************************************************)
(* Every variable of the gateways and of their databases always has its    *)
(* type: no settlement holds an unpriced attempt, no receipt has the fields*)
(* of another request's answer.                                            *)
(***************************************************************************)
THEOREM TypeCorrect == Spec => []TypeOK
BY PlacesCorrect, PTL

-----------------------------------------------------------------------------
(***************************************************************************)
(* While a transaction has the write lock, only its own request touches    *)
(* what it has read: no reservation is settled, no row set or created.     *)
(***************************************************************************)
LEMMA UnderLock ==
  ASSUME TypeOK, PlaceInv, [Next]_vars, NEW q \in Requests, lock = q, lock' = q
  PROVE  /\ UNCHANGED <<budgets, rsv, since, admitted>>
         /\ \/ ReadSpent(q)
            \/ PassBudget(q)
            \/ pc'[q] = pc[q] /\ todo'[q] = todo[q] /\ spent'[q] = spent[q]
<1>0. q # None
  BY RequestAssumption
<1>1. ASSUME NEW r \in Requests, pc[r] \notin InTransaction
      PROVE  r # q
  BY <1>1 DEF PlaceInv, LockInv
<1>2. ASSUME NEW r \in Requests, pc[r] \in InTransaction
      PROVE  r = q
  BY <1>2 DEF PlaceInv, LockInv
<1> USE DEF TypeOK, Goto
<1>3. ASSUME NEW r \in Requests, Admit(r)
      PROVE  \/ ReadSpent(q) /\ UNCHANGED <<budgets, rsv, since, admitted>>
             \/ PassBudget(q) /\ UNCHANGED <<budgets, rsv, since, admitted>>
  BY <1>0, <1>2, <1>3 DEF Admit, RefuseDeclaration, AdmitUnmetered, RefuseUnpriced, BeginChecks,
     ReadSpent, PassBudget, RefuseOverBudget, CommitReservation, BeginsAdmission, LockFree,
     LockAfter, InTransaction
<1>4. ASSUME NEW r \in Requests, Call(r) \/ Disturb(r)
      PROVE  /\ UNCHANGED <<budgets, rsv, since, admitted, todo, spent>>
             /\ pc'[q] = pc[q]
  BY <1>1, <1>4 DEF Call, Disturb, Answered, Fail, OpenStream, IterateStream, EndStream,
     CancelBackoff, DiscardStream, StoreTimeout, NeedsLock, InTransaction
<1>5. ASSUME NEW r \in Requests, Settle(r)
      PROVE  /\ UNCHANGED <<budgets, rsv, since, admitted, todo, spent>>
             /\ pc'[q] = pc[q]
  BY <1>0, <1>1, <1>5, CurrentType DEF Settle, SettleFailedAttempt, EmitFailure, AugmentOverrun,
     HoldUnpriced, EmitReceipt, ReleaseReservation, Holds, LockFree, InTransaction
<1>6. ASSUME NEW p \in Processes, Crash(p)
      PROVE  /\ UNCHANGED <<budgets, rsv, since, admitted>>
             /\ pc'[q] = pc[q] /\ todo'[q] = todo[q] /\ spent'[q] = spent[q]
  BY <1>0, <1>6 DEF Crash
<1>7. ASSUME Operate
      PROVE  FALSE
  BY <1>0, <1>7 DEF Operate, SetBudget, RemoveBudget, LockFree
<1>8. ASSUME Tick \/ UNCHANGED vars
      PROVE  UNCHANGED <<budgets, rsv, since, admitted, todo, spent, pc>>
  BY <1>8 DEF Tick, vars
<1> QED
  BY <1>3, <1>4, <1>5, <1>6, <1>7, <1>8 DEF Next, Serve, Finished

(***************************************************************************)
(* A request comes to have the lock only by beginning its checks.          *)
(***************************************************************************)
LEMMA BeginsUnderLock ==
  ASSUME [Next]_vars, NEW q \in Requests, lock # q, lock' = q
  PROVE  BeginChecks(q)
<1>0. q # None
  BY RequestAssumption
<1>1. ASSUME NEW r \in Requests, Admit(r)
      PROVE  BeginChecks(q)
  BY <1>0, <1>1 DEF Admit, RefuseDeclaration, AdmitUnmetered, RefuseUnpriced, BeginChecks,
     ReadSpent, PassBudget, RefuseOverBudget, CommitReservation, LockAfter
<1>2. ASSUME NEW r \in Requests, Call(r) \/ Disturb(r)
      PROVE  lock' = lock
  BY <1>2 DEF Call, Disturb, Answered, Fail, OpenStream, IterateStream, EndStream,
     CancelBackoff, DiscardStream, StoreTimeout
<1>3. ASSUME NEW r \in Requests, Settle(r)
      PROVE  lock' = lock
  BY <1>3 DEF Settle, SettleFailedAttempt, EmitFailure, AugmentOverrun, HoldUnpriced,
     EmitReceipt, ReleaseReservation
<1>4. ASSUME NEW p \in Processes, Crash(p)
      PROVE  lock' \in {None, lock}
  BY <1>4 DEF Crash
<1>5. ASSUME Operate \/ Tick \/ UNCHANGED vars
      PROVE  lock' = lock
  BY <1>5 DEF Operate, SetBudget, RemoveBudget, Tick, vars
<1> QED
  BY <1>0, <1>1, <1>2, <1>3, <1>4, <1>5 DEF Next, Serve, Finished


-----------------------------------------------------------------------------
(***************************************************************************)
(* Declared budgets.  A declaration is checked against the stored row when *)
(* its transaction begins, and nobody else writes rows until it commits: a *)
(* request is never refused once it is in its transaction.                 *)
(***************************************************************************)
DeclaredInv == \A r \in Requests : pc[r] \in InTransaction => ~DeclarationRefused(r)

(***************************************************************************)
(* The only per-run budget that covers a request is that of its own run.   *)
(***************************************************************************)
LEMMA OwnRunBudget ==
  ASSUME NEW r \in Requests, NEW b \in BudgetIds, CoversRequest(b, r), b.window = "per_work"
  PROVE  b = RunBudget(r) /\ WorkId[r] # None
<1>1. b.scope = "work_id" /\ b = [scope |-> b.scope, value |-> b.value, window |-> b.window]
  BY BudgetIdAssumption
<1>2. b.value = WorkId[r] /\ WorkId[r] # None
  BY <1>1 DEF CoversRequest, Covers
<1> QED
  BY <1>1, <1>2 DEF RunBudget, PerWorkBudget

(***************************************************************************)
(* An admission that was not refused keeps every declaration in agreement  *)
(* and binds its request to the row it creates.                            *)
(***************************************************************************)
LEMMA AdmissionAgrees ==
  ASSUME TypeOK, PlaceInv, RunBudgetsAgree, NEW r \in Requests, ~DeclarationRefused(r),
         budgets' = RowsSeen(r) \/ (budgets' = budgets /\ ~CreatesRunBudget(r)), Enrol(r)
  PROVE  RunBudgetsAgree'
<1>1. \A b \in BudgetIds : budgets'[b] = RowsSeen(r)[b]
  BY DEF RowsSeen
<1>2. \A b \in BudgetIds :
        admitted'[b] = IF b \in MatchingBudgets(r) THEN admitted[b] \cup {Current(r)}
                       ELSE admitted[b]
  BY DEF Enrol
<1>3. ASSUME NEW b \in BudgetIds, NEW a \in admitted'[b],
             b.window = "per_work", Declared[a[1]] # None
      PROVE  budgets'[b].limit = Declared[a[1]]
  <2>1. CASE a \in admitted[b]
    <3>1. budgets'[b] = budgets[b]
      BY <1>1, <2>1, RowsSeenFacts DEF PlaceInv, AdmittedInv
    <3> QED
      BY <1>3, <2>1, <3>1 DEF RunBudgetsAgree, DeclarationsAgree
  <2>2. CASE a \notin admitted[b]
    <3>1. b \in MatchingBudgets(r) /\ a = Current(r) /\ a[1] = r
      BY <1>2, <1>3, <2>2, CurrentType
    <3>2. b = RunBudget(r) /\ WorkId[r] # None
      BY <1>3, <3>1, OwnRunBudget DEF MatchingBudgets
    <3>3. CASE budgets[b] = NoRow
      <4>1. RowsSeen(r)[b] = [mode |-> "block", limit |-> Declared[r]]
        BY <1>3, <3>1, <3>2, <3>3 DEF RowsSeen, CreatesRunBudget, RunLimit, TypeOK
      <4> QED
        BY <1>1, <3>1, <4>1
    <3>4. CASE budgets[b] # NoRow
      <4>1. budgets'[b] = budgets[b]
        BY <1>1, <3>4, RowsSeenFacts
      <4> QED
        BY <1>3, <3>1, <3>2, <3>4, <4>1 DEF DeclarationRefused
    <3> QED
      BY <3>3, <3>4
  <2> QED
    BY <2>1, <2>2
<1>4. ASSUME NEW b \in BudgetIds \ OperatorBudgets, budgets'[b] # NoRow, InitialRows[b] = NoRow
      PROVE  admitted'[b] # {}
  <2>1. CASE budgets[b] # NoRow
    BY <1>2, <1>4, <2>1 DEF RunBudgetsAgree, RefusalLeavesNoRow
  <2>2. CASE budgets[b] = NoRow
    <3>1. b \in MatchingBudgets(r)
      BY <1>1, <1>4, <2>2, RowsSeenFacts DEF MatchingBudgets
    <3> QED
      BY <1>2, <3>1
  <2> QED
    BY <2>1, <2>2
<1> QED
  BY <1>3, <1>4 DEF RunBudgetsAgree, DeclarationsAgree, RefusalLeavesNoRow

LEMMA AgreementStep ==
  ASSUME TypeOK, PlaceInv, DeclaredInv, RunBudgetsAgree, [Next]_vars
  PROVE  RunBudgetsAgree'
<1>1. ASSUME UNCHANGED <<budgets, admitted>>
      PROVE  RunBudgetsAgree'
  BY <1>1 DEF RunBudgetsAgree, DeclarationsAgree, RefusalLeavesNoRow
<1>2. ASSUME NEW r \in Requests, CommitReservation(r)
      PROVE  RunBudgetsAgree'
  BY <1>2, AdmissionAgrees DEF CommitReservation, DeclaredInv, InTransaction
<1>3. ASSUME NEW r \in Requests, AdmitUnmetered(r)
      PROVE  RunBudgetsAgree'
  <2>1. ~CreatesRunBudget(r)
    <3> SUFFICES ASSUME CreatesRunBudget(r)
                 PROVE  FALSE
      OBVIOUS
    <3>1. /\ RunBudget(r) \in BudgetIds
          /\ RowsSeen(r)[RunBudget(r)].mode = "block"
      BY ConfigurationAssumption DEF CreatesRunBudget, RowsSeen, RunBudget, TypeOK
    <3>2. RunBudget(r) \in MatchingBudgets(r)
      BY <3>1, RowsSeenFacts DEF CreatesRunBudget, MatchingBudgets, NoRow
    <3> QED
      BY <1>3, <3>1, <3>2 DEF AdmitUnmetered, NothingToReserve
  <2> QED
    BY <1>3, <2>1, AdmissionAgrees DEF AdmitUnmetered
<1>4. ASSUME NEW r \in Requests, Serve(r), ~CommitReservation(r), ~AdmitUnmetered(r)
      PROVE  RunBudgetsAgree'
  BY <1>1, <1>4 DEF Serve, Admit, Call, Settle, RefuseDeclaration, RefuseUnpriced, BeginChecks,
     ReadSpent, PassBudget, RefuseOverBudget, RowsAfterRefusal, Answered, Fail, OpenStream,
     IterateStream, EndStream, SettleFailedAttempt, EmitFailure, AugmentOverrun, HoldUnpriced,
     EmitReceipt, ReleaseReservation
<1>5. ASSUME NEW r \in Requests, Disturb(r)
      PROVE  RunBudgetsAgree'
  BY <1>1, <1>5 DEF Disturb, CancelBackoff, DiscardStream, StoreTimeout
<1>6. ASSUME Operate
      PROVE  RunBudgetsAgree'
  <2>1. PICK b \in OperatorBudgets :
          RemoveBudget(b) \/ \E row \in OperatorRows : SetBudget(b, row)
    BY <1>6 DEF Operate
  <2>2. /\ admitted'[b] = {} /\ b \in BudgetIds
        /\ \A c \in BudgetIds \ {b} : budgets'[c] = budgets[c] /\ admitted'[c] = admitted[c]
    BY <2>1, ConfigurationAssumption DEF RemoveBudget, SetBudget, TypeOK
  <2> QED
    BY <2>2 DEF RunBudgetsAgree, DeclarationsAgree, RefusalLeavesNoRow
<1>7. ASSUME (\E p \in Processes : Crash(p)) \/ Tick \/ UNCHANGED vars
      PROVE  RunBudgetsAgree'
  BY <1>1, <1>7 DEF Crash, Tick, vars
<1> QED
  BY <1>2, <1>3, <1>4, <1>5, <1>6, <1>7 DEF Next, Finished

LEMMA DeclaredStep ==
  ASSUME TypeOK, PlaceInv, DeclaredInv, PlaceInv', [Next]_vars
  PROVE  DeclaredInv'
<1> SUFFICES ASSUME NEW q \in Requests, pc'[q] \in InTransaction
             PROVE  ~DeclarationRefused(q)'
  BY DEF DeclaredInv
<1>1. lock' = q
  BY DEF PlaceInv, LockInv
<1>2. CASE lock # q
  BY <1>1, <1>2, BeginsUnderLock DEF BeginChecks, DeclarationRefused
<1>3. CASE lock = q
  <2>1. budgets' = budgets
    BY <1>1, <1>3, UnderLock
  <2>2. ~DeclarationRefused(q)
    BY <1>3 DEF PlaceInv, LockInv, DeclaredInv
  <2> QED
    BY <2>1, <2>2 DEF DeclarationRefused
<1> QED
  BY <1>2, <1>3

(***************************************************************************)
(* Concurrent first requests of a run (budgets/enforcement.py) agree: for  *)
(* any number of gateways, whichever of them creates the run's budget,     *)
(* every declaration admitted under it is its limit, and a refused         *)
(* admission, rolled back, leaves no budget behind.                        *)
(***************************************************************************)
THEOREM DeclarationsAlwaysAgree == Spec => []RunBudgetsAgree
<1>1. Init => DeclaredInv /\ RunBudgetsAgree
  BY ConfigurationAssumption
  DEF Init, DeclaredInv, InTransaction, RunBudgetsAgree, DeclarationsAgree, RefusalLeavesNoRow
<1>2. (TypeOK /\ PlaceInv) /\ (TypeOK /\ PlaceInv)' /\ DeclaredInv /\ RunBudgetsAgree /\ [Next]_vars
        => (DeclaredInv /\ RunBudgetsAgree)'
  BY DeclaredStep, AgreementStep
<1> QED
  BY <1>1, <1>2, PlacesCorrect, PTL DEF Spec

-----------------------------------------------------------------------------
(***************************************************************************)
(* Receipts.  Only the current attempt of a request can have one, once the *)
(* request has nothing left to do but release its reservation; and a       *)
(* request's running total of held dollars is the sum of its holds, which  *)
(* no step changes once its receipt is written.                            *)
(***************************************************************************)
Reported == Ended \cup {"releasing"}

ReceiptInv ==
  /\ \A a \in Attempts : receipt[a] # NoReceipt =>
       /\ a = Current(a[1])
       /\ pc[a[1]] \in Reported
       /\ receipt[a].held = held[a[1]]
  /\ \A r \in Requests : pc[r] \in {"done", "releasing"} => receipt[Current(r)] # NoReceipt

HeldInv == \A r \in Requests : held[r] = Total(Amount, HeldOf(r))

(***************************************************************************)
(* A step that writes no receipt and leaves alone every request that has   *)
(* one, except to end it.                                                  *)
(***************************************************************************)
LEMMA ReceiptsKept ==
  ASSUME TypeOK, ReceiptInv, UNCHANGED receipt,
         \A q \in Requests : pc[q] \in Reported =>
           /\ attempt'[q] = attempt[q]
           /\ held'[q] = held[q]
           /\ pc'[q] \in Reported,
         \A q \in Requests : pc'[q] \in {"done", "releasing"} =>
           pc[q] \in {"done", "releasing"} /\ attempt'[q] = attempt[q]
  PROVE  ReceiptInv'
<1>1. ASSUME NEW a \in Attempts, receipt'[a] # NoReceipt
      PROVE  /\ a = Current(a[1])'
             /\ pc'[a[1]] \in Reported
             /\ receipt'[a].held = held'[a[1]]
  <2>1. a[1] \in Requests
    BY DEF Attempts
  <2> QED
    BY <1>1, <2>1 DEF ReceiptInv, Current
<1>2. ASSUME NEW q \in Requests, pc'[q] \in {"done", "releasing"}
      PROVE  receipt'[Current(q)'] # NoReceipt
  BY <1>2 DEF ReceiptInv, Current
<1> QED
  BY <1>1, <1>2 DEF ReceiptInv, Reported

(***************************************************************************)
(* A step that writes the receipt of a request's current attempt.          *)
(***************************************************************************)
LEMMA ReceiptWritten ==
  ASSUME TypeOK, ReceiptInv, NEW r \in Requests,
         UNCHANGED <<attempt, held>>,
         NEW rec, rec # NoReceipt, rec.held = held[r],
         receipt' = [receipt EXCEPT ![Current(r)] = rec],
         \A q \in Requests : q # r => pc'[q] = pc[q],
         pc'[r] \in {"done", "releasing"}
  PROVE  ReceiptInv'
<1>1. Current(r) \in Attempts /\ Current(r)[1] = r
  BY CurrentType
<1>2. \A q \in Requests : Current(q)' = Current(q)
  BY DEF Current
<1>3. pc'[r] \in Reported
  BY DEF Reported, Ended
<1>4. ASSUME NEW a \in Attempts, receipt'[a] # NoReceipt
      PROVE  /\ a = Current(a[1])'
             /\ pc'[a[1]] \in Reported
             /\ receipt'[a].held = held'[a[1]]
  <2>1. a[1] \in Requests
    BY DEF Attempts
  <2>2. CASE a = Current(r)
    BY <1>1, <1>2, <1>3, <2>2 DEF TypeOK
  <2>3. CASE a # Current(r)
    <3>1. receipt[a] # NoReceipt /\ receipt'[a] = receipt[a]
      BY <1>4, <2>3 DEF TypeOK
    <3>2. a = Current(a[1]) /\ pc[a[1]] \in Reported /\ receipt[a].held = held[a[1]]
      BY <3>1 DEF ReceiptInv
    <3>3. a[1] # r
      BY <2>3, <3>2
    <3> QED
      BY <1>2, <2>1, <3>1, <3>2, <3>3
  <2> QED
    BY <2>2, <2>3
<1>5. ASSUME NEW q \in Requests, pc'[q] \in {"done", "releasing"}
      PROVE  receipt'[Current(q)'] # NoReceipt
  <2>1. CASE q = r
    BY <1>1, <1>2, <2>1 DEF TypeOK
  <2>2. CASE q # r
    <3>1. Current(q) # Current(r) /\ Current(q) \in Attempts
      BY <2>2, CurrentType
    <3> QED
      BY <1>2, <1>5, <2>2, <3>1 DEF ReceiptInv, TypeOK
  <2> QED
    BY <2>1, <2>2
<1> QED
  BY <1>4, <1>5 DEF ReceiptInv, Reported

LEMMA ReceiptStep ==
  ASSUME TypeOK, PlaceInv, ReceiptInv, [Next]_vars
  PROVE  ReceiptInv'
<1> USE DEF TypeOK, Goto, Reported, Ended
<1>1. ASSUME NEW r \in Requests, Admit(r) \/ Call(r) \/ Disturb(r)
      PROVE  ReceiptInv'
  BY <1>1, ReceiptsKept DEF Admit, RefuseDeclaration, AdmitUnmetered, RefuseUnpriced, BeginChecks,
     ReadSpent, PassBudget, RefuseOverBudget, CommitReservation, BeginsAdmission, Send,
     Call, Answered, Fail, OpenStream, IterateStream, EndStream,
     Disturb, CancelBackoff, DiscardStream, StoreTimeout, NeedsLock
<1>2. ASSUME NEW r \in Requests, SettleFailedAttempt(r) \/ AugmentOverrun(r) \/ HoldUnpriced(r)
      PROVE  ReceiptInv'
  BY <1>2, ReceiptsKept DEF SettleFailedAttempt, AfterFailure, AugmentOverrun, HoldUnpriced
<1>3. ASSUME NEW r \in Requests, ReleaseReservation(r)
      PROVE  ReceiptInv'
  BY <1>3, ReceiptsKept DEF ReleaseReservation
<1>4. ASSUME NEW r \in Requests, EmitFailure(r)
      PROVE  ReceiptInv'
  <2> DEFINE rec == [status |-> "error", cost |-> None, day |-> day, held |-> held[r],
                     overrun |-> 0]
  <2>1. rec # NoReceipt /\ rec.held = held[r]
    BY DEF NoReceipt
  <2>2. /\ receipt' = [receipt EXCEPT ![Current(r)] = rec]
        /\ UNCHANGED <<attempt, held>>
        /\ pc' = [pc EXCEPT ![r] = "done"]
    BY <1>4 DEF EmitFailure
  <2> HIDE DEF rec
  <2> QED
    BY <2>1, <2>2, ReceiptWritten
<1>5. ASSUME NEW r \in Requests, EmitReceipt(r)
      PROVE  ReceiptInv'
  <2> DEFINE rec == [status |-> answer[r].status, cost |-> answer[r].cost, day |-> day,
                     held |-> held[r], overrun |-> overrun[r]]
  <2>1. answer[r].status \in Statuses
    BY <1>5 DEF EmitReceipt, PlaceInv, AnswerInv, Answers
  <2>2. rec # NoReceipt /\ rec.held = held[r]
    BY <2>1 DEF NoReceipt, Statuses
  <2>3. /\ receipt' = [receipt EXCEPT ![Current(r)] = rec]
        /\ UNCHANGED <<attempt, held>>
        /\ pc' = [pc EXCEPT ![r] = AfterReceipt(r)]
        /\ AfterReceipt(r) \in {"done", "releasing"}
    BY <1>5 DEF EmitReceipt, AfterReceipt
  <2> HIDE DEF rec
  <2> QED
    BY <2>2, <2>3, ReceiptWritten
<1>6. ASSUME NEW p \in Processes, Crash(p)
      PROVE  ReceiptInv'
  BY <1>6, ReceiptsKept DEF Crash
<1>7. ASSUME Operate \/ Tick \/ UNCHANGED vars
      PROVE  ReceiptInv'
  BY <1>7, ReceiptsKept DEF Operate, SetBudget, RemoveBudget, Tick, vars
<1> QED
  BY <1>1, <1>2, <1>3, <1>4, <1>5, <1>6, <1>7 DEF Next, Serve, Settle, Finished

-----------------------------------------------------------------------------
(***************************************************************************)
(* A step that changes no hold, and no total of them.                      *)
(***************************************************************************)
LEMMA HoldsKept ==
  ASSUME HeldInv, UNCHANGED held,
         \A a \in Attempts : rsv'[a] = "held" <=> rsv[a] = "held"
  PROVE  HeldInv'
<1> SUFFICES ASSUME NEW r \in Requests
             PROVE  held'[r] = Total(Amount, HeldOf(r)')
  BY DEF HeldInv, Amount
<1>1. HeldOf(r)' = HeldOf(r)
  BY DEF HeldOf
<1> QED
  BY <1>1 DEF HeldInv

(***************************************************************************)
(* Holding a request's active reservation adds its estimate to its total.  *)
(***************************************************************************)
LEMMA HoldAdded ==
  ASSUME TypeOK, PlaceInv, HeldInv, NEW r \in Requests, rsv[Current(r)] = "active",
         rsv' = [rsv EXCEPT ![Current(r)] = "held"],
         held' = [held EXCEPT ![r] = held[r] + Estimate[r]]
  PROVE  HeldInv'
<1>1. PICK cur \in Attempts : cur = Current(r) /\ cur[1] = r
  BY CurrentType
<1>2. Estimate[r] # None /\ Amount[cur] = Estimate[r]
  BY <1>1 DEF PlaceInv, BooksInv, Amount
<1>3. \A a \in Attempts : Amount[a] \in Nat
  BY RequestAssumption DEF Amount, Attempts, Maybe
<1>4. HeldOf(r)' = HeldOf(r) \cup {cur} /\ cur \notin HeldOf(r)
  BY <1>1 DEF HeldOf, TypeOK
<1>5. \A q \in Requests : q # r => HeldOf(q)' = HeldOf(q)
  BY <1>1 DEF HeldOf, TypeOK
<1>6. HeldOf(r) \subseteq Attempts
  BY DEF HeldOf
<1>7. IsFiniteSet(HeldOf(r))
  BY <1>6, AttemptsFinite, FS_Subset
<1>8. \A a \in HeldOf(r) \cup {cur} : Amount[a] \in Nat
  BY <1>3, <1>6
<1>9. Total(Amount, HeldOf(r) \cup {cur}) = Total(Amount, HeldOf(r)) + Amount[cur]
  BY <1>4, <1>7, <1>8, TotalInsert
<1>10. held'[r] = Total(Amount, HeldOf(r)')
  BY <1>2, <1>4, <1>9 DEF HeldInv, TypeOK
<1>11. \A q \in Requests : q # r => held'[q] = Total(Amount, HeldOf(q)')
  BY <1>5 DEF HeldInv, TypeOK
<1>12. Amount' = Amount
  BY DEF Amount
<1> QED
  BY <1>10, <1>11, <1>12 DEF HeldInv

LEMMA HeldStep ==
  ASSUME TypeOK, PlaceInv, HeldInv, [Next]_vars
  PROVE  HeldInv'
<1>1. ASSUME NEW r \in Requests, Admit(r), ~CommitReservation(r)
      PROVE  HeldInv'
  BY <1>1, HoldsKept DEF Admit, RefuseDeclaration, AdmitUnmetered, RefuseUnpriced, BeginChecks,
     ReadSpent, PassBudget, RefuseOverBudget
<1>2. ASSUME NEW r \in Requests, CommitReservation(r)
      PROVE  HeldInv'
  <2>1. rsv[Current(r)] = "none" /\ rsv' = [rsv EXCEPT ![Current(r)] = "active"] /\ held' = held
    BY <1>2 DEF CommitReservation, PlaceInv, UnsentInv, Unsent, InTransaction
  <2> QED
    BY <2>1, HoldsKept DEF TypeOK
<1>3. ASSUME NEW r \in Requests, Call(r) \/ Disturb(r)
      PROVE  HeldInv'
  BY <1>3, HoldsKept DEF Call, Disturb, Answered, Fail, OpenStream, IterateStream, EndStream,
     CancelBackoff, DiscardStream, StoreTimeout
<1>4. ASSUME NEW r \in Requests, SettleFailedAttempt(r)
      PROVE  HeldInv'
  <2>1. /\ rsv' = [rsv EXCEPT ![Current(r)] = IF Holds(r) THEN "held" ELSE "none"]
        /\ held' = [held EXCEPT ![r] = HeldAfter(r)]
        /\ rsv[Current(r)] \in {"none", "active"}
    BY <1>4 DEF SettleFailedAttempt, PlaceInv, FlightInv, InFlight
  <2>2. CASE Holds(r)
    BY <2>1, <2>2, HoldAdded DEF Holds, HeldAfter
  <2>3. CASE ~Holds(r)
    BY <2>1, <2>3, HoldsKept DEF HeldAfter, TypeOK
  <2> QED
    BY <2>2, <2>3
<1>5. ASSUME NEW r \in Requests, HoldUnpriced(r)
      PROVE  HeldInv'
  BY <1>5, HoldAdded DEF HoldUnpriced, PlaceInv, AnswerInv
<1>6. ASSUME NEW r \in Requests, ReleaseReservation(r)
      PROVE  HeldInv'
  <2>1. rsv[Current(r)] = "active" /\ rsv' = [rsv EXCEPT ![Current(r)] = "none"] /\ held' = held
    BY <1>6 DEF ReleaseReservation, PlaceInv, AnswerInv
  <2> QED
    BY <2>1, HoldsKept DEF TypeOK
<1>7. ASSUME NEW r \in Requests, EmitFailure(r) \/ AugmentOverrun(r) \/ EmitReceipt(r)
      PROVE  HeldInv'
  BY <1>7, HoldsKept DEF EmitFailure, AugmentOverrun, EmitReceipt
<1>8. ASSUME (\E p \in Processes : Crash(p)) \/ Operate \/ Tick \/ UNCHANGED vars
      PROVE  HeldInv'
  BY <1>8, HoldsKept DEF Crash, Operate, SetBudget, RemoveBudget, Tick, vars
<1> QED
  BY <1>1, <1>2, <1>3, <1>4, <1>5, <1>6, <1>7, <1>8 DEF Next, Serve, Settle, Finished

(***************************************************************************)
(* Every request that ended normally has left exactly one receipt, however *)
(* many attempts it took (gateway/execution.py), and that receipt carries  *)
(* all the dollars the request left held, its earlier attempts' included.  *)
(***************************************************************************)
THEOREM ReceiptsTellAll == Spec => []ReceiptTellsAll
<1>1. Init => ReceiptInv /\ HeldInv
  <2> SUFFICES ASSUME Init
               PROVE  ReceiptInv /\ HeldInv
    OBVIOUS
  <2>1. \A r \in Requests : HeldOf(r) = {}
    BY DEF Init, HeldOf
  <2> QED
    BY <2>1, TotalEmpty DEF Init, ReceiptInv, HeldInv
<1>2. TypeOK /\ PlaceInv /\ ReceiptInv /\ HeldInv /\ [Next]_vars => (ReceiptInv /\ HeldInv)'
  BY ReceiptStep, HeldStep
<1>3. TypeOK /\ ReceiptInv /\ HeldInv => ReceiptTellsAll
  <2> SUFFICES ASSUME TypeOK, ReceiptInv, HeldInv, NEW r \in Requests
               PROVE  /\ Cardinality(ReceiptsOf(r)) <= 1
                      /\ pc[r] = "done" => ReceiptsOf(r) # {}
                      /\ \A a \in ReceiptsOf(r) : receipt[a].held = Total(Amount, HeldOf(r))
    BY DEF ReceiptTellsAll, OneReceiptPerRequest, HeldIsReported
  <2>1. Cardinality({}) = 0 /\ Cardinality({Current(r)}) = 1
    BY FS_EmptySet, FS_Singleton
  <2>2. ReceiptsOf(r) = {} \/ ReceiptsOf(r) = {Current(r)}
    BY DEF ReceiptInv, ReceiptsOf
  <2>3. Cardinality(ReceiptsOf(r)) <= 1
    BY <2>1, <2>2
  <2>4. pc[r] = "done" => Current(r) \in ReceiptsOf(r)
    BY CurrentType DEF ReceiptInv, ReceiptsOf
  <2>5. \A a \in ReceiptsOf(r) : receipt[a].held = Total(Amount, HeldOf(r))
    BY DEF ReceiptInv, HeldInv, ReceiptsOf
  <2> QED
    BY <2>3, <2>4, <2>5
<1> QED
  BY <1>1, <1>2, <1>3, PlacesCorrect, PTL DEF Spec

-----------------------------------------------------------------------------
(***************************************************************************)
(* Why a block budget is never overspent by what was admitted under it,    *)
(* for every set of requests, processes, budgets and days.                 *)
(*                                                                         *)
(* An attempt's exposure is its estimate while its reservation is          *)
(* outstanding and then the cost on its receipt.  Exposures only fall,     *)
(* except when a reservation is committed, and then the transaction has    *)
(* seen room for it: the recorded spend it read is at least the exposure   *)
(* of what was settled before, the reservations it read are the exposure   *)
(* of the rest, and nothing is settled while it has the lock.              *)
(***************************************************************************)

(***************************************************************************)
(* The sums: the ledger's limits, the progress of the transaction that has *)
(* the lock through its budgets, and the spend it has read, which is at    *)
(* least that of every attempt whose reservation is already gone.          *)
(***************************************************************************)
Exposures == [a \in Attempts |-> Exposure(a)]

WindowInv == \A b \in BudgetIds :
  budgets[b].mode = "block" => Total(Exposures, InWindow(b)) <= budgets[b].limit

HasRoom(r, b) ==
  Total(Exposures, InWindow(b)) + Estimate[r] <= RowsSeen(r)[b].limit

Settled(b) == {a \in InWindow(b) : rsv[a] = "none"}

AdmissionInv == \A r \in Requests : pc[r] \in InTransaction =>
  /\ todo[r] \subseteq MatchingBudgets(r)
  /\ pc[r] = "inserting" => todo[r] = {}
  /\ \A b \in MatchingBudgets(r) \ todo[r] :
       RowsSeen(r)[b].mode = "block" => HasRoom(r, b)
  /\ pc[r] = "checking" => \A b \in todo[r] :
       (FirstOf(todo[r], b) /\ RowsSeen(r)[b].mode = "block")
         => Total(Exposures, Settled(b)) <= spent[r]

BoundInv == \A a \in Attempts : since[a] # None => billed[a] <= Estimate[a[1]]

LedgerInv == BoundInv /\ WindowInv /\ AdmissionInv

IInv == TypeOK /\ PlaceInv /\ LedgerInv

-----------------------------------------------------------------------------
(***************************************************************************)
(* Exposures are amounts, and so are the sums of them.                     *)
(***************************************************************************)
LEMMA ExposureType ==
  ASSUME TypeOK, PlaceInv, NEW a \in Attempts
  PROVE  /\ Exposures[a] = Exposure(a)
         /\ Exposures[a] \in Nat
         /\ Cost[a] \in Nat
         /\ rsv[a] # "none" => Amount[a] = Estimate[a[1]] /\ Amount[a] = Exposures[a]
<1>1. Cost[a] \in Nat
  BY DEF Cost, TypeOK, Receipts, Maybe, NoReceipt
<1>2. a[1] \in Requests /\ Estimate[a[1]] \in Nat \cup {None}
  BY RequestAssumption DEF Attempts, Maybe
<1>3. rsv[a] # "none" => since[a] # None /\ Estimate[a[1]] # None
  BY DEF PlaceInv, BooksInv
<1> QED
  BY <1>1, <1>2, <1>3 DEF Exposures, Exposure, Amount

LEMMA WindowType ==
  ASSUME TypeOK, PlaceInv, NEW b \in BudgetIds, NEW S, S \subseteq InWindow(b)
  PROVE  /\ IsFiniteSet(S)
         /\ \A a \in S : Exposures[a] \in Nat
         /\ Total(Exposures, S) \in Nat
<1>1. S \subseteq Attempts
  BY DEF InWindow, TypeOK
<1>2. IsFiniteSet(S)
  BY <1>1, AttemptsFinite, FS_Subset
<1>3. \A a \in S : Exposures[a] \in Nat
  BY <1>1, ExposureType
<1> QED
  BY <1>2, <1>3, TotalType

(***************************************************************************)
(* A window's start never moves back.                                      *)
(***************************************************************************)
LEMMA WindowStartMonotone ==
  ASSUME NEW b \in BudgetIds, NEW d \in Days, NEW e \in Days, d <= e
  PROVE  WindowStart(b, d) \in Days /\ WindowStart(b, d) <= WindowStart(b, e)
<1>1. b.window \in {"daily", "monthly", "per_work"}
  BY BudgetIdAssumption DEF Windows
<1>2. CASE b.window = "daily"
  BY <1>2 DEF WindowStart
<1>3. CASE b.window = "monthly"
  BY <1>3, CalendarAssumption DEF WindowStart
<1>4. CASE b.window = "per_work"
  BY <1>4, CalendarAssumption DEF WindowStart, Days
<1> QED
  BY <1>1, <1>2, <1>3, <1>4

(***************************************************************************)
(* The budgets that match a request are totally ordered by their ids: the  *)
(* first of them is one budget.                                            *)
(***************************************************************************)
LEMMA FirstIsUnique ==
  ASSUME NEW r \in Requests, NEW S, S \subseteq MatchingBudgets(r),
         NEW b, FirstOf(S, b), NEW c, FirstOf(S, c)
  PROVE  b = c
<1>1. b \in BudgetIds /\ c \in BudgetIds /\ CoversRequest(b, r) /\ CoversRequest(c, r)
  BY DEF FirstOf, MatchingBudgets
<1>2. /\ b.scope \in {"global", "project", "work_id"} /\ b.window \in {"daily", "monthly", "per_work"}
      /\ c.scope \in {"global", "project", "work_id"} /\ c.window \in {"daily", "monthly", "per_work"}
  BY <1>1, BudgetIdAssumption DEF Scopes, Windows
<1>3. SortKey(b) \in Int /\ SortKey(c) \in Int
  BY <1>2 DEF SortKey, ScopeOrder, WindowOrder
<1>4. SortKey(b) <= SortKey(c) /\ SortKey(c) <= SortKey(b)
  BY DEF FirstOf
<1>5. SortKey(b) = SortKey(c)
  BY <1>3, <1>4
<1>6. b.scope = c.scope /\ b.window = c.window
  BY <1>2, <1>5 DEF SortKey, ScopeOrder, WindowOrder
<1>7. b.value = c.value
  BY <1>1, <1>2, <1>6, BudgetIdAssumption DEF CoversRequest, Covers
<1>8. /\ b = [scope |-> b.scope, value |-> b.value, window |-> b.window]
      /\ c = [scope |-> c.scope, value |-> c.value, window |-> c.window]
  BY <1>1, BudgetIdAssumption
<1> QED
  BY <1>6, <1>7, <1>8

-----------------------------------------------------------------------------
(***************************************************************************)
(* A step that admits nothing: exposures can only fall, time only pass,    *)
(* and a block budget keeps its row and its attempts or loses them.        *)
(***************************************************************************)
Quiet ==
  /\ since' = since
  /\ day <= day'
  /\ \A a \in Attempts : Exposure(a)' <= Exposure(a)
  /\ \A b \in BudgetIds : budgets'[b].mode = "block" =>
       admitted'[b] = {} \/ (admitted'[b] = admitted[b] /\ budgets'[b] = budgets[b])

(***************************************************************************)
(* Nothing an exposure depends on changes.                                 *)
(***************************************************************************)
LEMMA SameExposure ==
  ASSUME TypeOK, PlaceInv, UNCHANGED <<rsv, since, receipt>>
  PROVE  \A a \in Attempts : Exposure(a)' <= Exposure(a)
<1> SUFFICES ASSUME NEW a \in Attempts
             PROVE  Exposure(a)' <= Exposure(a)
  OBVIOUS
<1>1. Exposure(a)' = Exposure(a)
  BY DEF Exposure, Cost
<1>2. Exposure(a) \in Nat
  BY ExposureType
<1> QED
  BY <1>1, <1>2

(***************************************************************************)
(* Every step of a settlement is quiet: what is held or released was       *)
(* reserved for at least as much.                                          *)
(***************************************************************************)
LEMMA SettlementIsQuiet ==
  ASSUME TypeOK, PlaceInv, BoundInv, NEW r \in Requests, Settle(r)
  PROVE  Quiet
<1>1. PICK cur \in Attempts : cur = Current(r) /\ cur[1] = r
  BY CurrentType
<1>2. UNCHANGED <<since, day, admitted, budgets>>
  BY DEF Settle, SettleFailedAttempt, EmitFailure, AugmentOverrun, HoldUnpriced, EmitReceipt,
         ReleaseReservation
<1>3. \A a \in Attempts : a # cur => rsv'[a] = rsv[a] /\ receipt'[a] = receipt[a]
  BY <1>1 DEF TypeOK, Settle, SettleFailedAttempt, EmitFailure, AugmentOverrun, HoldUnpriced,
         EmitReceipt, ReleaseReservation
<1>4. Exposure(cur) \in Nat /\ Cost[cur] \in Nat
  BY <1>1, ExposureType
<1>5. since[cur] # None => Estimate[r] \in Nat /\ billed[cur] <= Estimate[r]
  BY <1>1, RequestAssumption DEF BoundInv, PlaceInv, BooksInv, Maybe
<1>6. since[cur] # None => Exposure(cur)' <= Exposure(cur)
  <2> SUFFICES ASSUME since[cur] # None
               PROVE  Exposure(cur)' <= Exposure(cur)
    OBVIOUS
  <2>1. /\ Exposure(cur) = IF rsv[cur] # "none" THEN Estimate[r] ELSE Cost[cur]
        /\ Exposure(cur)' = IF rsv'[cur] # "none" THEN Estimate[r] ELSE Cost'[cur]
        /\ Cost[cur] = IF receipt[cur].cost = None THEN 0 ELSE receipt[cur].cost
        /\ Cost'[cur] = IF receipt'[cur].cost = None THEN 0 ELSE receipt'[cur].cost
    BY <1>1, <1>2 DEF Exposure, Cost
  <2>2. CASE SettleFailedAttempt(r)
    <3>1. rsv[cur] = "active" /\ receipt'[cur] = NoReceipt
      BY <1>1, <2>2 DEF SettleFailedAttempt, PlaceInv, FlightInv, InFlight
    <3> QED
      BY <2>1, <3>1, <1>5 DEF NoReceipt
  <2>3. CASE EmitFailure(r)
    <3>1. rsv' = rsv /\ receipt'[cur].cost = None
      BY <1>1, <2>3 DEF EmitFailure, TypeOK
    <3> QED
      BY <2>1, <3>1, <1>4, <1>5
  <2>4. CASE AugmentOverrun(r)
    <3>1. rsv' = rsv /\ receipt' = receipt
      BY <2>4 DEF AugmentOverrun
    <3> QED
      BY <2>1, <3>1, <1>4
  <2>5. CASE HoldUnpriced(r)
    <3>1. rsv[cur] # "none" /\ rsv'[cur] # "none"
      BY <1>1, <2>5 DEF HoldUnpriced, PlaceInv, AnswerInv, TypeOK
    <3> QED
      BY <2>1, <3>1, <1>5
  <2>6. CASE EmitReceipt(r)
    <3>1. rsv[cur] # "none" /\ rsv'[cur] # "none"
      BY <1>1, <2>6 DEF EmitReceipt, PlaceInv, AnswerInv
    <3> QED
      BY <2>1, <3>1, <1>5
  <2>7. CASE ReleaseReservation(r)
    <3>1. /\ rsv[cur] # "none" /\ rsv'[cur] = "none"
          /\ receipt'[cur].cost = billed[cur]
      BY <1>1, <2>7 DEF ReleaseReservation, PlaceInv, AnswerInv, TypeOK
    <3> QED
      BY <2>1, <3>1, <1>5
  <2> QED
    BY <2>2, <2>3, <2>4, <2>5, <2>6, <2>7 DEF Settle
<1>7. since[cur] = None => Exposure(cur)' <= Exposure(cur)
  BY <1>2, <1>4 DEF Exposure
<1>8. ASSUME NEW a \in Attempts
      PROVE  Exposure(a)' <= Exposure(a)
  <2>1. CASE a = cur
    BY <1>6, <1>7, <2>1
  <2>2. CASE a # cur
    <3>1. Exposure(a)' = Exposure(a)
      BY <1>2, <1>3, <2>2 DEF Exposure, Cost
    <3> QED
      BY <3>1, ExposureType
  <2> QED
    BY <2>1, <2>2
<1> QED
  BY <1>2, <1>8 DEF Quiet, TypeOK, Days

(***************************************************************************)
(* Only the commit of a reservation is not quiet.                          *)
(***************************************************************************)
LEMMA AllElseIsQuiet ==
  ASSUME TypeOK, PlaceInv, BoundInv, [Next]_vars
  PROVE  Quiet \/ \E r \in Requests : CommitReservation(r)
<1> USE DEF Quiet
<1>0. day \in Int
  BY DEF TypeOK, Days
<1>1. ASSUME UNCHANGED <<rsv, since, receipt, day, admitted, budgets>>
      PROVE  Quiet
  BY <1>0, <1>1, SameExposure
<1>2. ASSUME NEW r \in Requests, Admit(r), ~CommitReservation(r)
      PROVE  Quiet
  <2>1. CASE AdmitUnmetered(r)
    <3>1. UNCHANGED <<rsv, since, receipt, day, budgets>>
      BY <2>1 DEF AdmitUnmetered
    <3>2. \A b \in BudgetIds : budgets[b].mode = "block" => b \notin MatchingBudgets(r)
      <4>1. \A b \in MatchingBudgets(r) :
               b \in BudgetIds /\ RowsSeen(r)[b] # NoRow /\ RowsSeen(r)[b].mode = "warn"
        BY <2>1 DEF AdmitUnmetered, NothingToReserve, MatchingBudgets
      <4>2. \A b \in BudgetIds : budgets[b].mode = "block" => RowsSeen(r)[b].mode = "block"
        BY RowsSeenFacts DEF NoRow
      <4> QED
        BY <4>1, <4>2
    <3>3. \A b \in BudgetIds : b \notin MatchingBudgets(r) => admitted'[b] = admitted[b]
      BY <2>1 DEF AdmitUnmetered, Enrol
    <3> QED
      BY <1>0, <3>1, <3>2, <3>3, SameExposure
  <2>2. CASE ~AdmitUnmetered(r)
    BY <1>1, <1>2, <2>2 DEF Admit, RefuseDeclaration, RefuseUnpriced, BeginChecks, ReadSpent,
       PassBudget, RefuseOverBudget, RowsAfterRefusal
  <2> QED
    BY <2>1, <2>2
<1>3. ASSUME NEW r \in Requests, Call(r) \/ Disturb(r)
      PROVE  Quiet
  BY <1>1, <1>3 DEF Call, Disturb, Answered, Fail, OpenStream, IterateStream, EndStream,
     CancelBackoff, DiscardStream, StoreTimeout
<1>4. ASSUME NEW r \in Requests, Settle(r)
      PROVE  Quiet
  BY <1>4, SettlementIsQuiet
<1>5. ASSUME NEW p \in Processes, Crash(p)
      PROVE  Quiet
  BY <1>1, <1>5 DEF Crash
<1>6. ASSUME Operate
      PROVE  Quiet
  <2>1. PICK b \in OperatorBudgets :
          RemoveBudget(b) \/ \E row \in OperatorRows : SetBudget(b, row)
    BY <1>6 DEF Operate
  <2>2. /\ UNCHANGED <<rsv, since, receipt, day>>
        /\ admitted' = [admitted EXCEPT ![b] = {}]
        /\ \A c \in BudgetIds \ {b} : budgets'[c] = budgets[c]
    BY <2>1 DEF RemoveBudget, SetBudget, TypeOK
  <2> QED
    BY <1>0, <2>2, SameExposure DEF TypeOK
<1>7. ASSUME Tick
      PROVE  Quiet
  BY <1>0, <1>7, SameExposure DEF Tick
<1>8. ASSUME UNCHANGED vars
      PROVE  Quiet
  BY <1>1, <1>8 DEF vars
<1> QED
  BY <1>2, <1>3, <1>4, <1>5, <1>6, <1>7, <1>8 DEF Next, Serve, Finished

-----------------------------------------------------------------------------
(***************************************************************************)
(* A quiet step leaves no more in a window than was there, nor a larger    *)
(* sum over any part of it that does not grow.                             *)
(***************************************************************************)
LEMMA WindowShrinks ==
  ASSUME TypeOK, TypeOK', Quiet, NEW b \in BudgetIds, admitted'[b] = admitted[b]
  PROVE  InWindow(b)' \subseteq InWindow(b)
<1>1. day \in Days /\ day' \in Days /\ day <= day'
  BY DEF TypeOK, Quiet
<1>2. /\ WindowStart(b, day) \in Int /\ WindowStart(b, day') \in Int
      /\ WindowStart(b, day) <= WindowStart(b, day')
  BY <1>1, WindowStartMonotone DEF Days
<1>3. \A a \in admitted[b] : since'[a] = since[a] /\ (since[a] # None => since[a] \in Int)
  BY DEF TypeOK, Quiet, Maybe, Days
<1>4. InWindow(b)' = {a \in admitted'[b] : since'[a] = None \/ since'[a] >= WindowStart(b, day')}
  BY DEF InWindow, WindowStart
<1> QED
  BY <1>2, <1>3, <1>4 DEF InWindow

LEMMA ExposureTypeNext ==
  ASSUME TypeOK', PlaceInv', NEW a \in Attempts
  PROVE  Exposures'[a] \in Nat
<1>1. Cost'[a] \in Nat
  BY DEF Cost, TypeOK, Receipts, Maybe, NoReceipt
<1>2. a[1] \in Requests /\ Estimate[a[1]] \in Nat \cup {None}
  BY RequestAssumption DEF Attempts, Maybe
<1>3. rsv'[a] # "none" => since'[a] # None /\ Estimate[a[1]] # None
  BY DEF PlaceInv, BooksInv
<1>4. Exposures'[a] = Exposure(a)'
  BY DEF Exposures
<1> QED
  BY <1>1, <1>2, <1>3, <1>4 DEF Exposure

LEMMA WindowTypeNext ==
  ASSUME TypeOK', PlaceInv', NEW b \in BudgetIds
  PROVE  Total(Exposures', InWindow(b)') \in Nat
<1>1. InWindow(b)' \subseteq Attempts
  BY DEF InWindow, TypeOK
<1>2. IsFiniteSet(InWindow(b)')
  BY <1>1, AttemptsFinite, FS_Subset
<1>3. \A a \in InWindow(b)' : Exposures'[a] \in Nat
  BY <1>1, ExposureTypeNext
<1> QED
  BY <1>2, <1>3, TotalType

LEMMA SumFalls ==
  ASSUME TypeOK, PlaceInv, TypeOK', PlaceInv', Quiet, NEW b \in BudgetIds,
         admitted'[b] = admitted[b],
         NEW S, S \subseteq InWindow(b), NEW T, T \subseteq InWindow(b)', T \subseteq S
  PROVE  Total(Exposures', T) <= Total(Exposures, S)
<1>1. IsFiniteSet(S) /\ \A a \in S : Exposures[a] \in Nat
  BY WindowType
<1>2. S \subseteq Attempts
  BY DEF InWindow, TypeOK
<1>3. \A a \in T : Exposures'[a] \in Nat /\ Exposures'[a] <= Exposures[a]
  <2> SUFFICES ASSUME NEW a \in T
               PROVE  Exposures'[a] \in Nat /\ Exposures'[a] <= Exposures[a]
    OBVIOUS
  <2>1. a \in Attempts
    BY <1>2
  <2>2. Exposures[a] = Exposure(a)
    BY <2>1 DEF Exposures
  <2>3. Exposures'[a] = Exposure(a)'
    BY <2>1 DEF Exposures
  <2>4. Exposures'[a] \in Nat
    BY <2>1, ExposureTypeNext
  <2> QED
    BY <2>1, <2>2, <2>3, <2>4 DEF Quiet
<1> QED
  BY <1>1, <1>3, TotalMonotone

(***************************************************************************)
(* What was billed never exceeds the estimate it was admitted for.         *)
(***************************************************************************)
LEMMA BoundStep ==
  ASSUME EstimateIsUpperBound, TypeOK, PlaceInv, BoundInv, [Next]_vars
  PROVE  BoundInv'
<1>1. ASSUME NEW r \in Requests, AdmitUnmetered(r)
      PROVE  BoundInv'
  <2>1. PICK c \in Charges[r] : billed' = [billed EXCEPT ![Current(r)] = c]
    BY <1>1 DEF AdmitUnmetered, Send
  <2>2. since' = since /\ since[Current(r)] = None
    BY <1>1 DEF AdmitUnmetered, BeginsAdmission, PlaceInv, UnsentInv, Unsent
  <2> QED
    BY <2>1, <2>2 DEF BoundInv, TypeOK
<1>2. ASSUME NEW r \in Requests, CommitReservation(r)
      PROVE  BoundInv'
  <2>1. PICK c \in Charges[r] : billed' = [billed EXCEPT ![Current(r)] = c]
    BY <1>2 DEF CommitReservation, Send
  <2>2. since' = [since EXCEPT ![Current(r)] = day] /\ Estimate[r] # None
    BY <1>2 DEF CommitReservation, PlaceInv, LockInv, InTransaction
  <2>3. c <= Estimate[r]
    BY <2>2 DEF EstimateIsUpperBound
  <2> QED
    BY <2>1, <2>2, <2>3, CurrentType DEF BoundInv, TypeOK
<1>3. ASSUME UNCHANGED <<since, billed>>
      PROVE  BoundInv'
  BY <1>3 DEF BoundInv
<1>4. ASSUME NEW r \in Requests, Serve(r), ~AdmitUnmetered(r), ~CommitReservation(r)
      PROVE  BoundInv'
  BY <1>3, <1>4 DEF Serve, Admit, Call, Settle, RefuseDeclaration, RefuseUnpriced, BeginChecks,
     ReadSpent, PassBudget, RefuseOverBudget, Answered, Fail, OpenStream, IterateStream,
     EndStream, SettleFailedAttempt, EmitFailure, AugmentOverrun, HoldUnpriced, EmitReceipt,
     ReleaseReservation
<1>5. ASSUME NEW r \in Requests, Disturb(r)
      PROVE  BoundInv'
  BY <1>3, <1>5 DEF Disturb, CancelBackoff, DiscardStream, StoreTimeout
<1>6. ASSUME (\E p \in Processes : Crash(p)) \/ Operate \/ Tick \/ UNCHANGED vars
      PROVE  BoundInv'
  BY <1>3, <1>6 DEF Crash, Operate, SetBudget, RemoveBudget, Tick, vars
<1> QED
  BY <1>1, <1>2, <1>4, <1>5, <1>6 DEF Next, Finished

(***************************************************************************)
(* A commit makes room for exactly its estimate.                           *)
(***************************************************************************)
LEMMA CommitFits ==
  ASSUME TypeOK, PlaceInv, AdmissionInv, WindowInv, TypeOK', PlaceInv',
         NEW r \in Requests, CommitReservation(r)
  PROVE  WindowInv'
<1> SUFFICES ASSUME NEW b \in BudgetIds, budgets'[b].mode = "block"
             PROVE  Total(Exposures', InWindow(b)') <= budgets'[b].limit
  BY DEF WindowInv
<1>1. PICK cur \in Attempts : cur = Current(r) /\ cur[1] = r
  BY CurrentType
<1>2. /\ budgets'[b] = RowsSeen(r)[b]
      /\ since' = [since EXCEPT ![cur] = day]
      /\ rsv' = [rsv EXCEPT ![cur] = "active"]
      /\ UNCHANGED <<day, receipt>>
      /\ admitted'[b] = IF b \in MatchingBudgets(r) THEN admitted[b] \cup {cur} ELSE admitted[b]
  BY <1>1 DEF CommitReservation, Enrol
<1>3. /\ pc[r] = "inserting" /\ Estimate[r] \in Nat
      /\ since[cur] = None /\ cur \notin admitted[b]
  BY <1>1, RequestAssumption
  DEF CommitReservation, PlaceInv, LockInv, UnsentInv, Unsent, InTransaction, Maybe
<1>4. \A a \in Attempts : a # cur => Exposures'[a] = Exposures[a]
  <2> SUFFICES ASSUME NEW a \in Attempts, a # cur
               PROVE  Exposures'[a] = Exposures[a]
    OBVIOUS
  <2>1. Exposures'[a] = Exposure(a)' /\ Exposures[a] = Exposure(a)
    BY DEF Exposures
  <2>2. since'[a] = since[a] /\ rsv'[a] = rsv[a] /\ receipt'[a] = receipt[a]
    BY <1>2 DEF TypeOK
  <2> QED
    BY <2>1, <2>2 DEF Exposure, Cost
<1>5. Exposures'[cur] = Estimate[r]
  <2>1. Exposures'[cur] = Exposure(cur)'
    BY DEF Exposures
  <2>2. rsv'[cur] = "active" /\ since'[cur] = day /\ day # None
    BY <1>2, NoneAssumption DEF TypeOK, Days
  <2> QED
    BY <1>1, <2>1, <2>2 DEF Exposure
<1>6. /\ IsFiniteSet(InWindow(b)) /\ InWindow(b) \subseteq Attempts /\ cur \notin InWindow(b)
      /\ Total(Exposures, InWindow(b)) \in Nat
  BY <1>3, WindowType DEF InWindow, TypeOK
<1>7. \A a \in admitted[b] : since'[a] = since[a]
  BY <1>2, <1>3 DEF TypeOK
<1>8. Total(Exposures', InWindow(b)) = Total(Exposures, InWindow(b))
  BY <1>4, <1>6, TotalSameTerms
<1>9. \A a \in InWindow(b) \cup {cur} : Exposures'[a] \in Nat
  BY <1>4, <1>5, <1>3, <1>6, ExposureType
<1>10. CASE b \in MatchingBudgets(r)
  <2>1. InWindow(b)' \subseteq InWindow(b) \cup {cur}
    BY <1>2, <1>7, <1>10 DEF InWindow, WindowStart
  <2>2. IsFiniteSet(InWindow(b) \cup {cur})
    BY <1>6, FS_AddElement
  <2>3. \A a \in InWindow(b)' :
          Exposures'[a] \in Nat /\ a \in InWindow(b) \cup {cur} /\ Exposures'[a] <= Exposures'[a]
    <3> SUFFICES ASSUME NEW a \in InWindow(b)'
                 PROVE  /\ a \in InWindow(b) \cup {cur}
                        /\ Exposures'[a] \in Nat /\ Exposures'[a] <= Exposures'[a]
      OBVIOUS
    <3>1. a \in InWindow(b) \cup {cur}
      BY <2>1
    <3>2. Exposures'[a] \in Nat
      BY <1>9, <3>1
    <3> QED
      BY <3>1, <3>2
  <2>4. Total(Exposures', InWindow(b)') <= Total(Exposures', InWindow(b) \cup {cur})
    BY <1>9, <2>2, <2>3, TotalMonotone
  <2>5. Total(Exposures', InWindow(b) \cup {cur}) = Total(Exposures', InWindow(b)) + Exposures'[cur]
    BY <1>6, <1>9, TotalInsert
  <2>6. Total(Exposures, InWindow(b)) + Estimate[r] <= RowsSeen(r)[b].limit
    BY <1>2, <1>3, <1>10 DEF AdmissionInv, HasRoom, InTransaction
  <2>7. Total(Exposures', InWindow(b) \cup {cur}) = Total(Exposures, InWindow(b)) + Estimate[r]
    BY <1>5, <1>8, <2>5
  <2>8. Total(Exposures', InWindow(b)') \in Nat /\ budgets'[b].limit \in Nat
    BY WindowTypeNext DEF TypeOK, Row, NoRow
  <2> QED
    BY <1>2, <1>3, <1>6, <2>4, <2>6, <2>7, <2>8
<1>11. CASE b \notin MatchingBudgets(r)
  <2>1. budgets'[b] = budgets[b]
    BY <1>2, <1>11, RowsSeenFacts DEF MatchingBudgets, NoRow
  <2>2. InWindow(b)' = InWindow(b)
    BY <1>2, <1>7, <1>11 DEF InWindow, WindowStart
  <2> QED
    BY <1>8, <2>1, <2>2 DEF WindowInv
<1> QED
  BY <1>10, <1>11

LEMMA WindowStep ==
  ASSUME TypeOK, PlaceInv, LedgerInv, TypeOK', PlaceInv', [Next]_vars
  PROVE  WindowInv'
<1>1. CASE Quiet
  <2> SUFFICES ASSUME NEW b \in BudgetIds, budgets'[b].mode = "block"
               PROVE  Total(Exposures', InWindow(b)') <= budgets'[b].limit
    BY DEF WindowInv
  <2>1. budgets'[b].limit \in Nat
    BY DEF TypeOK, Row, NoRow
  <2>2. CASE admitted'[b] = {}
    <3>1. InWindow(b)' = {}
      BY <2>2 DEF InWindow
    <3> QED
      BY <2>1, <3>1, TotalEmpty
  <2>3. CASE admitted'[b] = admitted[b] /\ budgets'[b] = budgets[b]
    <3>1. Total(Exposures', InWindow(b)') <= Total(Exposures, InWindow(b))
      BY <1>1, <2>3, WindowShrinks, SumFalls
    <3>2. Total(Exposures, InWindow(b)) <= budgets[b].limit
      BY <2>3 DEF LedgerInv, WindowInv
    <3>3. Total(Exposures, InWindow(b)) \in Nat /\ Total(Exposures', InWindow(b)') \in Nat
      BY WindowType, WindowTypeNext
    <3> QED
      BY <2>1, <2>3, <3>1, <3>2, <3>3
  <2> QED
    BY <1>1, <2>2, <2>3 DEF Quiet
<1> QED
  BY <1>1, AllElseIsQuiet, CommitFits DEF LedgerInv

-----------------------------------------------------------------------------
(***************************************************************************)
(* The spend a transaction reads for its first budget covers every settled *)
(* attempt in that budget's window: each is on a receipt that counts, not  *)
(* dated before the attempt.                                               *)
(***************************************************************************)
LEMMA SettledIsRecorded ==
  ASSUME TypeOK, PlaceInv, NEW r \in Requests, NEW b \in MatchingBudgets(r),
         RowsSeen(r)[b].mode = "block"
  PROVE  Total(Exposures, Settled(b)) <= SpentSoFar(b)
<1>1. b \in BudgetIds
  BY DEF MatchingBudgets
<1>2. Settled(b) \subseteq InWindow(b) /\ InWindow(b) \subseteq admitted[b]
      /\ admitted[b] \subseteq Attempts
  BY <1>1 DEF Settled, InWindow, TypeOK
<1>3. ASSUME NEW a \in Settled(b)
      PROVE  /\ Exposures[a] \in Nat
             /\ Exposures[a] = 0 \/ (a \in Recorded(b) /\ Exposures[a] <= Cost[a])
  <2>1. a \in Attempts /\ a \in admitted[b] /\ rsv[a] = "none"
        /\ (since[a] = None \/ since[a] >= WindowStart(b, day))
    BY <1>2, <1>3 DEF Settled, InWindow
  <2>2. budgets[b].mode = "block"
    BY <1>1, <2>1, RowsSeenFacts DEF PlaceInv, AdmittedInv
  <2>3. since[a] # None /\ since[a] \in Int /\ CoversRequest(b, a[1])
    BY <1>1, <2>1, <2>2 DEF PlaceInv, AdmittedInv, TypeOK, Maybe, Days
  <2>4. Exposures[a] = Cost[a] /\ Cost[a] \in Nat
    BY <2>1, <2>3, ExposureType DEF Exposure
  <2>5. CASE receipt[a].cost = None
    BY <2>1, <2>4, <2>5 DEF Cost
  <2>6. CASE receipt[a].cost # None
    <3>1. /\ receipt[a].status \in {"success", "partial"}
          /\ since[a] <= receipt[a].day
      BY <2>1, <2>3, <2>6 DEF PlaceInv, BooksInv
    <3>2. receipt[a].day \in Int /\ WindowStart(b, day) \in Int
      BY <1>1, <2>1, WindowStartMonotone DEF TypeOK, Receipts, NoReceipt, Days
    <3>3. receipt[a].day >= WindowStart(b, day)
      BY <2>1, <2>3, <3>1, <3>2
    <3>4. a \in Recorded(b)
      BY <2>1, <2>3, <3>1, <3>3 DEF Recorded
    <3> QED
      BY <2>4, <3>4
  <2> QED
    BY <2>5, <2>6
<1>4. Recorded(b) \subseteq Attempts
  BY DEF Recorded
<1>5. IsFiniteSet(Recorded(b))
  BY <1>4, AttemptsFinite, FS_Subset
<1>6. \A a \in Recorded(b) : Cost[a] \in Nat
  BY <1>4, ExposureType
<1> QED
  BY <1>3, <1>5, <1>6, TotalMonotone DEF SpentSoFar

(***************************************************************************)
(* A budget that fits has room: what it has read as recorded and what it   *)
(* reads as reserved are at least the exposure of its window.              *)
(***************************************************************************)
LEMMA FitsHasRoom ==
  ASSUME TypeOK, PlaceInv, NEW r \in Requests, Estimate[r] # None, NEW b \in MatchingBudgets(r),
         RowsSeen(r)[b].mode = "block",
         Total(Exposures, Settled(b)) <= spent[r], Fits(r, b)
  PROVE  HasRoom(r, b)
<1> DEFINE open == InWindow(b) \ Settled(b)
<1>1. b \in BudgetIds /\ RowsSeen(r)[b] \in Row \cup {NoRow}
  BY RowsSeenFacts DEF MatchingBudgets
<1>2. open \subseteq InWindow(b) /\ Settled(b) \subseteq InWindow(b)
      /\ InWindow(b) \subseteq admitted[b] /\ admitted[b] \subseteq Attempts
  BY <1>1 DEF Settled, InWindow, TypeOK
<1>3. /\ IsFiniteSet(open) /\ IsFiniteSet(Settled(b))
      /\ \A a \in InWindow(b) : Exposures[a] \in Nat
      /\ Total(Exposures, open) \in Nat
      /\ Total(Exposures, Settled(b)) \in Nat
  BY <1>1, <1>2, WindowType
<1>4. Settled(b) \cup open = InWindow(b) /\ Settled(b) \cap open = {}
  BY <1>2
<1>5. Total(Exposures, InWindow(b)) = Total(Exposures, Settled(b)) + Total(Exposures, open)
  <2>1. \A a \in Settled(b) \cup open : Exposures[a] \in Nat
    BY <1>3, <1>4
  <2>2. Total(Exposures, Settled(b) \cup open)
          = Total(Exposures, Settled(b)) + Total(Exposures, open)
    BY <1>3, <1>4, <2>1, TotalDisjoint
  <2> QED
    BY <1>4, <2>2
<1>6. Total(Exposures, open) <= ReservedUsd(b)
  <2>1. \A a \in open : /\ Exposures[a] \in Nat /\ a \in Outstanding(b)
                        /\ Exposures[a] <= Amount[a]
    <3> SUFFICES ASSUME NEW a \in open
                 PROVE  /\ Exposures[a] \in Nat /\ a \in Outstanding(b)
                        /\ Exposures[a] <= Amount[a]
      OBVIOUS
    <3>1. a \in Attempts /\ a \in admitted[b] /\ rsv[a] # "none"
          /\ (since[a] = None \/ since[a] >= WindowStart(b, day))
      BY <1>2 DEF Settled, InWindow
    <3>2. since[a] # None /\ CoversRequest(b, a[1])
      BY <1>1, <3>1 DEF PlaceInv, BooksInv, AdmittedInv
    <3>3. Exposures[a] \in Nat /\ Exposures[a] = Amount[a]
      BY <3>1, ExposureType
    <3> QED
      BY <3>1, <3>2, <3>3 DEF Outstanding
  <2>2. Outstanding(b) \subseteq Attempts
    BY DEF Outstanding
  <2>3. IsFiniteSet(Outstanding(b))
    BY <2>2, AttemptsFinite, FS_Subset
  <2>4. \A a \in Attempts : Amount[a] \in Nat
    BY RequestAssumption DEF Amount, Attempts, Maybe
  <2>5. \A a \in Outstanding(b) : Amount[a] \in Nat
    BY <2>2, <2>4
  <2> HIDE DEF open
  <2> QED
    BY <2>1, <2>3, <2>5, TotalMonotone DEF ReservedUsd
<1>7. /\ ReservedUsd(b) \in Nat /\ spent[r] \in Nat /\ Estimate[r] \in Nat
      /\ RowsSeen(r)[b].limit \in Nat
  BY <1>1, SumsType, RequestAssumption DEF TypeOK, Row, NoRow, Maybe
<1>8. spent[r] + ReservedUsd(b) + Estimate[r] <= RowsSeen(r)[b].limit
  BY DEF Fits
<1> HIDE DEF open
<1> QED
  BY <1>3, <1>5, <1>6, <1>7, <1>8 DEF HasRoom

(***************************************************************************)
(* The transaction's progress survives the steps of everyone else.         *)
(***************************************************************************)
LEMMA AdmissionStep ==
  ASSUME TypeOK, PlaceInv, LedgerInv, TypeOK', PlaceInv', [Next]_vars
  PROVE  AdmissionInv'
<1> DEFINE Progress(q, b) == RowsSeen(q)[b].mode = "block" => HasRoom(q, b)
           HasRead(q, b) == (FirstOf(todo[q], b) /\ RowsSeen(q)[b].mode = "block")
                              => Total(Exposures, Settled(b)) <= spent[q]
<1> SUFFICES ASSUME NEW q \in Requests, pc'[q] \in InTransaction
             PROVE  /\ todo'[q] \subseteq MatchingBudgets(q)'
                    /\ pc'[q] = "inserting" => todo'[q] = {}
                    /\ \A b \in MatchingBudgets(q)' \ todo'[q] : Progress(q, b)'
                    /\ pc'[q] = "checking" => \A b \in todo'[q] : HasRead(q, b)'
  BY DEF AdmissionInv
<1>1. lock' = q /\ Estimate[q] # None
  BY DEF PlaceInv, LockInv
<1>2. CASE lock # q
  <2>1. BeginChecks(q)
    BY <1>1, <1>2, BeginsUnderLock
  <2>2. budgets' = budgets /\ todo'[q] = MatchingBudgets(q) /\ pc'[q] = "reading"
    BY <2>1 DEF BeginChecks, Goto, TypeOK
  <2>3. MatchingBudgets(q)' = MatchingBudgets(q)
    BY <2>2 DEF MatchingBudgets, RowsSeen, CreatesRunBudget
  <2> QED
    BY <2>2, <2>3
<1>3. CASE lock = q
  <2>1. UNCHANGED <<budgets, rsv, since, admitted>>
    BY <1>1, <1>3, UnderLock
  <2>2. RowsSeen(q)' = RowsSeen(q) /\ MatchingBudgets(q)' = MatchingBudgets(q)
    BY <2>1 DEF MatchingBudgets, RowsSeen, CreatesRunBudget
  <2>3. Quiet
    <3>1. ~ \E r \in Requests : CommitReservation(r)
      BY <1>1, RequestAssumption DEF CommitReservation, LockAfter
    <3> QED
      BY <3>1, AllElseIsQuiet DEF LedgerInv
  <2>4. pc[q] \in InTransaction
    BY <1>3 DEF PlaceInv, LockInv
  <2>5. ASSUME NEW b \in BudgetIds, HasRoom(q, b)
        PROVE  HasRoom(q, b)'
    <3>1. Total(Exposures', InWindow(b)') <= Total(Exposures, InWindow(b))
      BY <2>1, <2>3, WindowShrinks, SumFalls
    <3>2. Total(Exposures', InWindow(b)') \in Nat /\ Total(Exposures, InWindow(b)) \in Nat
      BY WindowType, WindowTypeNext
    <3>3. Estimate[q] \in Nat /\ RowsSeen(q)[b].limit \in Nat
      BY <1>1, RowsSeenFacts, RequestAssumption DEF Row, NoRow, Maybe
    <3>4. Total(Exposures, InWindow(b)) + Estimate[q] <= RowsSeen(q)[b].limit
      BY <2>5 DEF HasRoom
    <3>5. Total(Exposures', InWindow(b)') + Estimate[q] <= RowsSeen(q)'[b].limit
      BY <2>2, <3>1, <3>2, <3>3, <3>4
    <3> QED
      BY <3>5 DEF HasRoom
  <2>6. /\ todo[q] \subseteq MatchingBudgets(q)
        /\ pc[q] = "inserting" => todo[q] = {}
        /\ \A b \in MatchingBudgets(q) \ todo[q] : Progress(q, b)
        /\ pc[q] = "checking" => \A b \in todo[q] : HasRead(q, b)
    BY <2>4 DEF LedgerInv, AdmissionInv
  <2>7. \A b \in MatchingBudgets(q) \ todo[q] : Progress(q, b)'
    BY <2>2, <2>5, <2>6 DEF MatchingBudgets
  <2>8. ASSUME NEW b \in MatchingBudgets(q)
        PROVE  /\ Total(Exposures', Settled(b)') <= Total(Exposures, Settled(b))
               /\ Total(Exposures', Settled(b)') \in Nat
               /\ Total(Exposures, Settled(b)) \in Nat
    <3>1. b \in BudgetIds /\ admitted'[b] = admitted[b]
      BY <2>1 DEF MatchingBudgets
    <3>2. InWindow(b)' \subseteq InWindow(b)
      BY <2>3, <3>1, WindowShrinks
    <3>3. Settled(b)' \subseteq InWindow(b)' /\ Settled(b) \subseteq InWindow(b)
          /\ Settled(b)' \subseteq Settled(b)
      BY <2>1, <3>2 DEF Settled
    <3>4. Settled(b)' \subseteq Attempts
      BY <3>1, <3>3 DEF InWindow, TypeOK
    <3>5. IsFiniteSet(Settled(b)') /\ \A a \in Settled(b)' : Exposures'[a] \in Nat
      BY <3>4, AttemptsFinite, FS_Subset, ExposureTypeNext
    <3>6. Total(Exposures', Settled(b)') \in Nat
      BY <3>5, TotalType
    <3> QED
      BY <2>3, <3>1, <3>3, <3>6, SumFalls, WindowType
  <2>9. CASE pc'[q] = pc[q] /\ todo'[q] = todo[q] /\ spent'[q] = spent[q]
    <3>1. pc[q] = "checking" => \A b \in todo[q] : HasRead(q, b)'
      <4> SUFFICES ASSUME pc[q] = "checking", NEW b \in todo[q],
                          FirstOf(todo[q], b), RowsSeen(q)[b].mode = "block"
                   PROVE  Total(Exposures', Settled(b)') <= spent[q]
        BY <2>2, <2>9 DEF FirstOf
      <4>1. Total(Exposures, Settled(b)) <= spent[q]
        BY <2>6
      <4> QED
        BY <2>6, <2>8, <4>1 DEF TypeOK
    <3> QED
      BY <2>2, <2>6, <2>7, <2>9, <3>1
  <2>10. CASE ReadSpent(q)
    <3>1. PICK c \in todo[q] : FirstOf(todo[q], c) /\ spent' = [spent EXCEPT ![q] = SpentSoFar(c)]
      BY <2>10 DEF ReadSpent
    <3>2. todo' = todo /\ spent'[q] = SpentSoFar(c) /\ pc'[q] = "checking"
      BY <2>10, <3>1 DEF ReadSpent, Goto, TypeOK
    <3>3. \A b \in todo[q] : HasRead(q, b)'
      <4> SUFFICES ASSUME NEW b \in todo[q], FirstOf(todo[q], b), RowsSeen(q)[b].mode = "block"
                   PROVE  Total(Exposures', Settled(b)') <= spent'[q]
        BY <2>2, <3>2 DEF FirstOf
      <4>1. b = c
        BY <2>6, <3>1, FirstIsUnique
      <4>2. b \in MatchingBudgets(q)
        BY <2>6
      <4>3. Total(Exposures, Settled(b)) <= SpentSoFar(b)
        BY <4>2, SettledIsRecorded
      <4>4. SpentSoFar(b) \in Nat
        BY <4>2, SumsType DEF MatchingBudgets
      <4> QED
        BY <2>8, <3>2, <4>1, <4>2, <4>3, <4>4
    <3> QED
      BY <2>2, <2>6, <2>7, <3>2, <3>3
  <2>11. CASE PassBudget(q)
    <3>1. PICK c \in todo[q] :
            /\ FirstOf(todo[q], c)
            /\ Fits(q, c) \/ RowsSeen(q)[c].mode = "warn"
            /\ todo' = [todo EXCEPT ![q] = todo[q] \ {c}]
      BY <2>11 DEF PassBudget
    <3>2. /\ pc[q] = "checking" /\ todo'[q] = todo[q] \ {c}
          /\ pc'[q] = IF todo'[q] = {} THEN "inserting" ELSE "reading"
      BY <2>11, <3>1 DEF PassBudget, Goto, TypeOK
    <3>3. c \in MatchingBudgets(q) /\ c \in BudgetIds
      BY <2>6 DEF MatchingBudgets
    <3>4. RowsSeen(q)[c].mode = "block" => HasRoom(q, c)
      BY <1>1, <2>6, <3>1, <3>2, <3>3, FitsHasRoom
    <3>5. Progress(q, c)'
      BY <2>2, <2>5, <3>3, <3>4
    <3> QED
      BY <2>2, <2>6, <2>7, <3>2, <3>5
  <2> QED
    BY <1>1, <1>3, <2>9, <2>10, <2>11, UnderLock
<1> QED
  BY <1>2, <1>3

-----------------------------------------------------------------------------
LEMMA LedgerInit == Init => LedgerInv
<1> SUFFICES ASSUME Init
             PROVE  LedgerInv
  OBVIOUS
<1>1. BoundInv /\ AdmissionInv
  BY DEF Init, BoundInv, AdmissionInv, InTransaction
<1>2. ASSUME NEW b \in BudgetIds, budgets[b].mode = "block"
      PROVE  Total(Exposures, InWindow(b)) <= budgets[b].limit
  <2>1. InWindow(b) = {}
    BY DEF Init, InWindow
  <2>2. budgets[b].limit \in Nat
    BY ConfigurationAssumption DEF Init, Row, NoRow
  <2> QED
    BY <2>1, <2>2, TotalEmpty
<1> QED
  BY <1>1, <1>2 DEF LedgerInv, WindowInv

LEMMA LedgerCorrect == EstimateIsUpperBound /\ Spec => []IInv
<1>1. Init => IInv
  BY TypeInit, PlaceInit, LedgerInit DEF IInv
<1>2. EstimateIsUpperBound /\ IInv /\ [Next]_vars => IInv'
  <2> SUFFICES ASSUME EstimateIsUpperBound, TypeOK, PlaceInv, LedgerInv, [Next]_vars
               PROVE  IInv'
    BY DEF IInv
  <2>1. TypeOK' /\ PlaceInv'
    BY TypeStep, PlaceStep
  <2>2. BoundInv' /\ WindowInv' /\ AdmissionInv'
    BY <2>1, BoundStep, WindowStep, AdmissionStep DEF LedgerInv
  <2> QED
    BY <2>1, <2>2 DEF IInv, LedgerInv
<1>3. EstimateIsUpperBound => []EstimateIsUpperBound
  <2>1. EstimateIsUpperBound => EstimateIsUpperBound'
    BY DEF EstimateIsUpperBound
  <2> QED
    BY <2>1, PTL
<1> QED
  BY <1>1, <1>2, <1>3, PTL DEF Spec

(***************************************************************************)
(* The admission transaction (budgets/enforcement.py reserve) does what it *)
(* is for: if every estimate is an upper bound of what the provider bills, *)
(* then for any number of requests, processes, retries and budgets, and    *)
(* whatever crashes, times out or is settled late, what was admitted under *)
(* a block budget never costs more than its limit in one window.           *)
(***************************************************************************)
THEOREM BlockBudgetsHold ==
  EstimateIsUpperBound /\ Spec => []AdmittedSpendWithinLimit
<1>1. IInv => AdmittedSpendWithinLimit
  <2> SUFFICES ASSUME TypeOK, PlaceInv, LedgerInv,
                      NEW b \in BudgetIds, budgets[b].mode = "block"
               PROVE  Total(billed, InWindow(b)) <= budgets[b].limit
    BY DEF IInv, AdmittedSpendWithinLimit
  <2>1. InWindow(b) \subseteq admitted[b] /\ admitted[b] \subseteq Attempts
    BY DEF InWindow, TypeOK
  <2>2. ASSUME NEW a \in InWindow(b)
        PROVE  billed[a] \in Nat /\ billed[a] <= Exposures[a]
    <3>1. a \in Attempts /\ since[a] # None /\ billed[a] \in Nat
      BY <2>1 DEF TypeOK, PlaceInv, AdmittedInv
    <3>2. Exposures[a] = Exposure(a) /\ Exposures[a] \in Nat /\ Cost[a] \in Nat
      BY <3>1, ExposureType
    <3>3. CASE rsv[a] # "none"
      BY <3>1, <3>2, <3>3 DEF Exposure, LedgerInv, BoundInv
    <3>4. CASE rsv[a] = "none"
      <4>1. billed[a] = 0 \/ receipt[a].cost = billed[a]
        BY <3>1, <3>4 DEF PlaceInv, BooksInv
      <4>2. Exposures[a] = Cost[a]
        BY <3>1, <3>2, <3>4 DEF Exposure
      <4>3. receipt[a].cost = billed[a] => Cost[a] = billed[a]
        BY <3>1, NoneAssumption DEF Cost
      <4> QED
        BY <3>1, <3>2, <4>1, <4>2, <4>3
    <3> QED
      BY <3>3, <3>4
  <2>3. Total(billed, InWindow(b)) <= Total(Exposures, InWindow(b))
    BY <2>2, WindowType, TotalMonotone
  <2>4. Total(Exposures, InWindow(b)) <= budgets[b].limit
    BY DEF LedgerInv, WindowInv
  <2>5. /\ Total(billed, InWindow(b)) \in Nat
        /\ Total(Exposures, InWindow(b)) \in Nat
        /\ budgets[b].limit \in Nat
    <3>1. IsFiniteSet(InWindow(b)) /\ Total(Exposures, InWindow(b)) \in Nat
      BY WindowType
    <3>2. \A a \in InWindow(b) : billed[a] \in Nat
      BY <2>2
    <3>3. Total(billed, InWindow(b)) \in Nat
      BY <3>1, <3>2, TotalType
    <3>4. budgets[b].limit \in Nat
      BY DEF TypeOK, Row, NoRow
    <3> QED
      BY <3>1, <3>3, <3>4
  <2> QED
    BY <2>3, <2>4, <2>5
<1> QED
  BY <1>1, LedgerCorrect, PTL

(***************************************************************************)
(* No dollar a provider bills for a metered attempt ever leaves the books: *)
(* at every step, however the attempt failed and wherever its process      *)
(* died, either its reservation is outstanding for at least that much or a *)
(* receipt that counts carries exactly it.                                 *)
(***************************************************************************)
THEOREM MoneyStaysOnTheBooks ==
  EstimateIsUpperBound /\ Spec => []MoneyAlwaysAccounted
<1>1. IInv => MoneyAlwaysAccounted
  <2> SUFFICES ASSUME TypeOK, PlaceInv, LedgerInv, NEW a \in Attempts,
                      since[a] # None, billed[a] > 0
               PROVE  \/ rsv[a] # "none" /\ Estimate[a[1]] >= billed[a]
                      \/ receipt[a].status \in {"success", "partial"}
                         /\ receipt[a].cost = billed[a]
    BY DEF IInv, MoneyAlwaysAccounted
  <2>1. billed[a] \in Nat /\ Estimate[a[1]] \in Nat /\ billed[a] <= Estimate[a[1]]
    BY RequestAssumption DEF TypeOK, PlaceInv, BooksInv, LedgerInv, BoundInv, Attempts, Maybe
  <2>2. CASE rsv[a] # "none"
    BY <2>1, <2>2
  <2>3. CASE rsv[a] = "none"
    BY <2>1, <2>3 DEF PlaceInv, BooksInv
  <2> QED
    BY <2>2, <2>3
<1> QED
  BY <1>1, LedgerCorrect, PTL

-----------------------------------------------------------------------------
(***************************************************************************)
(* The refinement.  A step that keeps rows, admissions and the day, and    *)
(* lets no charge but one fall, is the ledger's SettleCharge of that one   *)
(* (of nothing, when no charge changes).                                   *)
(***************************************************************************)
LEMMA SettlesOneCharge ==
  ASSUME TypeOK, PlaceInv, TypeOK', PlaceInv', NEW cur \in Attempts,
         UNCHANGED <<budgets, since, admitted, day>>,
         \A a \in Attempts : a # cur => rsv'[a] = rsv[a] /\ receipt'[a] = receipt[a],
         Exposure(cur)' <= Exposure(cur)
  PROVE  Ledger!SettleCharge(cur)
<1> DEFINE ch == [a \in Attempts |-> Exposure(a)]
           chn == [a \in Attempts |-> Exposure(a)']
<1>1. Exposure(cur) \in Nat /\ Exposure(cur)' \in Nat
  BY ExposureType, ExposureTypeNext DEF Exposures
<1>2. chn[cur] \in 0 .. ch[cur]
  BY <1>1
<1>3. \A a \in Attempts : a # cur => Exposure(a)' = Exposure(a)
  BY DEF Exposure, Cost
<1>4. chn = [ch EXCEPT ![cur] = chn[cur]]
  BY <1>3
<1> QED
  BY <1>2, <1>4 DEF Ledger!SettleCharge

LEMMA LedgerStarts == Init => Ledger!Init
<1> SUFFICES ASSUME Init
             PROVE  Ledger!Init
  OBVIOUS
<1>1. \A a \in Attempts : Exposure(a) = 0
  BY DEF Init, Exposure
<1> QED
  BY <1>1, ConfigurationAssumption
  DEF Init, Ledger!Init, Ledger!Row, Ledger!NoRow, Ledger!Modes, Row, NoRow, Modes

(***************************************************************************)
(* A commit is an admission for a charge: the rows it stores were there or *)
(* cover it, and every block budget that binds it has room.                *)
(***************************************************************************)
LEMMA CommitAdmits ==
  ASSUME TypeOK, PlaceInv, AdmissionInv, TypeOK', PlaceInv',
         NEW r \in Requests, CommitReservation(r)
  PROVE  Ledger!AdmitForCharge(Current(r))
<1> DEFINE ch == [a \in Attempts |-> Exposure(a)]
           chn == [a \in Attempts |-> Exposure(a)']
<1>1. PICK cur \in Attempts : cur = Current(r) /\ cur[1] = r
  BY CurrentType
<1>2. /\ budgets' = RowsSeen(r)
      /\ since' = [since EXCEPT ![cur] = day]
      /\ rsv' = [rsv EXCEPT ![cur] = "active"]
      /\ UNCHANGED <<day, receipt>>
      /\ admitted' = [b \in BudgetIds |-> IF b \in MatchingBudgets(r)
                                          THEN admitted[b] \cup {cur} ELSE admitted[b]]
  BY <1>1 DEF CommitReservation, Enrol
<1>3. /\ pc[r] = "inserting" /\ Estimate[r] \in Nat /\ Estimate[r] # None
      /\ since[cur] = None
  BY <1>1, RequestAssumption
  DEF CommitReservation, PlaceInv, LockInv, UnsentInv, Unsent, InTransaction, Maybe
<1>4. Ledger!Creates(cur, budgets')
  <2>1. \A b \in BudgetIds : budgets'[b] # budgets[b] =>
          budgets[b] = NoRow /\ CoversRequest(b, cur[1])
    BY <1>1, <1>2, RowsSeenFacts
  <2>2. budgets' \in [BudgetIds -> Row \cup {NoRow}]
    BY DEF TypeOK
  <2> QED
    BY <2>1, <2>2 DEF Ledger!Creates, Ledger!Row, Ledger!NoRow, Ledger!Modes, Row, NoRow, Modes
<1>5. Ledger!Binding(cur, budgets') = MatchingBudgets(r)
  BY <1>1, <1>2 DEF Ledger!Binding, Ledger!NoRow, MatchingBudgets, NoRow
<1>6. \A b \in MatchingBudgets(r) :
        budgets'[b].mode = "block" => Ledger!Charged(b) + Estimate[r] <= budgets'[b].limit
  <2> SUFFICES ASSUME NEW b \in MatchingBudgets(r), budgets'[b].mode = "block"
               PROVE  Ledger!Charged(b) + Estimate[r] <= budgets'[b].limit
    OBVIOUS
  <2>1. b \notin todo[r] /\ RowsSeen(r)[b].mode = "block"
    BY <1>2, <1>3 DEF AdmissionInv, InTransaction
  <2>2. Total(Exposures, InWindow(b)) + Estimate[r] <= RowsSeen(r)[b].limit
    BY <1>3, <2>1 DEF AdmissionInv, HasRoom, InTransaction
  <2>3. Ledger!Charged(b) = Total(Exposures, InWindow(b))
    BY DEF Ledger!Charged, Ledger!InWindow, Ledger!WindowStart, Ledger!Total, Ledger!Coins,
       Ledger!Cardinality, Cardinality, Total, Coins, Exposures, InWindow, WindowStart
  <2> QED
    BY <1>2, <2>2, <2>3
<1>7. chn = [ch EXCEPT ![cur] = Estimate[r]]
  <2>1. \A a \in Attempts : a # cur => Exposure(a)' = Exposure(a)
    BY <1>2 DEF Exposure, Cost, TypeOK
  <2>2. rsv'[cur] = "active" /\ since'[cur] = day /\ day # None
    BY <1>2, NoneAssumption DEF TypeOK, Days
  <2>3. Exposure(cur)' = Estimate[r]
    BY <1>1, <2>2 DEF Exposure
  <2> QED
    BY <2>1, <2>3
<1>8. Ledger!Enrol(cur, MatchingBudgets(r))
  BY <1>2 DEF Ledger!Enrol
<1>9. [a \in Attempts |-> Estimate[a[1]]][cur] = Estimate[r]
  BY <1>1
<1> QED
  BY <1>1, <1>2, <1>3, <1>4, <1>5, <1>6, <1>7, <1>8, <1>9 DEF Ledger!AdmitForCharge

(***************************************************************************)
(* An admission that reserves nothing is one no block budget binds.        *)
(***************************************************************************)
LEMMA UnmeteredIsFree ==
  ASSUME TypeOK, PlaceInv, NEW r \in Requests, AdmitUnmetered(r)
  PROVE  Ledger!AdmitFree(Current(r))
<1> DEFINE ch == [a \in Attempts |-> Exposure(a)]
           chn == [a \in Attempts |-> Exposure(a)']
<1>1. PICK cur \in Attempts : cur = Current(r) /\ cur[1] = r
  BY CurrentType
<1>2. /\ UNCHANGED <<budgets, rsv, since, receipt, day>>
      /\ admitted' = [b \in BudgetIds |-> IF b \in MatchingBudgets(r)
                                          THEN admitted[b] \cup {cur} ELSE admitted[b]]
      /\ since[cur] = None
  BY <1>1 DEF AdmitUnmetered, Enrol, BeginsAdmission, PlaceInv, UnsentInv, Unsent
<1>3. \A b \in MatchingBudgets(r) : budgets[b] # NoRow /\ budgets[b].mode = "warn"
  BY <1>2, RowsSeenFacts DEF AdmitUnmetered, NothingToReserve, MatchingBudgets
<1>4. Ledger!Binding(cur, budgets) = MatchingBudgets(r)
  BY <1>1, <1>3, RowsSeenFacts DEF Ledger!Binding, Ledger!NoRow, MatchingBudgets, NoRow
<1>5. chn = ch
  BY <1>2 DEF Exposure, Cost
<1> QED
  BY <1>1, <1>2, <1>3, <1>4, <1>5 DEF Ledger!AdmitFree, Ledger!Enrol

(***************************************************************************)
(* Every step of the gateways, their processes, the operator and the       *)
(* calendar is one of the ledger, or changes nothing of it.                *)
(***************************************************************************)
LEMMA StepOfTheLedger ==
  ASSUME TypeOK, PlaceInv, LedgerInv, TypeOK', PlaceInv', [Next]_vars
  PROVE  [Ledger!Next]_(Ledger!vars)
<1>1. ASSUME UNCHANGED <<budgets, rsv, since, receipt, admitted, day>>
      PROVE  UNCHANGED Ledger!vars
  <2>1. \A a \in Attempts : Exposure(a)' = Exposure(a)
    BY <1>1 DEF Exposure, Cost
  <2> QED
    BY <1>1, <2>1 DEF Ledger!vars
<1>2. ASSUME NEW r \in Requests, CommitReservation(r)
      PROVE  Ledger!Next
  BY <1>2, CommitAdmits, CurrentType DEF LedgerInv, Ledger!Next
<1>3. ASSUME NEW r \in Requests, AdmitUnmetered(r)
      PROVE  Ledger!Next
  BY <1>3, UnmeteredIsFree, CurrentType DEF Ledger!Next
<1>4. ASSUME NEW r \in Requests, Settle(r)
      PROVE  Ledger!Next
  <2>1. PICK cur \in Attempts : cur = Current(r) /\ cur[1] = r
    BY CurrentType
  <2>2. UNCHANGED <<since, day, admitted, budgets>>
    BY <1>4 DEF Settle, SettleFailedAttempt, EmitFailure, AugmentOverrun, HoldUnpriced,
       EmitReceipt, ReleaseReservation
  <2>3. \A a \in Attempts : a # cur => rsv'[a] = rsv[a] /\ receipt'[a] = receipt[a]
    BY <1>4, <2>1 DEF TypeOK, Settle, SettleFailedAttempt, EmitFailure, AugmentOverrun,
       HoldUnpriced, EmitReceipt, ReleaseReservation
  <2>4. Exposure(cur)' <= Exposure(cur)
    BY <1>4, SettlementIsQuiet DEF Quiet, LedgerInv
  <2> QED
    BY <2>2, <2>3, <2>4, SettlesOneCharge DEF Ledger!Next
<1>5. ASSUME NEW r \in Requests, Admit(r), ~CommitReservation(r), ~AdmitUnmetered(r)
      PROVE  UNCHANGED Ledger!vars
  BY <1>1, <1>5 DEF Admit, RefuseDeclaration, RefuseUnpriced, BeginChecks, ReadSpent,
     PassBudget, RefuseOverBudget, RowsAfterRefusal
<1>6. ASSUME NEW r \in Requests, Call(r) \/ Disturb(r)
      PROVE  UNCHANGED Ledger!vars
  BY <1>1, <1>6 DEF Call, Disturb, Answered, Fail, OpenStream, IterateStream, EndStream,
     CancelBackoff, DiscardStream, StoreTimeout
<1>7. ASSUME NEW p \in Processes, Crash(p)
      PROVE  UNCHANGED Ledger!vars
  BY <1>1, <1>7 DEF Crash
<1>8. ASSUME Operate
      PROVE  Ledger!Next
  <2>1. PICK b \in OperatorBudgets :
          RemoveBudget(b) \/ \E row \in OperatorRows : SetBudget(b, row)
    BY <1>8 DEF Operate
  <2>2. b \in BudgetIds
    BY ConfigurationAssumption
  <2>3. /\ budgets' = [budgets EXCEPT ![b] = budgets'[b]]
        /\ admitted' = [admitted EXCEPT ![b] = {}]
        /\ UNCHANGED <<rsv, since, receipt, day>>
    BY <2>1, <2>2 DEF RemoveBudget, SetBudget, TypeOK
  <2>4. budgets'[b] \in Ledger!Row \cup {Ledger!NoRow}
    BY <2>2 DEF TypeOK, Ledger!Row, Ledger!NoRow, Ledger!Modes, Row, NoRow, Modes
  <2>5. \A a \in Attempts : Exposure(a)' = Exposure(a)
    BY <2>3 DEF Exposure, Cost
  <2>6. Ledger!SetRow(b)
    BY <2>3, <2>4, <2>5 DEF Ledger!SetRow
  <2> QED
    BY <2>2, <2>6 DEF Ledger!Next
<1>9. ASSUME Tick
      PROVE  Ledger!Next
  <2>1. \A a \in Attempts : Exposure(a)' = Exposure(a)
    BY <1>9 DEF Tick, Exposure, Cost
  <2> QED
    BY <1>9, <2>1 DEF Tick, Ledger!Next, Ledger!NextDay
<1>10. ASSUME UNCHANGED vars
       PROVE  UNCHANGED Ledger!vars
  BY <1>1, <1>10 DEF vars
<1> QED
  BY <1>2, <1>3, <1>4, <1>5, <1>6, <1>7, <1>8, <1>9, <1>10 DEF Next, Serve, Finished

(***************************************************************************)
(* Refinement: the gateways, their two databases, their retries, crashes   *)
(* and late settlements implement the ledger, in which an attempt is       *)
(* admitted in one step that had room for its charge and a charge is only  *)
(* lowered afterwards.  The lock, the reads made under it and everything   *)
(* between admission and release are steps the ledger does not see.        *)
(***************************************************************************)
THEOREM GatewaysImplementTheLedger ==
  EstimateIsUpperBound /\ Spec => ImplementsLedger
<1>1. Init => Ledger!Init
  BY LedgerStarts
<1>2. IInv /\ IInv' /\ [Next]_vars => [Ledger!Next]_(Ledger!vars)
  BY StepOfTheLedger DEF IInv
<1> QED
  BY <1>1, <1>2, LedgerCorrect, PTL DEF Spec, ImplementsLedger, Ledger!Spec
=============================================================================
