---------------------------- MODULE ServicesProofs ----------------------------
(***************************************************************************)
(* What the hosted services guarantee for any numbers of tenants, readers, *)
(* payments, cases, clients, purchases and calls: the trials' keys, the    *)
(* sale of pages, the exceptions' cases, the sale of work economics, the   *)
(* usage ping, what a retry cost, the historical analysis of retries, the  *)
(* opening of old stores, what is recorded of one call and the readers of  *)
(* the receipts, each by an inductive invariant of its own.  They share    *)
(* nothing with one another, so each section stands alone.                 *)
(***************************************************************************)
EXTENDS TrialTenants, PageSale, CaseService, WorkSale, UsagePing, RetryCosts,
        BatchAnalysis, StoreOpening, Exchange, ReceiptBook, FiniteSetTheorems, SequenceTheorems, TLAPS

-----------------------------------------------------------------------------
(***************************************************************************)
(* The trials.  A trial with a key or in the registry was issued; one that *)
(* left the registry in the middle of a request of its own is a stray.     *)
(***************************************************************************)
Handlings == {Resting} \cup [at : {"let in", "calling"}, of : issued, with : Providers \cup {"", "demo"}]

TrialShape ==
  /\ tenants \in [Trials -> Nat] /\ issued \subseteq Trials
  /\ vault \in [Trials -> SUBSET Providers] /\ keyedAt \in [Trials -> Nat]
  /\ disk \subseteq Trials /\ strays \subseteq Trials
  /\ handling \in [Handlers -> Handlings]
  /\ clock \in Nat \ {0}

TrialsKnown ==
  /\ \A t \in Trials : Registered(t) \/ keyedAt[t] > 0 => t \in issued
  /\ \A t \in Trials : Busy(t) /\ ~Registered(t) => t \in strays

TrialInv == TrialShape /\ TrialsKnown /\ KeysDieWithTheirTrial

-----------------------------------------------------------------------------
(***************************************************************************)
(* The sale of pages.  A request that may charge holds the lock of its     *)
(* payer and digest, and since it took it no page is kept that its payer   *)
(* could recover; a payment that was answered, or is about to be, has      *)
(* moved its money.                                                        *)
(***************************************************************************)
PageRows == [for : Requested \cup {""}, born : Nat, kept : BOOLEAN, settled : BOOLEAN]

Readings == [at : {"free", "waiting", "fetching", "settling", "settled"},
             by : Payments \cup {""}, for : Requested \cup {""}, locks : BOOLEAN]

ReadingShape ==
  /\ reading \in [Readers -> Readings]
  /\ \A r \in Readers :
       IF reading[r].at = "free" THEN reading[r] = NotReading
       ELSE /\ reading[r].by \in Payments /\ reading[r].for \in Requested
            /\ reading[r].locks = TakesLock(reading[r].by)

LedgerShape ==
  /\ reads \in [Payments -> PageRows]
  /\ RecoveryWindow = 0 => \A p \in Payments : ~reads[p].kept

PageShape ==
  /\ ReadingShape /\ LedgerShape
  /\ onChain \subseteq Payments /\ claimed \subseteq Payments
  /\ pages \in [Payments -> [Requested -> Nat]]
  /\ age \in Nat

Holds(r) == reading[r].at \in {"fetching", "settling", "settled"}

LockKey(r) == KeyOf(reading[r].by, reading[r].for)

LocksExclude ==
  \A r \in Readers : Holds(r) /\ reading[r].locks =>
    /\ LockKey(r) \in inFlight
    /\ \A q \in Readers : Holds(q) /\ reading[q].locks /\ LockKey(q) = LockKey(r) => q = r

Moved(p) == IF RailOf[p] = "hash" THEN p \in claimed ELSE p \in onChain

SoldOnce ==
  /\ \A r \in Readers : reading[r].at = "settled" =>
       /\ Moved(reading[r].by)
       /\ \A k \in Requested : pages[reading[r].by][k] = 0
       /\ \A q \in Readers : reading[q].at = "settled" /\ reading[q].by = reading[r].by => q = r
  /\ \A p \in Payments, k, l \in Requested :
       pages[p][k] <= 1 /\ (pages[p][k] > 0 => Moved(p)) /\ (pages[p][k] > 0 /\ pages[p][l] > 0 => k = l)

NothingKept ==
  /\ again = {}
  /\ \A r \in Readers, p \in Payments, k \in Requested :
       /\ reading[r].at \in {"fetching", "settling"} /\ RailOf[p] # "hash"
       /\ reading[r].by = p /\ reading[r].for = k
       => ~KeptFor(p, k)

PageInv == PageShape /\ LocksExclude /\ SoldOnce /\ NothingKept

(***************************************************************************)
(* A wallet whose signature is a contract's pays by that rail alone.       *)
(***************************************************************************)
WalletsKeepToTheirRail ==
  \A p, q \in Payments :
    PayerOf[p] = PayerOf[q] => (RailOf[p] = "x402 wallet" <=> RailOf[q] = "x402 wallet")

-----------------------------------------------------------------------------
(***************************************************************************)
(* The cases.  Who retries a case created its decision, and a case has one *)
(* decision until it is erased.                                            *)
(***************************************************************************)
Retries(r) == run[r].at = "retrying" \/ r \in retried

Places == {"new", "retrying", "posting", "handing off", "reaping", "reporting", "done", "cut off"}

Walks == [at : Places, of : WorkIds \cup {"no case"}, passed : BOOLEAN]

Decisions == [status : {"none", "retry_in_progress", "retry_resolved", "awaiting_human_review", "resolved"},
              lease : {"none", "live", "expired"}]

Attempts == [by : {"nobody", "the reaper"} \cup Runs, passed : BOOLEAN]

CaseShape ==
  /\ decision \in [WorkIds -> Decisions] /\ tried \in [WorkIds -> Attempts]
  /\ tardy \in [WorkIds -> SUBSET Runs]
  /\ run \in [Runs -> Walks]
  /\ retried \subseteq Runs /\ answered \subseteq Runs /\ erased \subseteq WorkIds

CaseSound(w) ==
  /\ decision[w].status = "none" <=> decision[w] = NoDecision
  /\ tried[w].by = "nobody" <=> tried[w] = NotTried
  /\ tried[w].passed => tried[w].by \in retried
  /\ decision[w].status = "retry_resolved" => tried[w].passed
  /\ decision[w].status = "retry_in_progress" => decision[w].lease # "none"

CasesFollow ==
  /\ \A r \in Runs : run[r].at = "new" => r \notin retried \cup answered
  /\ \A r \in Runs : run[r].at # "new" => run[r].of \in WorkIds
  /\ \A r \in Runs : run[r].at = "posting" => r \in retried
  /\ \A r, q \in Runs : Retries(r) /\ Retries(q) /\ run[r].of = run[q].of /\ run[r].of \notin erased
       => r = q /\ On(run[r].of)
  /\ \A w \in WorkIds : CaseSound(w)

CaseInv == CaseShape /\ CasesFollow /\ AnsweredIsOnRecord

-----------------------------------------------------------------------------
(***************************************************************************)
(* The sale of work economics.  Only the request whose payment made the    *)
(* purchase paid says that it is newly charged, and what settles has an    *)
(* answer.                                                                 *)
(***************************************************************************)
SaleResults == [kind : {"none", "error", "answer"}, total : Int, exact : BOOLEAN]

Sold == [status : {"none", "QUOTED", "PAYMENT_VERIFIED", "EXECUTED"}, result : SaleResults,
         from : Inputs \cup {<<>>}]

Requests == [at : {"free", "quoting", "paying", "executing", "rejected", "settling"},
             for : Purchases \cup {""}, by : Signed \cup {""}, input : Inputs \cup {<<>>},
             newly : BOOLEAN]

SaleShape ==
  /\ purchases \in [Purchases -> Sold]
  /\ invoking \in [Invocations -> Requests]
  /\ charged \subseteq [by : Signed, for : Purchases]
  /\ told \in [Purchases -> Nat]

Paid(q) == purchases[q].status \in {"PAYMENT_VERIFIED", "EXECUTED"}

HasAnswer(q) == purchases[q].result.kind = "answer"

SoldSound(q) ==
  /\ purchases[q].status = "none" => purchases[q] = NotQuoted
  /\ purchases[q].status = "EXECUTED" =>
       purchases[q].from \in Inputs /\ purchases[q].result = Economics(purchases[q].from)
  /\ purchases[q].status # "EXECUTED" => purchases[q].result.kind = "none"

RequestSound(i) ==
  /\ invoking[i].at # "free" =>
       invoking[i].for \in Purchases /\ invoking[i].by \in Signed /\ invoking[i].input \in Inputs
  /\ invoking[i].at \in {"quoting", "paying"} => ~invoking[i].newly
  /\ invoking[i].at = "paying" => purchases[invoking[i].for].status # "none"
  /\ invoking[i].at = "executing" => Paid(invoking[i].for)
  /\ invoking[i].at = "settling" => HasAnswer(invoking[i].for)

Newly(i, q) == invoking[i].at # "free" /\ invoking[i].newly /\ invoking[i].for = q

ToldOnce(q) ==
  /\ told[q] <= 1
  /\ told[q] = 1 => Paid(q) /\ \A i \in Invocations : ~Newly(i, q)
  /\ \A i, j \in Invocations : Newly(i, q) => Paid(q) /\ (Newly(j, q) => i = j)

SaleInv ==
  /\ SaleShape
  /\ \A q \in Purchases : SoldSound(q) /\ ToldOnce(q)
  /\ \A i \in Invocations : RequestSound(i)
  /\ \A c \in charged : HasAnswer(c.for)

-----------------------------------------------------------------------------
(***************************************************************************)
(* The usage ping.  After a disable that crossed nobody the file is whole, *)
(* so nothing is seeded, no switch is turning the ping on, and neither the *)
(* temporary file nor a copy would; one writer at most is at that file,    *)
(* which is empty until the writer has written it; no call that read the   *)
(* switch since is let through.                                            *)
(***************************************************************************)
Ops == Events \cup Switches \cup {"none"}

PingStates == [is : {"absent", "empty", "mixed", "whole"}, enabled : BOOLEAN,
               sent : SUBSET Ops, beat : BOOLEAN]

Pings == [op : Ops,
          at : {"free", "loading", "seeded", "marking", "writing", "open", "moving", "naming",
                "writing id", "posting"},
          copy : PingStates, to : {"free", "seeded", "naming"},
          holds : {"none", "tmp", "state", "gone"}, named : BOOLEAN, knew : BOOLEAN]

\* What a call saves, or has just saved, is a whole state.
HasCopy(call) == call.at \in {"seeded", "writing", "open", "moving"} => call.copy.is = "whole"

PingShape ==
  /\ stateFile \in PingStates /\ tmpFile \in PingStates
  /\ pinging \in [Calls -> Pings] /\ \A c \in Calls : HasCopy(pinging[c])
  /\ optedOut \in BOOLEAN
  /\ collected \in Seq(Ops) /\ activated \in Nat

\* A call that turns nothing on, and holds no copy that would.
Harmless(call) == ~call.copy.enabled /\ call.op # "enable"

\* A writer finds the temporary file as it left it.
AsLeft(call) ==
  /\ call.at = "open" => call.holds = "tmp" /\ tmpFile.is = "empty"
  /\ call.at = "moving" => tmpFile.is = "whole"

OptOutLasts ==
  /\ \A c \in Calls : ~pinging[c].knew
  /\ optedOut =>
       /\ stateFile.is = "whole" /\ ~stateFile.enabled /\ ~tmpFile.enabled
       /\ \A c \in Calls : Harmless(pinging[c]) /\ AsLeft(pinging[c])
       /\ \A c, d \in Calls : AtFile(c) /\ AtFile(d) => c = d

PingInv == PingShape /\ OptOutLasts /\ ActivatedByTheFirst

-----------------------------------------------------------------------------
(***************************************************************************)
(* The costs of a retry.  Until the worker's call is recorded nothing is   *)
(* known of it; a known cost is what was charged, by a call that was       *)
(* authorized; a decision that left the retry, with no review on its way,  *)
(* leaves the attempt as it is; and what a report read of a decision that  *)
(* had ended is still so.                                                  *)
(***************************************************************************)
RetryRows ==
  [status : {"none", "success", "partial", "ambiguous"}, cost : Amounts, passed : BOOLEAN, estimate : Amounts]

CaseRows ==
  [status : {"none", "retry_in_progress", "awaiting_human_review", "retry_resolved", "resolved"},
   action : {"none", "retry", "human_review", "insufficient_evidence"}]

RetryWorkers ==
  [at : {"gone", "estimating", "refused", "calling", "recording", "settling"},
   estimate : Amounts, raised : BOOLEAN, result : RetryRows]

CostsShape ==
  /\ invoice \in Invoices /\ caseRow \in CaseRows /\ attempt \in RetryRows
  /\ lateResults \in Seq(Amounts) /\ reviewCosts \in Seq(Amounts)
  /\ worker \in RetryWorkers
  /\ billed \in Nat /\ early \in BOOLEAN
  /\ report \in [at : {"idle", "attempt", "reviews", "late", "built"}, decision : CaseRows,
                 attempt : RetryRows, reviews : Seq(Amounts), late : Seq(Amounts)]

Left(row) == row.status \notin {"none", "retry_in_progress"}

Unrecorded == attempt.cost = CostUnknown /\ lateResults = <<>>

WorkerKnows ==
  /\ worker.at \in {"estimating", "refused", "calling"} => billed = 0 /\ Unrecorded
  /\ worker.at \in {"calling", "recording"} => EstimateCost # CostUnknown /\ Authorized(worker.estimate)
  /\ worker.at = "recording" =>
       /\ Unrecorded
       /\ worker.result.status # "none"
       /\ worker.result.cost # CostUnknown =>
            worker.result.cost = billed /\ worker.result.estimate = worker.estimate
  /\ worker.at = "settling" => attempt.status # "none"
  /\ billed > 0 => EstimateCost # CostUnknown

RowsTell ==
  /\ caseRow.action # "retry" => attempt = NoAttempt /\ lateResults = <<>> /\ worker.at = "gone" /\ billed = 0
  /\ caseRow.status = "none" => caseRow.action = "none"
  /\ caseRow.status = "retry_in_progress" => caseRow.action = "retry"
  /\ attempt.status = "none" => attempt.cost = CostUnknown
  /\ attempt.cost # CostUnknown =>
       /\ attempt.cost = billed /\ Authorized(attempt.estimate)
       /\ lateResults = <<>> /\ worker.at \in {"settling", "gone"}
  /\ lateResults # <<>> => attempt.status # "none"
  /\ Left(caseRow) /\ ~early => attempt.status # "none" \/ (worker.at = "gone" /\ billed = 0)

ReportTells ==
  report.at # "idle" /\ report.decision.status \in ReportTerminal =>
    /\ Left(caseRow) /\ report.decision.action = caseRow.action
    /\ report.at # "attempt" /\ ~early => report.attempt = attempt
    /\ report.at = "built" /\ report.late # <<>> => lateResults # <<>>

CostsInv == CostsShape /\ WorkerKnows /\ RowsTell /\ ReportTells

-----------------------------------------------------------------------------
(***************************************************************************)
(* The historical analysis.  Its rows are rows of an export; all else is   *)
(* computed from them.                                                     *)
(***************************************************************************)
BatchInv == attempts \in Seq(AttemptRows) /\ reviews \in Seq(ReviewRows)

History(record) == record.attempts \in Seq(AttemptRows) /\ record.review \in ReviewRows \cup {NoReview}

-----------------------------------------------------------------------------
(***************************************************************************)
(* A step that issues nothing keeps what is known of the trials when it    *)
(* lengthens no registration, and what it takes from the registry is at    *)
(* rest and wiped, or strays.                                              *)
(***************************************************************************)
LEMMA TrialsLast ==
  ASSUME TrialInv, TrialShape', clock <= clock', issued \subseteq issued',
         \A t \in Trials : tenants'[t] # 0 => tenants[t] # 0 /\ tenants'[t] <= tenants[t],
         \A t \in Trials : keyedAt'[t] > 0 =>
           /\ t \in issued
           /\ keyedAt'[t] = keyedAt[t] \/ tenants'[t] <= keyedAt'[t] + KeyTTL,
         \A t \in Trials : tenants'[t] = 0 /\ t \notin strays' =>
           ~Busy(t)' /\ vault'[t] = {} /\ t \notin disk'
  PROVE  TrialInv'
<1>1. LiveTrials' \subseteq LiveTrials
  BY DEF LiveTrials, Registered, TrialExpired, TrialInv, TrialShape
<1>2. Cardinality(LiveTrials') <= MaxLive
  <2>1. IsFiniteSet(LiveTrials)
    BY TrialAssumption, FS_Subset DEF LiveTrials
  <2>2. IsFiniteSet(LiveTrials') /\ Cardinality(LiveTrials') <= Cardinality(LiveTrials)
    BY <1>1, <2>1, FS_Subset
  <2>3. Cardinality(LiveTrials') \in Nat /\ Cardinality(LiveTrials) \in Nat
    BY <2>1, <2>2, FS_CardinalityType
  <2>4. Cardinality(LiveTrials) <= MaxLive /\ MaxLive \in Nat
    BY TrialAssumption DEF TrialInv, KeysDieWithTheirTrial
  <2> QED
    BY <2>2, <2>3, <2>4
<1>3. TrialsKnown'
  BY DEF TrialInv, TrialsKnown, Registered
<1>4. \A t \in Trials : tenants'[t] # 0 /\ keyedAt'[t] > 0 => tenants'[t] <= keyedAt'[t] + KeyTTL
  <2> SUFFICES ASSUME NEW t \in Trials, tenants'[t] # 0, keyedAt'[t] > 0, keyedAt'[t] = keyedAt[t]
               PROVE  tenants'[t] <= keyedAt'[t] + KeyTTL
    OBVIOUS
  <2>1. tenants[t] # 0 /\ tenants'[t] <= tenants[t] /\ tenants[t] <= keyedAt[t] + KeyTTL
    BY DEF TrialInv, KeysDieWithTheirTrial, Registered
  <2>2. tenants[t] \in Nat /\ tenants'[t] \in Nat /\ keyedAt[t] \in Nat /\ KeyTTL \in Nat
    BY TrialAssumption DEF TrialInv, TrialShape
  <2> QED
    BY <2>1, <2>2
<1>5. KeysDieWithTheirTrial'
  BY <1>2, <1>4 DEF KeysDieWithTheirTrial, Registered
<1> QED
  BY <1>3, <1>5 DEF TrialInv

LEMMA TrialInitInv == TrialInit => TrialInv
<1> SUFFICES ASSUME TrialInit PROVE TrialInv
  OBVIOUS
<1>1. TrialShape
  BY DEF TrialInit, TrialShape, Handlings
<1>2. TrialsKnown
  BY DEF TrialInit, TrialsKnown, Registered, Busy
<1>3. LiveTrials = {}
  BY DEF TrialInit, LiveTrials, Registered
<1>4. KeysDieWithTheirTrial
  BY <1>3, FS_EmptySet, TrialAssumption DEF TrialInit, KeysDieWithTheirTrial, Registered
<1> QED
  BY <1>1, <1>2, <1>4 DEF TrialInv

(***************************************************************************)
(* The handlers: what one is handling, and that it is busy with it.        *)
(***************************************************************************)
LEMMA HandlingIs ==
  ASSUME TrialShape, NEW h \in Handlers, handling[h] # Resting
  PROVE  /\ handling[h].of \in issued /\ handling[h].of \in Trials /\ Busy(handling[h].of)
         /\ handling[h].at \in {"let in", "calling"}
BY DEF TrialShape, Handlings, Busy

LEMMA RestingIs == Resting.at = "resting"
BY DEF Resting

LEMMA HandleIs ==
  ASSUME NEW h \in Handlers, TrialShape, NEW t \in issued, NEW p \in Providers \cup {"", "demo"},
         NEW at \in {"let in", "calling"}
  PROVE  [handling EXCEPT ![h] = Handle(at, t, p)] \in [Handlers -> Handlings]
<1>1. Handle(at, t, p) \in Handlings
  BY DEF Handle, Handlings
<1> QED
  BY <1>1 DEF TrialShape

LEMMA RestIs ==
  ASSUME TrialShape, NEW h \in Handlers, handling' = [handling EXCEPT ![h] = Resting]
  PROVE  /\ handling' \in [Handlers -> Handlings]
         /\ \A t \in Trials : Busy(t)' => Busy(t)
<1>1. Resting \in Handlings
  BY DEF Handlings
<1>2. handling' \in [Handlers -> Handlings]
  BY <1>1 DEF TrialShape
<1>3. \A g \in Handlers : handling'[g] # Resting => handling'[g] = handling[g]
  BY DEF TrialShape
<1> QED
  BY <1>2, <1>3 DEF Busy

-----------------------------------------------------------------------------
(***************************************************************************)
(* What is taken from the registry: gone is wiped, failed could not be.    *)
(***************************************************************************)
LEMMA DroppedIs ==
  ASSUME TrialShape, NEW gone \in SUBSET Trials
  PROVE  /\ Dropped(gone) \in [Trials -> Nat]
         /\ \A t \in Trials : Dropped(gone)[t] = IF t \in gone THEN 0 ELSE tenants[t]
BY DEF Dropped, TrialShape

LEMMA PurgeIs ==
  ASSUME TrialShape, NEW gone \in SUBSET Trials, NEW failed \in SUBSET Trials, Purge(gone, failed)
  PROVE  /\ vault' \in [Trials -> SUBSET Providers] /\ keyedAt' \in [Trials -> Nat]
         /\ disk' = disk \ gone /\ disk' \subseteq Trials
         /\ strays' = strays \cup failed \cup {t \in gone : Busy(t)} /\ strays' \subseteq Trials
         /\ \A t \in Trials : /\ vault'[t] = IF t \in gone THEN {} ELSE vault[t]
                              /\ keyedAt'[t] = IF t \in gone THEN 0 ELSE keyedAt[t]
BY DEF Purge, Wiped, TrialShape

LEMMA SweepSteps ==
  ASSUME TrialInv,
         Sweep \/ (\E t \in Trials : \E done \in SUBSET Trials : SweepRaises(t, done))
  PROVE  TrialInv'
<1>1. PICK done \in SUBSET Trials, failed \in SUBSET Trials :
        /\ tenants' = Dropped(done \cup failed) /\ Purge(done, failed)
        /\ UNCHANGED <<issued, handling, clock, trialRestarts>>
  <2>1. CASE Sweep
    <3>1. Stale \in SUBSET Trials /\ {} \in SUBSET Trials /\ Stale \cup {} = Stale
      BY DEF Stale
    <3> QED
      BY <2>1, <3>1 DEF Sweep
  <2>2. ASSUME NEW t \in Trials, NEW done \in SUBSET Trials, SweepRaises(t, done)
        PROVE  /\ {t} \in SUBSET Trials
               /\ tenants' = Dropped(done \cup {t}) /\ Purge(done, {t})
               /\ UNCHANGED <<issued, handling, clock, trialRestarts>>
    BY <2>2 DEF SweepRaises
  <2> QED
    BY <2>1, <2>2
<1>2. TrialShape /\ TrialsKnown /\ KeysDieWithTheirTrial
  BY DEF TrialInv
<1>3. done \cup failed \in SUBSET Trials
  OBVIOUS
<1>4. /\ tenants' \in [Trials -> Nat]
      /\ \A t \in Trials : tenants'[t] = IF t \in done \cup failed THEN 0 ELSE tenants[t]
  BY <1>1, <1>2, <1>3, DroppedIs
<1>5. /\ vault' \in [Trials -> SUBSET Providers] /\ keyedAt' \in [Trials -> Nat]
      /\ disk' = disk \ done /\ disk' \subseteq Trials
      /\ strays' = strays \cup failed \cup {t \in done : Busy(t)} /\ strays' \subseteq Trials
      /\ \A t \in Trials : /\ vault'[t] = IF t \in done THEN {} ELSE vault[t]
                           /\ keyedAt'[t] = IF t \in done THEN 0 ELSE keyedAt[t]
  BY <1>1, <1>2, PurgeIs
<1>6. TrialShape'
  BY <1>1, <1>2, <1>4, <1>5 DEF TrialShape, Handlings
<1>7. \A t \in Trials : Busy(t)' <=> Busy(t)
  BY <1>1 DEF Busy
<1>8. ASSUME NEW t \in Trials, tenants'[t] = 0, t \notin strays'
      PROVE  ~Busy(t)' /\ vault'[t] = {} /\ t \notin disk'
  <2>1. t \notin strays /\ t \notin failed /\ (t \in done => ~Busy(t))
    BY <1>5, <1>8
  <2>2. CASE t \in done
    BY <1>5, <1>7, <2>1, <2>2
  <2>3. CASE t \notin done
    BY <1>2, <1>4, <1>5, <1>7, <1>8, <2>1, <2>3 DEF TrialsKnown, KeysDieWithTheirTrial, Registered
  <2> QED
    BY <2>2, <2>3
<1>9. \A t \in Trials : tenants'[t] # 0 => tenants[t] # 0 /\ tenants'[t] <= tenants[t]
  BY <1>2, <1>4 DEF TrialShape
<1>10. \A t \in Trials : keyedAt'[t] > 0 =>
         /\ t \in issued
         /\ keyedAt'[t] = keyedAt[t] \/ tenants'[t] <= keyedAt'[t] + KeyTTL
  BY <1>2, <1>5 DEF TrialsKnown
<1>11. clock <= clock' /\ issued \subseteq issued'
  BY <1>1, <1>2 DEF TrialShape
<1> QED
  BY <1>6, <1>8, <1>9, <1>10, <1>11, TrialsLast

LEMMA CleanPurgeIs ==
  ASSUME TrialShape, NEW gone \in SUBSET Trials, Purge(gone, {})
  PROVE  /\ vault' \in [Trials -> SUBSET Providers] /\ keyedAt' \in [Trials -> Nat]
         /\ disk' = disk \ gone /\ disk' \subseteq Trials
         /\ strays' = strays \cup {t \in gone : Busy(t)} /\ strays' \subseteq Trials
         /\ \A t \in Trials : /\ vault'[t] = IF t \in gone THEN {} ELSE vault[t]
                              /\ keyedAt'[t] = IF t \in gone THEN 0 ELSE keyedAt[t]
BY DEF Purge, Wiped, TrialShape

LEMMA AuthenticateStep ==
  ASSUME TrialInv, NEW h \in Handlers, NEW t \in Trials, AuthenticateTrial(h, t)
  PROVE  TrialInv'
<1>1. TrialShape /\ TrialsKnown /\ KeysDieWithTheirTrial
  BY DEF TrialInv
<1>2. /\ t \in LiveTrials /\ tenants' = Dropped(Stale) /\ Purge(Stale, {})
      /\ handling' = [handling EXCEPT ![h] = Handle("let in", t, "")]
      /\ UNCHANGED <<issued, clock, trialRestarts>>
      /\ Stale \in SUBSET Trials
  BY DEF AuthenticateTrial, Stale
<1>3. t \in issued /\ t \notin Stale
  <2>1. Registered(t) /\ clock < tenants[t]
    <3>1. Registered(t) /\ ~(clock >= tenants[t])
      BY <1>2 DEF LiveTrials, TrialExpired
    <3>2. clock \in Nat /\ tenants[t] \in Nat
      BY <1>1 DEF TrialShape
    <3> QED
      BY <3>1, <3>2
  <2>2. ~(tenants[t] + Grace <= clock)
    BY <1>1, <2>1, TrialAssumption DEF TrialShape
  <2> QED
    BY <1>1, <2>1, <2>2 DEF TrialsKnown, Stale
<1>4. /\ tenants' \in [Trials -> Nat]
      /\ \A u \in Trials : tenants'[u] = IF u \in Stale THEN 0 ELSE tenants[u]
  BY <1>1, <1>2, DroppedIs
<1>5. /\ vault' \in [Trials -> SUBSET Providers] /\ keyedAt' \in [Trials -> Nat]
      /\ disk' = disk \ Stale /\ disk' \subseteq Trials
      /\ strays' = strays \cup {u \in Stale : Busy(u)} /\ strays' \subseteq Trials
      /\ \A u \in Trials : /\ vault'[u] = IF u \in Stale THEN {} ELSE vault[u]
                           /\ keyedAt'[u] = IF u \in Stale THEN 0 ELSE keyedAt[u]
  BY <1>1, <1>2, CleanPurgeIs
<1>6. handling' \in [Handlers -> Handlings]
  <2>1. "" \in Providers \cup {"", "demo"} /\ "let in" \in {"let in", "calling"}
    OBVIOUS
  <2> QED
    BY <1>1, <1>2, <1>3, <2>1, HandleIs
<1>7. TrialShape'
  BY <1>1, <1>2, <1>4, <1>5, <1>6 DEF TrialShape, Handlings
<1>8. \A u \in Trials : Busy(u)' => Busy(u) \/ u = t
  <2>1. Handle("let in", t, "").of = t
    BY DEF Handle
  <2>2. \A g \in Handlers : handling'[g] = IF g = h THEN Handle("let in", t, "") ELSE handling[g]
    BY <1>1, <1>2 DEF TrialShape
  <2> QED
    BY <2>1, <2>2 DEF Busy
<1>9. ASSUME NEW u \in Trials, tenants'[u] = 0, u \notin strays'
      PROVE  ~Busy(u)' /\ vault'[u] = {} /\ u \notin disk'
  <2>1. u \notin strays /\ (u \in Stale => ~Busy(u))
    BY <1>5, <1>9
  <2>2. u # t
    BY <1>2, <1>3, <1>4, <1>9 DEF LiveTrials, Registered
  <2>3. CASE u \in Stale
    BY <1>5, <1>8, <2>1, <2>2, <2>3
  <2>4. CASE u \notin Stale
    BY <1>1, <1>4, <1>5, <1>8, <1>9, <2>1, <2>2, <2>4 DEF TrialsKnown, KeysDieWithTheirTrial, Registered
  <2> QED
    BY <2>3, <2>4
<1>10. \A u \in Trials : tenants'[u] # 0 => tenants[u] # 0 /\ tenants'[u] <= tenants[u]
  BY <1>1, <1>4 DEF TrialShape
<1>11. \A u \in Trials : keyedAt'[u] > 0 =>
         /\ u \in issued
         /\ keyedAt'[u] = keyedAt[u] \/ tenants'[u] <= keyedAt'[u] + KeyTTL
  BY <1>1, <1>5 DEF TrialsKnown
<1>12. clock <= clock' /\ issued \subseteq issued'
  <2>1. clock \in Nat
    BY <1>1 DEF TrialShape
  <2>2. clock' = clock /\ issued' = issued
    BY <1>2
  <2> QED
    BY <2>1, <2>2
<1> QED
  BY <1>7, <1>9, <1>10, <1>11, <1>12, TrialsLast

(***************************************************************************)
(* A trial is issued while there is room.                                  *)
(***************************************************************************)
LEMMA IssueStep ==
  ASSUME TrialInv, NEW t \in Trials, Issue(t)
  PROVE  TrialInv'
<1>1. TrialShape /\ TrialsKnown /\ KeysDieWithTheirTrial
  BY DEF TrialInv
<1>2. /\ t \notin issued /\ Cardinality(LiveTrials) < MaxLive
      /\ tenants' = [Dropped(Stale) EXCEPT ![t] = clock + DemoTTL]
      /\ issued' = issued \cup {t} /\ Purge(Stale, {})
      /\ UNCHANGED <<handling, clock, trialRestarts>>
      /\ Stale \in SUBSET Trials
  BY DEF Issue, HasRoom, Stale
<1>3. ~Registered(t) /\ t \notin Stale /\ ~(keyedAt[t] > 0)
  BY <1>1, <1>2 DEF TrialsKnown, Stale
<1>4. /\ tenants' \in [Trials -> Nat] /\ tenants'[t] = clock + DemoTTL
      /\ \A u \in Trials \ {t} : tenants'[u] = IF u \in Stale THEN 0 ELSE tenants[u]
  <2>1. /\ Dropped(Stale) \in [Trials -> Nat]
        /\ \A u \in Trials : Dropped(Stale)[u] = IF u \in Stale THEN 0 ELSE tenants[u]
    BY <1>1, <1>2, DroppedIs
  <2>2. clock + DemoTTL \in Nat
    BY <1>1, TrialAssumption DEF TrialShape
  <2> QED
    BY <1>2, <2>1, <2>2
<1>5. /\ vault' \in [Trials -> SUBSET Providers] /\ keyedAt' \in [Trials -> Nat]
      /\ disk' = disk \ Stale /\ disk' \subseteq Trials
      /\ strays' = strays \cup {u \in Stale : Busy(u)} /\ strays' \subseteq Trials
      /\ \A u \in Trials : /\ vault'[u] = IF u \in Stale THEN {} ELSE vault[u]
                           /\ keyedAt'[u] = IF u \in Stale THEN 0 ELSE keyedAt[u]
  BY <1>1, <1>2, CleanPurgeIs
<1>6. TrialShape'
  <2>1. Handlings \subseteq Handlings' /\ issued' \subseteq Trials
    BY <1>1, <1>2 DEF Handlings, TrialShape
  <2>2. handling' \in [Handlers -> Handlings']
    BY <1>1, <1>2, <2>1 DEF TrialShape
  <2> QED
    BY <1>1, <1>2, <1>4, <1>5, <2>1, <2>2 DEF TrialShape
<1>7. \A u \in Trials : Busy(u)' <=> Busy(u)
  BY <1>2 DEF Busy
<1>8. tenants'[t] # 0
  BY <1>1, <1>4, TrialAssumption DEF TrialShape
<1>9. ASSUME NEW u \in Trials, tenants'[u] = 0, u \notin strays'
      PROVE  ~Busy(u)' /\ vault'[u] = {} /\ u \notin disk'
  <2>1. u # t /\ u \notin strays /\ (u \in Stale => ~Busy(u))
    BY <1>5, <1>8, <1>9
  <2>2. CASE u \in Stale
    BY <1>5, <1>7, <2>1, <2>2
  <2>3. CASE u \notin Stale
    BY <1>1, <1>4, <1>5, <1>7, <1>9, <2>1, <2>3 DEF TrialsKnown, KeysDieWithTheirTrial, Registered
  <2> QED
    BY <2>2, <2>3
<1>10. TrialsKnown'
  BY <1>1, <1>2, <1>4, <1>5, <1>9 DEF TrialsKnown, Registered
<1>11. \A u \in Trials : tenants'[u] # 0 /\ keyedAt'[u] > 0 => tenants'[u] <= keyedAt'[u] + KeyTTL
  BY <1>1, <1>3, <1>4, <1>5 DEF KeysDieWithTheirTrial, Registered
<1>12. Cardinality(LiveTrials') <= MaxLive
  <2>1. LiveTrials' \subseteq LiveTrials \cup {t}
    BY <1>1, <1>2, <1>4 DEF LiveTrials, Registered, TrialExpired
  <2>2. IsFiniteSet(LiveTrials) /\ t \notin LiveTrials
    BY <1>3, TrialAssumption, FS_Subset DEF LiveTrials
  <2>3. IsFiniteSet(LiveTrials \cup {t}) /\ Cardinality(LiveTrials \cup {t}) = Cardinality(LiveTrials) + 1
    BY <2>2, FS_AddElement
  <2>4. IsFiniteSet(LiveTrials') /\ Cardinality(LiveTrials') <= Cardinality(LiveTrials \cup {t})
    BY <2>1, <2>3, FS_Subset
  <2>5. Cardinality(LiveTrials') \in Nat /\ Cardinality(LiveTrials) \in Nat /\ MaxLive \in Nat
    BY <2>2, <2>4, FS_CardinalityType, TrialAssumption
  <2> QED
    BY <1>2, <2>3, <2>4, <2>5
<1>13. KeysDieWithTheirTrial'
  BY <1>9, <1>11, <1>12 DEF KeysDieWithTheirTrial, Registered
<1> QED
  BY <1>6, <1>10, <1>13 DEF TrialInv

-----------------------------------------------------------------------------
(***************************************************************************)
(* A key is submitted, perhaps for a trial that has just been dropped.     *)
(***************************************************************************)
LEMMA SubmitStep ==
  ASSUME TrialInv, NEW h \in Handlers, NEW p \in Providers, SubmitKeys(h, p)
  PROVE  TrialInv'
<1>1. TrialShape /\ TrialsKnown /\ KeysDieWithTheirTrial
  BY DEF TrialInv
<1>2. PICK t \in Trials : t = handling[h].of /\ t \in issued /\ Busy(t)
  BY <1>1, HandlingIs, RestingIs DEF SubmitKeys, LetIn
<1>3. /\ vault' = [vault EXCEPT ![t] = @ \cup {p}]
      /\ keyedAt' = [keyedAt EXCEPT ![t] = clock]
      /\ tenants' = [tenants EXCEPT ![t] = IF Registered(t) THEN TightenedExpiry(t) ELSE @]
      /\ disk' = disk \cup {t}
      /\ handling' = [handling EXCEPT ![h] = Resting]
      /\ UNCHANGED <<issued, clock, strays, trialRestarts>>
  BY <1>2 DEF SubmitKeys, OpenStores
<1>4. handling' \in [Handlers -> Handlings] /\ \A u \in Trials : Busy(u)' => Busy(u)
  BY <1>1, <1>3, RestIs
<1>5. /\ TightenedExpiry(t) \in Nat
      /\ Registered(t) => /\ TightenedExpiry(t) # 0 /\ TightenedExpiry(t) <= tenants[t]
                          /\ TightenedExpiry(t) <= clock + KeyTTL
  BY <1>1, TrialAssumption DEF TightenedExpiry, TrialShape, Registered
<1>6. /\ tenants' \in [Trials -> Nat] /\ keyedAt' \in [Trials -> Nat]
      /\ vault' \in [Trials -> SUBSET Providers]
      /\ \A u \in Trials \ {t} : tenants'[u] = tenants[u] /\ keyedAt'[u] = keyedAt[u] /\ vault'[u] = vault[u]
      /\ keyedAt'[t] = clock /\ tenants'[t] = IF Registered(t) THEN TightenedExpiry(t) ELSE tenants[t]
  BY <1>1, <1>3, <1>5 DEF TrialShape
<1>7. TrialShape'
  BY <1>1, <1>3, <1>4, <1>6 DEF TrialShape, Handlings
<1>8. ASSUME NEW u \in Trials, tenants'[u] = 0, u \notin strays'
      PROVE  ~Busy(u)' /\ vault'[u] = {} /\ u \notin disk'
  <2>1. CASE u = t
    BY <1>1, <1>2, <1>3, <1>5, <1>6, <1>8, <2>1 DEF TrialsKnown, Registered
  <2>2. CASE u # t
    BY <1>1, <1>3, <1>4, <1>6, <1>8, <2>2 DEF TrialsKnown, KeysDieWithTheirTrial, Registered
  <2> QED
    BY <2>1, <2>2
<1>9. \A u \in Trials : tenants'[u] # 0 => tenants[u] # 0 /\ tenants'[u] <= tenants[u]
  BY <1>1, <1>5, <1>6 DEF TrialShape, Registered
<1>10. \A u \in Trials : keyedAt'[u] > 0 =>
         /\ u \in issued
         /\ keyedAt'[u] = keyedAt[u] \/ tenants'[u] <= keyedAt'[u] + KeyTTL
  <2>1. tenants'[t] <= keyedAt'[t] + KeyTTL
    BY <1>1, <1>5, <1>6, TrialAssumption DEF TrialShape, Registered
  <2> QED
    BY <1>1, <1>2, <1>6, <2>1 DEF TrialsKnown
<1>11. clock <= clock' /\ issued \subseteq issued'
  BY <1>1, <1>3 DEF TrialShape
<1> QED
  BY <1>7, <1>8, <1>9, <1>10, <1>11, TrialsLast

LEMMA DeleteKeysStep ==
  ASSUME TrialInv, NEW h \in Handlers, DeleteKeys(h)
  PROVE  TrialInv'
<1>1. TrialShape /\ TrialsKnown /\ KeysDieWithTheirTrial
  BY DEF TrialInv
<1>2. PICK t \in Trials : t = handling[h].of
  BY <1>1, HandlingIs, RestingIs DEF DeleteKeys, LetIn
<1>3. /\ vault' = [vault EXCEPT ![t] = {}] /\ keyedAt' = [keyedAt EXCEPT ![t] = 0]
      /\ handling' = [handling EXCEPT ![h] = Resting]
      /\ UNCHANGED <<tenants, issued, disk, clock, strays, trialRestarts>>
  BY <1>2 DEF DeleteKeys
<1>4. handling' \in [Handlers -> Handlings] /\ \A u \in Trials : Busy(u)' => Busy(u)
  BY <1>1, <1>3, RestIs
<1>5. /\ vault' \in [Trials -> SUBSET Providers] /\ keyedAt' \in [Trials -> Nat]
      /\ \A u \in Trials : vault'[u] \in {{}, vault[u]} /\ keyedAt'[u] \in {0, keyedAt[u]}
  BY <1>1, <1>3 DEF TrialShape
<1>6. TrialShape'
  BY <1>1, <1>3, <1>4, <1>5 DEF TrialShape, Handlings
<1>7. \A u \in Trials : tenants'[u] = 0 /\ u \notin strays' =>
        ~Busy(u)' /\ vault'[u] = {} /\ u \notin disk'
  BY <1>1, <1>3, <1>4, <1>5 DEF TrialsKnown, KeysDieWithTheirTrial, Registered
<1>8. \A u \in Trials : tenants'[u] # 0 => tenants[u] # 0 /\ tenants'[u] <= tenants[u]
  BY <1>1, <1>3 DEF TrialShape
<1>9. \A u \in Trials : keyedAt'[u] > 0 => u \in issued /\ keyedAt'[u] = keyedAt[u]
  BY <1>1, <1>5 DEF TrialsKnown
<1>10. clock <= clock' /\ issued \subseteq issued'
  BY <1>1, <1>3 DEF TrialShape
<1> QED
  BY <1>6, <1>7, <1>8, <1>9, <1>10, TrialsLast

LEMMA EndTrialStep ==
  ASSUME TrialInv, NEW h \in Handlers, EndTrial(h)
  PROVE  TrialInv'
<1>1. TrialShape /\ TrialsKnown /\ KeysDieWithTheirTrial
  BY DEF TrialInv
<1>2. PICK t \in Trials : t = handling[h].of
  BY <1>1, HandlingIs, RestingIs DEF EndTrial, LetIn
<1>3. /\ handling' = [handling EXCEPT ![h] = Resting]
      /\ UNCHANGED <<issued, clock, trialRestarts>>
  BY <1>2 DEF EndTrial
<1>4. handling' \in [Handlers -> Handlings] /\ \A u \in Trials : Busy(u)' => Busy(u)
  BY <1>1, <1>3, RestIs
<1>5. clock <= clock' /\ issued \subseteq issued' /\ {t} \in SUBSET Trials
  BY <1>1, <1>3 DEF TrialShape
<1>6. CASE ~Registered(t) /\ UNCHANGED <<tenants, vault, keyedAt, disk, strays>>
  <2>1. TrialShape'
    BY <1>1, <1>3, <1>4, <1>6 DEF TrialShape, Handlings
  <2>2. \A u \in Trials : tenants'[u] = 0 /\ u \notin strays' =>
          ~Busy(u)' /\ vault'[u] = {} /\ u \notin disk'
    BY <1>1, <1>3, <1>4, <1>6 DEF TrialsKnown, KeysDieWithTheirTrial, Registered
  <2>3. \A u \in Trials : tenants'[u] # 0 => tenants[u] # 0 /\ tenants'[u] <= tenants[u]
    BY <1>1, <1>6 DEF TrialShape
  <2>4. \A u \in Trials : keyedAt'[u] > 0 => u \in issued /\ keyedAt'[u] = keyedAt[u]
    BY <1>1, <1>6 DEF TrialsKnown
  <2> QED
    BY <1>5, <2>1, <2>2, <2>3, <2>4, TrialsLast
<1>7. ASSUME tenants' = Dropped({t})
      PROVE  /\ tenants' \in [Trials -> Nat] /\ tenants'[t] = 0
             /\ \A u \in Trials \ {t} : tenants'[u] = tenants[u]
             /\ \A u \in Trials : tenants'[u] # 0 => tenants[u] # 0 /\ tenants'[u] <= tenants[u]
  <2>1. /\ tenants' \in [Trials -> Nat]
        /\ \A u \in Trials : tenants'[u] = IF u \in {t} THEN 0 ELSE tenants[u]
    BY <1>1, <1>5, <1>7, DroppedIs
  <2> QED
    BY <1>1, <2>1 DEF TrialShape
<1>8. CASE /\ tenants' = Dropped({t}) /\ strays' = strays \cup {t}
           /\ UNCHANGED <<vault, keyedAt, disk>>
  <2>1. TrialShape'
    BY <1>1, <1>3, <1>4, <1>5, <1>7, <1>8 DEF TrialShape, Handlings
  <2>2. \A u \in Trials : tenants'[u] = 0 /\ u \notin strays' =>
          ~Busy(u)' /\ vault'[u] = {} /\ u \notin disk'
    BY <1>1, <1>3, <1>4, <1>7, <1>8 DEF TrialsKnown, KeysDieWithTheirTrial, Registered
  <2>3. \A u \in Trials : keyedAt'[u] > 0 => u \in issued /\ keyedAt'[u] = keyedAt[u]
    BY <1>1, <1>8 DEF TrialsKnown
  <2> QED
    BY <1>5, <1>7, <1>8, <2>1, <2>2, <2>3, TrialsLast
<1>9. CASE /\ tenants' = Dropped({t}) /\ Wiped({t})
           /\ strays' = strays \cup (IF \E g \in Handlers \ {h} : handling[g] # Resting /\ handling[g].of = t
                                     THEN {t} ELSE {})
  <2>1. /\ vault' \in [Trials -> SUBSET Providers] /\ keyedAt' \in [Trials -> Nat]
        /\ vault'[t] = {} /\ keyedAt'[t] = 0 /\ disk' = disk \ {t}
        /\ \A u \in Trials \ {t} : vault'[u] = vault[u] /\ keyedAt'[u] = keyedAt[u]
    BY <1>1, <1>9 DEF Wiped, TrialShape
  <2>2. strays' \subseteq Trials
    BY <1>1, <1>9 DEF TrialShape
  <2>3. TrialShape'
    BY <1>1, <1>3, <1>4, <1>5, <1>7, <1>9, <2>1, <2>2 DEF TrialShape, Handlings
  <2>4. t \notin strays' => ~Busy(t)'
    <3>1. \A g \in Handlers : handling'[g] # Resting => g # h /\ handling'[g] = handling[g]
      BY <1>1, <1>3 DEF TrialShape
    <3> QED
      BY <1>9, <3>1 DEF Busy
  <2>5. ASSUME NEW u \in Trials, tenants'[u] = 0, u \notin strays'
        PROVE  ~Busy(u)' /\ vault'[u] = {} /\ u \notin disk'
    <3>1. CASE u = t
      BY <2>1, <2>4, <2>5, <3>1
    <3>2. CASE u # t
      <4>1. u \notin strays /\ ~Registered(u)
        BY <1>7, <1>9, <2>5, <3>2 DEF Registered
      <4> QED
        BY <1>1, <1>4, <2>1, <3>2, <4>1 DEF TrialsKnown, KeysDieWithTheirTrial
    <3> QED
      BY <3>1, <3>2
  <2>6. \A u \in Trials : keyedAt'[u] > 0 => u \in issued /\ keyedAt'[u] = keyedAt[u]
    BY <1>1, <2>1 DEF TrialsKnown
  <2> QED
    BY <1>5, <1>7, <1>9, <2>3, <2>5, <2>6, TrialsLast
<1> QED
  BY <1>2, <1>6, <1>8, <1>9 DEF EndTrial

LEMMA HandlerStep ==
  ASSUME TrialInv, NEW h \in Handlers,
         (Consult(h) \/ Proxied(h)) \/ (\E p \in Providers \cup {"demo"} : Proxy(h, p))
  PROVE  TrialInv'
<1>1. TrialShape /\ TrialsKnown /\ KeysDieWithTheirTrial
  BY DEF TrialInv
<1>2. handling[h] # Resting
  BY RestingIs DEF Consult, Proxied, Proxy, LetIn
<1>3. PICK t \in Trials : t = handling[h].of /\ t \in issued /\ Busy(t)
  BY <1>1, <1>2, HandlingIs
<1>4. /\ disk' = disk \cup {t}
      /\ UNCHANGED <<tenants, issued, vault, keyedAt, clock, strays, trialRestarts>>
  BY <1>3 DEF Consult, Proxied, Proxy, OpenStores
<1>5. handling' \in [Handlers -> Handlings] /\ \A u \in Trials : Busy(u)' => Busy(u)
  <2>1. CASE handling' = [handling EXCEPT ![h] = Resting]
    BY <1>1, <2>1, RestIs
  <2>2. ASSUME NEW p \in Providers \cup {"demo"}, Proxy(h, p)
        PROVE  handling' \in [Handlers -> Handlings] /\ \A u \in Trials : Busy(u)' => Busy(u)
    <3>1. handling' = [handling EXCEPT ![h] = Handle("calling", t, p)]
      BY <1>3, <2>2 DEF Proxy
    <3>2. p \in Providers \cup {"", "demo"} /\ "calling" \in {"let in", "calling"}
      OBVIOUS
    <3>3. handling' \in [Handlers -> Handlings]
      BY <1>1, <1>3, <3>1, <3>2, HandleIs
    <3>4. Handle("calling", t, p).of = t
      BY DEF Handle
    <3>5. \A g \in Handlers : handling'[g] = IF g = h THEN Handle("calling", t, p) ELSE handling[g]
      BY <1>1, <3>1 DEF TrialShape
    <3> QED
      BY <1>3, <3>3, <3>4, <3>5 DEF Busy
  <2> QED
    BY <2>1, <2>2 DEF Consult, Proxied
<1>6. TrialShape'
  BY <1>1, <1>4, <1>5 DEF TrialShape, Handlings
<1>7. ASSUME NEW u \in Trials, tenants'[u] = 0, u \notin strays'
      PROVE  ~Busy(u)' /\ vault'[u] = {} /\ u \notin disk'
  BY <1>1, <1>3, <1>4, <1>5, <1>7 DEF TrialsKnown, KeysDieWithTheirTrial, Registered
<1>8. \A u \in Trials : tenants'[u] # 0 => tenants[u] # 0 /\ tenants'[u] <= tenants[u]
  BY <1>1, <1>4 DEF TrialShape
<1>9. \A u \in Trials : keyedAt'[u] > 0 => u \in issued /\ keyedAt'[u] = keyedAt[u]
  BY <1>1, <1>4 DEF TrialsKnown
<1>10. clock <= clock' /\ issued \subseteq issued'
  BY <1>1, <1>4 DEF TrialShape
<1> QED
  BY <1>6, <1>7, <1>8, <1>9, <1>10, TrialsLast

(***************************************************************************)
(* Time passes; the process restarts and forgets.                          *)
(***************************************************************************)
LEMMA TimeAndRestart ==
  ASSUME TrialInv, TrialTick \/ TrialRestart \/ UNCHANGED trialVars
  PROVE  TrialInv'
<1>1. TrialShape /\ TrialsKnown /\ KeysDieWithTheirTrial
  BY DEF TrialInv
<1>2. CASE TrialTick \/ UNCHANGED trialVars
  <2>1. /\ UNCHANGED <<tenants, issued, vault, keyedAt, disk, handling, strays, trialRestarts>>
        /\ clock' \in {clock, clock + 1}
    BY <1>2 DEF TrialTick, trialVars
  <2>2. clock \in Nat \ {0}
    BY <1>1 DEF TrialShape
  <2>3. clock' \in Nat \ {0} /\ clock <= clock'
    BY <2>1, <2>2
  <2>4. TrialShape'
    BY <1>1, <2>1, <2>3 DEF TrialShape, Handlings
  <2>5. \A u \in Trials : Busy(u)' <=> Busy(u)
    BY <2>1 DEF Busy
  <2>6. \A u \in Trials : tenants'[u] = 0 /\ u \notin strays' =>
          ~Busy(u)' /\ vault'[u] = {} /\ u \notin disk'
    BY <1>1, <2>1, <2>5 DEF TrialsKnown, KeysDieWithTheirTrial, Registered
  <2>7. \A u \in Trials : tenants'[u] # 0 => tenants[u] # 0 /\ tenants'[u] <= tenants[u]
    BY <1>1, <2>1 DEF TrialShape
  <2>8. \A u \in Trials : keyedAt'[u] > 0 => u \in issued /\ keyedAt'[u] = keyedAt[u]
    BY <1>1, <2>1 DEF TrialsKnown
  <2>9. issued \subseteq issued'
    BY <2>1
  <2> QED
    BY <2>3, <2>4, <2>6, <2>7, <2>8, <2>9, TrialsLast
<1>3. CASE TrialRestart
  <2>1. /\ strays' = strays \cup {t \in Trials : Registered(t)}
        /\ tenants' = Dropped(Trials) /\ Trials \in SUBSET Trials
        /\ vault' = [t \in Trials |-> {}] /\ keyedAt' = [t \in Trials |-> 0]
        /\ handling' = [h \in Handlers |-> Resting]
        /\ UNCHANGED <<issued, disk, clock>>
    BY <1>3 DEF TrialRestart
  <2>2. tenants' \in [Trials -> Nat] /\ \A t \in Trials : tenants'[t] = 0
    BY <1>1, <2>1, DroppedIs
  <2>3. Resting \in Handlings
    BY DEF Handlings
  <2>4. handling' \in [Handlers -> Handlings] /\ \A h \in Handlers : handling'[h] = Resting
    BY <2>1, <2>3
  <2>5. TrialShape'
    BY <1>1, <2>1, <2>2, <2>4 DEF TrialShape, Handlings
  <2>6. \A u \in Trials : ~Busy(u)'
    BY <2>4 DEF Busy
  <2>7. \A u \in Trials : tenants'[u] = 0 /\ u \notin strays' =>
          ~Busy(u)' /\ vault'[u] = {} /\ u \notin disk'
    BY <1>1, <2>1, <2>6 DEF KeysDieWithTheirTrial
  <2>8. \A u \in Trials : ~(tenants'[u] # 0) /\ ~(keyedAt'[u] > 0)
    BY <2>1, <2>2
  <2>9. clock <= clock' /\ issued \subseteq issued'
    BY <1>1, <2>1 DEF TrialShape
  <2> QED
    BY <2>5, <2>7, <2>8, <2>9, TrialsLast
<1> QED
  BY <1>2, <1>3

LEMMA StepTrialInv == TrialInv /\ [TrialNext]_trialVars => TrialInv'
<1> SUFFICES ASSUME TrialInv, TrialNext \/ UNCHANGED trialVars PROVE TrialInv'
  OBVIOUS
<1> QED
  BY AuthenticateStep, IssueStep, SubmitStep, DeleteKeysStep, EndTrialStep, HandlerStep, SweepSteps,
     TimeAndRestart DEF TrialNext

(***************************************************************************)
(* At no time and for any number of trials and handlers is a key held, or  *)
(* a file kept, of a trial that is not registered, except those the        *)
(* registry dropped in the middle of a request, in a sweep that failed or  *)
(* in a restart; a key shortens its trial, and the live ones never exceed  *)
(* the capacity (_on_purge, submit_keys, issue).                           *)
(***************************************************************************)
THEOREM KeysAlwaysDieWithTheirTrial == TrialSpec => []KeysDieWithTheirTrial
<1>1. TrialInv => KeysDieWithTheirTrial
  BY DEF TrialInv
<1> QED
  BY <1>1, TrialInitInv, StepTrialInv, PTL DEF TrialSpec

-----------------------------------------------------------------------------
(***************************************************************************)
(* The sale of pages: what a step does to what the requests are doing.     *)
(***************************************************************************)
LEMMA RowsAre ==
  ASSUME NEW row \in PageRows
  PROVE  /\ row.for \in Requested \cup {""} /\ row.born \in Nat
         /\ row.kept \in BOOLEAN /\ row.settled \in BOOLEAN
         /\ \A b \in BOOLEAN :
              /\ [row EXCEPT !.kept = b] \in PageRows /\ [row EXCEPT !.settled = b] \in PageRows
              /\ [row EXCEPT !.kept = b].kept = b /\ [row EXCEPT !.kept = b].born = row.born
              /\ [row EXCEPT !.kept = b].for = row.for /\ [row EXCEPT !.kept = b].settled = row.settled
              /\ [row EXCEPT !.settled = b].settled = b /\ [row EXCEPT !.settled = b].born = row.born
              /\ [row EXCEPT !.settled = b].for = row.for /\ [row EXCEPT !.settled = b].kept = row.kept
BY DEF PageRows

LEMMA NotReadingIs ==
  NotReading \in Readings /\ NotReading.at = "free"
BY DEF NotReading, Readings

LEMMA StopsTo ==
  ASSUME ReadingShape, NEW r \in Readers, StopsReading(r)
  PROVE  /\ ReadingShape' /\ reading'[r].at = "free"
         /\ \A q \in Readers : q # r => reading'[q] = reading[q]
<1>1. /\ reading' \in [Readers -> Readings] /\ reading'[r] = NotReading
      /\ \A q \in Readers : q # r => reading'[q] = reading[q]
  BY NotReadingIs DEF StopsReading, ReadingShape
<1>2. \A q \in Readers :
        IF reading'[q].at = "free" THEN reading'[q] = NotReading
        ELSE /\ reading'[q].by \in Payments /\ reading'[q].for \in Requested
             /\ reading'[q].locks = TakesLock(reading'[q].by)
  BY <1>1, NotReadingIs DEF ReadingShape
<1> QED
  BY <1>1, <1>2, NotReadingIs DEF ReadingShape, TakesLock, IsX402

LEMMA ReadingMoves ==
  ASSUME ReadingShape, NEW r \in Readers, NEW place \in {"waiting", "fetching", "settling", "settled"},
         reading[r].at # "free", To(r, place)
  PROVE  /\ ReadingShape' /\ reading'[r].at = place
         /\ reading'[r].by = reading[r].by /\ reading'[r].for = reading[r].for
         /\ reading'[r].locks = reading[r].locks
         /\ \A q \in Readers : q # r => reading'[q] = reading[q]
<1> DEFINE new == [reading[r] EXCEPT !.at = place]
<1>1. reading[r] \in Readings
  BY DEF ReadingShape
<1>2. /\ new \in Readings /\ new.at = place /\ new.by = reading[r].by /\ new.for = reading[r].for
      /\ new.locks = reading[r].locks
  BY <1>1 DEF Readings
<1>3. reading' = [reading EXCEPT ![r] = new]
  BY DEF To
<1> HIDE DEF new
<1>4. /\ reading' \in [Readers -> Readings] /\ reading'[r] = new
      /\ \A q \in Readers : q # r => reading'[q] = reading[q]
  BY <1>2, <1>3 DEF ReadingShape
<1>5. \A q \in Readers :
        IF reading'[q].at = "free" THEN reading'[q] = NotReading
        ELSE /\ reading'[q].by \in Payments /\ reading'[q].for \in Requested
             /\ reading'[q].locks = TakesLock(reading'[q].by)
  BY <1>2, <1>4 DEF ReadingShape
<1>6. ReadingShape'
  BY <1>4, <1>5 DEF ReadingShape, TakesLock, IsX402
<1> QED
  BY <1>2, <1>4, <1>6

LEMMA ArrivesAt ==
  ASSUME ReadingShape, NEW r \in Readers, NEW p \in Payments, NEW k \in Requested, Arrive(r, p, k)
  PROVE  /\ ReadingShape' /\ reading'[r].at = "waiting"
         /\ \A q \in Readers : q # r => reading'[q] = reading[q]
<1> DEFINE new == [at |-> "waiting", by |-> p, for |-> k, locks |-> TakesLock(p)]
<1>1. TakesLock(p) \in BOOLEAN
  BY DEF TakesLock
<1>2. /\ new \in Readings /\ new.at = "waiting" /\ new.by = p /\ new.for = k /\ new.locks = TakesLock(p)
  BY <1>1 DEF Readings
<1>3. reading' = [reading EXCEPT ![r] = new]
  BY DEF Arrive
<1> HIDE DEF new
<1>4. /\ reading' \in [Readers -> Readings] /\ reading'[r] = new
      /\ \A q \in Readers : q # r => reading'[q] = reading[q]
  BY <1>2, <1>3 DEF ReadingShape
<1>5. \A q \in Readers :
        IF reading'[q].at = "free" THEN reading'[q] = NotReading
        ELSE /\ reading'[q].by \in Payments /\ reading'[q].for \in Requested
             /\ reading'[q].locks = TakesLock(reading'[q].by)
  BY <1>2, <1>4 DEF ReadingShape
<1>6. ReadingShape'
  BY <1>4, <1>5 DEF ReadingShape, TakesLock, IsX402
<1> QED
  BY <1>2, <1>4, <1>6

(***************************************************************************)
(* The ledger: what expires, what is delivered and what is settled.        *)
(***************************************************************************)
LEMMA UnexpiredIs ==
  ASSUME LedgerShape, age \in Nat
  PROVE  /\ Unexpired(reads) \in [Payments -> PageRows]
         /\ \A p \in Payments :
              /\ Unexpired(reads)[p].for = reads[p].for /\ Unexpired(reads)[p].born = reads[p].born
              /\ Unexpired(reads)[p].settled = reads[p].settled
              /\ Unexpired(reads)[p].kept <=> reads[p].kept /\ reads[p].born >= age - RecoveryWindow
<1> DEFINE b(p) == reads[p].kept /\ reads[p].born >= age - RecoveryWindow
<1>1. \A p \in Payments : reads[p] \in PageRows /\ b(p) \in BOOLEAN
  BY DEF LedgerShape
<1>2. \A p \in Payments : Unexpired(reads)[p] = [reads[p] EXCEPT !.kept = b(p)]
  BY DEF Unexpired
<1>3. Unexpired(reads) = [p \in Payments |-> [reads[p] EXCEPT !.kept = b(p)]]
  BY DEF Unexpired
<1>4. \A p \in Payments : [reads[p] EXCEPT !.kept = b(p)] \in PageRows
  <2> HIDE DEF b
  <2> QED
    BY <1>1, RowsAre
<1>5. Unexpired(reads) \in [Payments -> PageRows]
  <2> HIDE DEF b
  <2> QED
    BY <1>3, <1>4
<1>6. ASSUME NEW p \in Payments
      PROVE  /\ Unexpired(reads)[p].for = reads[p].for /\ Unexpired(reads)[p].born = reads[p].born
             /\ Unexpired(reads)[p].settled = reads[p].settled
             /\ Unexpired(reads)[p].kept = b(p)
  <2> HIDE DEF b
  <2>1. PICK row \in PageRows, c \in BOOLEAN : row = reads[p] /\ c = b(p)
    BY <1>1
  <2>2. /\ [row EXCEPT !.kept = c].for = row.for /\ [row EXCEPT !.kept = c].born = row.born
        /\ [row EXCEPT !.kept = c].settled = row.settled /\ [row EXCEPT !.kept = c].kept = c
    BY DEF PageRows
  <2>3. Unexpired(reads)[p] = [row EXCEPT !.kept = c]
    BY <1>2, <2>1
  <2> QED
    BY <2>1, <2>2, <2>3
<1> QED
  BY <1>5, <1>6

LEMMA DeliveredIs ==
  ASSUME LedgerShape, age \in Nat, NEW p \in Payments, NEW k \in Requested
  PROVE  /\ Delivered(reads, p, k) \in [Payments -> PageRows]
         /\ \A q \in Payments :
              \/ Delivered(reads, p, k)[q] = reads[q]
              \/ q = p /\ reads[p] = NoRead /\ Delivered(reads, p, k)[p] = Row(k)
<1>1. Row(k) \in PageRows
  <2>1. (RecoveryWindow > 0) \in BOOLEAN
    OBVIOUS
  <2>2. \A b \in BOOLEAN : [for |-> k, born |-> age, kept |-> b, settled |-> FALSE] \in PageRows
    BY DEF PageRows
  <2> QED
    BY <2>1, <2>2 DEF Row
<1> QED
  BY <1>1 DEF Delivered, LedgerShape

LEMMA RowIs ==
  ASSUME NEW k \in Requested
  PROVE  /\ Row(k).for = k /\ Row(k).born = age /\ Row(k).settled = FALSE /\ Row(k).kept = (RecoveryWindow > 0)
         /\ NoRead.settled = FALSE
BY DEF Row, NoRead

-----------------------------------------------------------------------------
(***************************************************************************)
(* What lasts when no request takes a lock, none is settled, and no row    *)
(* becomes one that a payer could recover.                                 *)
(***************************************************************************)
LEMMA LocksLast ==
  ASSUME LocksExclude,
         \A q \in Readers : Holds(q)' =>
           /\ Holds(q) /\ reading'[q].by = reading[q].by /\ reading'[q].for = reading[q].for
           /\ reading'[q].locks = reading[q].locks,
         \A q \in Readers : Holds(q)' /\ reading[q].locks => LockKey(q) \in inFlight'
  PROVE  LocksExclude'
<1>1. \A q \in Readers : Holds(q)' => LockKey(q)' = LockKey(q)
  BY DEF LockKey, KeyOf
<1> QED
  BY <1>1 DEF LocksExclude

LEMMA SoldLast ==
  ASSUME SoldOnce, onChain \subseteq onChain', claimed \subseteq claimed', pages' = pages,
         \A q \in Readers : reading'[q].at = "settled" =>
           reading[q].at = "settled" /\ reading'[q].by = reading[q].by
  PROVE  SoldOnce'
<1>1. \A p : Moved(p) => Moved(p)'
  BY DEF Moved
<1>2. ASSUME NEW r \in Readers, reading'[r].at = "settled"
      PROVE  /\ Moved(reading[r].by)'
             /\ \A k \in Requested : pages'[reading'[r].by][k] = 0
             /\ \A q \in Readers : reading'[q].at = "settled" /\ reading'[q].by = reading'[r].by => q = r
  <2>1. PICK p : p = reading[r].by /\ p = reading'[r].by
    BY <1>2
  <2>2. Moved(p) /\ reading[r].at = "settled"
    BY <1>2, <2>1 DEF SoldOnce
  <2>3. Moved(reading[r].by)'
    BY <1>1, <2>1, <2>2 DEF Moved
  <2> QED
    BY <1>2, <2>1, <2>2, <2>3 DEF SoldOnce
<1>3. \A p \in Payments, k, l \in Requested :
        pages'[p][k] <= 1 /\ (pages'[p][k] > 0 => Moved(p)')
        /\ (pages'[p][k] > 0 /\ pages'[p][l] > 0 => k = l)
  BY <1>1 DEF SoldOnce
<1> QED
  BY <1>2, <1>3 DEF SoldOnce

LEMMA UnexpiredNext ==
  ASSUME reads' \in [Payments -> PageRows], NEW q \in Payments
  PROVE  Unexpired(reads)'[q].kept <=> reads'[q].kept /\ reads'[q].born >= age' - RecoveryWindow
<1> DEFINE b == reads'[q].kept /\ reads'[q].born >= age' - RecoveryWindow
<1>1. PICK row \in PageRows : row = reads'[q]
  OBVIOUS
<1>2. b \in BOOLEAN
  BY <1>1 DEF PageRows
<1>3. Unexpired(reads)'[q] = [row EXCEPT !.kept = b]
  BY <1>1 DEF Unexpired
<1>4. \A c \in BOOLEAN : [row EXCEPT !.kept = c].kept = c
  BY DEF PageRows
<1>5. Unexpired(reads)'[q].kept = b
  <2> HIDE DEF b
  <2> QED
    BY <1>2, <1>3, <1>4
<1> QED
  BY <1>5

LEMMA KeptFades ==
  ASSUME PageShape, PageShape', age <= age', pages' = pages,
         \A q \in Payments : reads'[q].settled =>
           /\ reads[q].settled /\ reads'[q].for = reads[q].for /\ reads'[q].born = reads[q].born
           /\ reads'[q].kept => reads[q].kept,
         NEW p, NEW k, KeptFor(p, k)'
  PROVE  KeptFor(p, k)
<1>1. PICK q \in Payments : /\ PayerOf[q] = PayerOf[p] /\ pages'[q][k] > 0
                            /\ reads'[q].for = k /\ reads'[q].settled
                            /\ Unexpired(reads)'[q].kept
  BY DEF KeptFor
<1>2. reads'[q].kept /\ reads'[q].born >= age' - RecoveryWindow
  BY <1>1, UnexpiredNext DEF PageShape, LedgerShape
<1>3. age \in Nat /\ age' \in Nat /\ reads[q].born \in Nat /\ RecoveryWindow \in Nat
  BY PageAssumption, RowsAre DEF PageShape, LedgerShape
<1>4. reads[q].born >= age - RecoveryWindow
  BY <1>1, <1>2, <1>3
<1>5. Unexpired(reads)[q].kept
  BY <1>1, <1>2, <1>4, UnexpiredIs DEF PageShape
<1> QED
  BY <1>1, <1>5 DEF KeptFor

LEMMA KeptLast ==
  ASSUME PageShape, PageShape', NothingKept, age <= age', pages' = pages, again' = again,
         \A q \in Payments : reads'[q].settled =>
           /\ reads[q].settled /\ reads'[q].for = reads[q].for /\ reads'[q].born = reads[q].born
           /\ reads'[q].kept => reads[q].kept,
         \A q \in Readers : reading'[q].at \in {"fetching", "settling"} =>
           /\ reading[q].at \in {"fetching", "settling"}
           /\ reading'[q].by = reading[q].by /\ reading'[q].for = reading[q].for
  PROVE  NothingKept'
<1>1. \A r \in Readers, p \in Payments, k \in Requested :
        /\ reading'[r].at \in {"fetching", "settling"} /\ RailOf[p] # "hash"
        /\ reading'[r].by = p /\ reading'[r].for = k
        => ~KeptFor(p, k)
  BY DEF NothingKept
<1>2. \A p \in Payments, k \in Requested : KeptFor(p, k)' => KeptFor(p, k)
  BY KeptFades
<1> QED
  BY <1>1, <1>2 DEF NothingKept

-----------------------------------------------------------------------------
(***************************************************************************)
(* A request arrives, and the ledger forgets what has expired.             *)
(***************************************************************************)
LEMMA ArriveStep ==
  ASSUME PageInv, NEW r \in Readers, NEW p \in Payments, NEW k \in Requested, Arrive(r, p, k)
  PROVE  PageInv'
<1>1. PageShape /\ ReadingShape /\ LedgerShape /\ LocksExclude /\ SoldOnce /\ NothingKept /\ age \in Nat
  BY DEF PageInv, PageShape
<1>2. /\ reads' = Unexpired(reads)
      /\ UNCHANGED <<inFlight, onChain, claimed, owed, pages, again, age, pageCrashes>>
  BY DEF Arrive
<1>3. /\ ReadingShape' /\ reading'[r].at = "waiting"
      /\ \A q \in Readers : q # r => reading'[q] = reading[q]
  BY <1>1, ArrivesAt
<1>4. /\ reads' \in [Payments -> PageRows]
      /\ \A q \in Payments : /\ reads'[q].settled = reads[q].settled /\ reads'[q].for = reads[q].for
                             /\ reads'[q].born = reads[q].born /\ (reads'[q].kept => reads[q].kept)
  BY <1>1, <1>2, UnexpiredIs
<1>5. LedgerShape'
  BY <1>1, <1>4 DEF LedgerShape
<1>6. PageShape'
  BY <1>1, <1>2, <1>3, <1>5 DEF PageShape
<1>7. LocksExclude'
  BY <1>1, <1>2, <1>3, LocksLast DEF Holds, LocksExclude
<1>8. SoldOnce'
  BY <1>1, <1>2, <1>3, SoldLast
<1>9. age <= age' /\ pages' = pages /\ again' = again
  BY <1>1, <1>2
<1>10. NothingKept'
  BY <1>1, <1>3, <1>4, <1>6, <1>9, KeptLast
<1> QED
  BY <1>6, <1>7, <1>8, <1>10 DEF PageInv

(***************************************************************************)
(* It is refused or finds what its payer bought, or goes on to be charged. *)
(***************************************************************************)
LEMMA EnterStep ==
  ASSUME PageInv, NEW r \in Readers, Enter(r)
  PROVE  PageInv'
<1>1. PageShape /\ ReadingShape /\ LedgerShape /\ LocksExclude /\ SoldOnce /\ NothingKept /\ age \in Nat
  BY DEF PageInv, PageShape
<1>2. PICK p \in Payments, k \in Requested :
        p = reading[r].by /\ k = reading[r].for /\ reading[r].locks = TakesLock(p)
  BY <1>1 DEF Enter, ReadingShape
<1>3. /\ reading[r].at = "waiting"
      /\ reading[r].locks => KeyOf(p, k) \notin inFlight
      /\ reads' = IF MayRecover(p) THEN Unexpired(reads) ELSE reads
      /\ UNCHANGED <<onChain, claimed, owed, pages, again, age, pageCrashes>>
      /\ \/ StopsReading(r) /\ UNCHANGED inFlight
         \/ /\ MayRecover(p) => ~RecoverableIn(Unexpired(reads), PayerOf[p], k)
            /\ To(r, "fetching")
            /\ inFlight' = inFlight \cup (IF reading[r].locks THEN {KeyOf(p, k)} ELSE {})
  BY <1>2 DEF Enter
<1>4. /\ reads' \in [Payments -> PageRows]
      /\ \A q \in Payments : /\ reads'[q].settled = reads[q].settled /\ reads'[q].for = reads[q].for
                             /\ reads'[q].born = reads[q].born /\ (reads'[q].kept => reads[q].kept)
  BY <1>1, <1>3, UnexpiredIs DEF LedgerShape
<1>5. LedgerShape'
  BY <1>1, <1>4 DEF LedgerShape
<1>6. age <= age' /\ pages' = pages /\ again' = again
  BY <1>1, <1>3
<1>7. CASE StopsReading(r) /\ UNCHANGED inFlight
  <2>1. /\ ReadingShape' /\ reading'[r].at = "free"
        /\ \A q \in Readers : q # r => reading'[q] = reading[q]
    BY <1>1, <1>7, StopsTo
  <2>2. PageShape'
    BY <1>1, <1>3, <1>5, <2>1 DEF PageShape
  <2>3. LocksExclude'
    BY <1>1, <1>3, <1>7, <2>1, LocksLast DEF Holds, LocksExclude
  <2>4. SoldOnce'
    BY <1>1, <1>3, <2>1, SoldLast
  <2>5. NothingKept'
    BY <1>1, <1>4, <1>6, <2>1, <2>2, KeptLast
  <2> QED
    BY <2>2, <2>3, <2>4, <2>5 DEF PageInv
<1>8. CASE /\ MayRecover(p) => ~RecoverableIn(Unexpired(reads), PayerOf[p], k)
           /\ To(r, "fetching")
           /\ inFlight' = inFlight \cup (IF reading[r].locks THEN {KeyOf(p, k)} ELSE {})
  <2>1. /\ ReadingShape' /\ reading'[r].at = "fetching"
        /\ reading'[r].by = p /\ reading'[r].for = k /\ reading'[r].locks = reading[r].locks
        /\ \A q \in Readers : q # r => reading'[q] = reading[q]
    BY <1>1, <1>2, <1>3, <1>8, ReadingMoves
  <2>2. PageShape'
    BY <1>1, <1>3, <1>5, <2>1 DEF PageShape
  <2>3. LocksExclude'
    <3>1. LockKey(r)' = KeyOf(p, k)
      BY <2>1 DEF LockKey, KeyOf
    <3>2. \A q \in Readers : q # r => LockKey(q)' = LockKey(q) /\ Holds(q)' = Holds(q)
      BY <2>1 DEF LockKey, KeyOf, Holds
    <3>3. \A q \in Readers : q # r /\ Holds(q) /\ reading[q].locks /\ reading[r].locks
                               => LockKey(q) # KeyOf(p, k)
      BY <1>1, <1>3 DEF LocksExclude
    <3>4. reading[r].locks => KeyOf(p, k) \in inFlight'
      BY <1>8
    <3>5. inFlight \subseteq inFlight'
      BY <1>8
    <3> QED
      BY <1>1, <2>1, <3>1, <3>2, <3>3, <3>4, <3>5 DEF LocksExclude
  <2>4. SoldOnce'
    BY <1>1, <1>3, <2>1, SoldLast
  <2>5. ASSUME RailOf[p] # "hash" PROVE ~KeptFor(p, k)'
    <3>1. SUFFICES ASSUME NEW q \in Payments, PayerOf[q] = PayerOf[p], reads'[q].for = k, reads'[q].settled,
                          Unexpired(reads)'[q].kept, RailOf[p] # "x402 wallet"
                   PROVE  FALSE
      BY DEF KeptFor
    <3>2. reads'[q].kept
      BY <1>4, <3>1, UnexpiredNext
    <3>3. RecoveryWindow > 0
      <4>1. RecoveryWindow # 0
        BY <1>5, <3>2 DEF LedgerShape
      <4>2. RecoveryWindow \in Nat
        BY PageAssumption
      <4> QED
        BY <4>1, <4>2
    <3>4. MayRecover(p)
      BY <2>5, <3>1, <3>3, PageAssumption DEF MayRecover
    <3> QED
      BY <1>3, <1>8, <3>1, <3>2, <3>4 DEF RecoverableIn
  <2>6. \A q \in Readers, pp \in Payments, kk \in Requested :
          /\ q # r /\ reading'[q].at \in {"fetching", "settling"} /\ RailOf[pp] # "hash"
          /\ reading'[q].by = pp /\ reading'[q].for = kk
          => ~KeptFor(pp, kk)
    BY <1>1, <2>1 DEF NothingKept
  <2>7. \A pp \in Payments, kk \in Requested : KeptFor(pp, kk)' => KeptFor(pp, kk)
    BY <1>1, <1>4, <1>6, <2>2, KeptFades
  <2>8. NothingKept'
    BY <1>1, <1>6, <2>1, <2>5, <2>6, <2>7 DEF NothingKept
  <2> QED
    BY <2>2, <2>3, <2>4, <2>8 DEF PageInv
<1> QED
  BY <1>3, <1>7, <1>8

-----------------------------------------------------------------------------
(***************************************************************************)
(* The page is fetched, or not, and its payment settled, or not.           *)
(***************************************************************************)
LEMMA ReadsOnward ==
  ASSUME ReadingShape, NEW r \in Readers, reading[r].at # "free"
  PROVE  reading[r].by \in Payments /\ reading[r].for \in Requested
BY DEF ReadingShape

LEMMA UnlockedKeeps ==
  ASSUME LocksExclude, NEW r \in Readers, Holds(r), StopsReading(r), inFlight' = Unlocked(r),
         \A q \in Readers : q # r => reading'[q] = reading[q], reading'[r].at = "free"
  PROVE  LocksExclude'
<1>1. \A q \in Readers : Holds(q)' => q # r /\ Holds(q) /\ reading'[q] = reading[q]
  BY DEF Holds
<1>2. ASSUME NEW q \in Readers, q # r, Holds(q), reading[q].locks
      PROVE  LockKey(q) \in inFlight'
  <2>1. LockKey(q) \in inFlight
    BY <1>2 DEF LocksExclude
  <2>2. CASE reading[r].locks
    BY <1>2, <2>1, <2>2 DEF LocksExclude, Unlocked, LockKey
  <2>3. CASE ~reading[r].locks
    BY <2>1, <2>3 DEF Unlocked
  <2> QED
    BY <2>2, <2>3
<1> QED
  BY <1>1, <1>2, LocksLast

LEMMA FetchedStep ==
  ASSUME PageInv, NEW r \in Readers, Fetched(r)
  PROVE  PageInv'
<1>1. PageShape /\ ReadingShape /\ LedgerShape /\ LocksExclude /\ SoldOnce /\ NothingKept /\ age \in Nat
  BY DEF PageInv, PageShape
<1>2. PICK p \in Payments, k \in Requested : p = reading[r].by /\ k = reading[r].for
  BY <1>1, ReadsOnward DEF Fetched
<1>3. /\ reading[r].at = "fetching" /\ To(r, "settling")
      /\ reads' \in {reads, Delivered(reads, p, k)}
      /\ UNCHANGED <<inFlight, onChain, claimed, owed, pages, again, age, pageCrashes>>
  BY <1>2 DEF Fetched
<1>4. /\ ReadingShape' /\ reading'[r].at = "settling"
      /\ reading'[r].by = reading[r].by /\ reading'[r].for = reading[r].for
      /\ reading'[r].locks = reading[r].locks
      /\ \A q \in Readers : q # r => reading'[q] = reading[q]
  BY <1>1, <1>3, ReadingMoves
<1>5. /\ reads' \in [Payments -> PageRows]
      /\ \A q \in Payments : reads'[q] = reads[q] \/ reads'[q] = Row(k)
  BY <1>1, <1>3, DeliveredIs DEF LedgerShape
<1>6. ~Row(k).settled /\ (RecoveryWindow = 0 => ~Row(k).kept)
  <2>1. Row(k).settled = FALSE /\ Row(k).kept = (RecoveryWindow > 0)
    BY RowIs
  <2>2. RecoveryWindow = 0 => ~(RecoveryWindow > 0)
    OBVIOUS
  <2> QED
    BY <2>1, <2>2
<1>7. LedgerShape'
  BY <1>1, <1>5, <1>6 DEF LedgerShape
<1>8. PageShape'
  BY <1>1, <1>3, <1>4, <1>7 DEF PageShape
<1>9. LocksExclude'
  BY <1>1, <1>3, <1>4, LocksLast DEF Holds, LocksExclude
<1>10. SoldOnce'
  BY <1>1, <1>3, <1>4, SoldLast
<1>11. age <= age' /\ pages' = pages /\ again' = again
  BY <1>1, <1>3
<1>12. \A q \in Payments : reads'[q].settled => reads'[q] = reads[q]
  BY <1>5, <1>6
<1>13. NothingKept'
  BY <1>1, <1>3, <1>4, <1>8, <1>11, <1>12, KeptLast
<1> QED
  BY <1>8, <1>9, <1>10, <1>13 DEF PageInv

LEMMA SpendIs ==
  ASSUME PageInv, NEW r \in Readers, reading[r].at = "settling", Spend(r),
         NEW p \in Payments, NEW k \in Requested, p = reading[r].by, k = reading[r].for
  PROVE  /\ onChain \subseteq onChain' /\ claimed \subseteq claimed' /\ again' = again
         /\ onChain' \subseteq Payments /\ claimed' \subseteq Payments
         /\ ~Moved(p) /\ Moved(p)'
<1>2. onChain \subseteq Payments /\ claimed \subseteq Payments
  BY DEF PageInv, PageShape
<1>3. RailOf[p] # "hash" => ~KeptFor(p, k)
  BY DEF PageInv, NothingKept
<1>4. CASE RailOf[p] = "hash"
  <2>1. p \notin claimed /\ claimed' = claimed \cup {p} /\ UNCHANGED <<onChain, again>>
    BY <1>4 DEF Spend
  <2>2. ~Moved(p) /\ Moved(p)'
    BY <1>4, <2>1 DEF Moved
  <2> QED
    BY <1>2, <2>1, <2>2
<1>5. CASE RailOf[p] # "hash"
  <2>1. p \notin onChain /\ onChain' = onChain \cup {p} /\ UNCHANGED <<claimed, again>>
    BY <1>3, <1>5 DEF Spend
  <2>2. ~Moved(p) /\ Moved(p)'
    BY <1>5, <2>1 DEF Moved
  <2> QED
    BY <1>2, <2>1, <2>2
<1> QED
  BY <1>4, <1>5

LEMMA SettleStep ==
  ASSUME PageInv, NEW r \in Readers, Settle(r)
  PROVE  PageInv'
<1>1. PageShape /\ ReadingShape /\ LedgerShape /\ LocksExclude /\ SoldOnce /\ NothingKept /\ age \in Nat
  BY DEF PageInv, PageShape
<1>2. PICK p \in Payments, k \in Requested : p = reading[r].by /\ k = reading[r].for
  BY <1>1, ReadsOnward DEF Settle
<1>3. /\ reading[r].at = "settling" /\ Spend(r) /\ To(r, "settled")
      /\ UNCHANGED <<reads, inFlight, owed, pages, age, pageCrashes>>
  BY DEF Settle
<1>4. /\ ReadingShape' /\ reading'[r].at = "settled"
      /\ reading'[r].by = reading[r].by /\ reading'[r].for = reading[r].for
      /\ reading'[r].locks = reading[r].locks
      /\ \A q \in Readers : q # r => reading'[q] = reading[q]
  BY <1>1, <1>3, ReadingMoves
<1>5. /\ onChain \subseteq onChain' /\ claimed \subseteq claimed' /\ again' = again
      /\ onChain' \subseteq Payments /\ claimed' \subseteq Payments
      /\ ~Moved(p) /\ Moved(p)'
  BY <1>2, <1>3, SpendIs
<1>6. LedgerShape'
  BY <1>1, <1>3 DEF LedgerShape
<1>7. PageShape'
  BY <1>1, <1>3, <1>4, <1>5, <1>6 DEF PageShape
<1>8. LocksExclude'
  BY <1>1, <1>3, <1>4, LocksLast DEF Holds, LocksExclude
<1>9. \A q : Moved(q) => Moved(q)'
  BY <1>5 DEF Moved
<1>10. ASSUME NEW q \in Readers, NEW pp \in Payments, reading'[q].at = "settled", reading'[q].by = pp
       PROVE  /\ Moved(pp)' /\ (\A l \in Requested : pages'[pp][l] = 0)
              /\ \A o \in Readers : reading'[o].at = "settled" /\ reading'[o].by = pp => q = o
  <2>1. CASE q = r
    <3>1. pp = p
      BY <1>2, <1>4, <1>10, <2>1
    <3>2. \A l \in Requested : pages[p][l] = 0
      <4>1. \A l \in Requested : ~(pages[p][l] > 0) /\ pages[p][l] \in Nat
        BY <1>1, <1>5 DEF SoldOnce, PageShape
      <4> QED
        BY <4>1
    <3>3. \A o \in Readers : o # r /\ reading[o].at = "settled" => reading[o].by # p
      BY <1>1, <1>5 DEF SoldOnce
    <3> QED
      BY <1>3, <1>4, <1>5, <2>1, <3>1, <3>2, <3>3
  <2>2. CASE q # r
    <3>1. reading[q].at = "settled" /\ reading[q].by = pp
      BY <1>4, <1>10, <2>2
    <3>2. /\ Moved(pp) /\ (\A l \in Requested : pages[pp][l] = 0)
          /\ \A o \in Readers : reading[o].at = "settled" /\ reading[o].by = pp => q = o
      BY <1>1, <3>1 DEF SoldOnce
    <3>3. pp # p
      BY <1>5, <3>2
    <3> QED
      BY <1>2, <1>3, <1>4, <1>9, <3>2, <3>3
  <2> QED
    BY <2>1, <2>2
<1>11. \A q \in Readers : reading'[q].at = "settled" => reading'[q].by \in Payments
  BY <1>4 DEF ReadingShape
<1>12. \A pp \in Payments, kk, l \in Requested :
         pages'[pp][kk] <= 1 /\ (pages'[pp][kk] > 0 => Moved(pp)')
         /\ (pages'[pp][kk] > 0 /\ pages'[pp][l] > 0 => kk = l)
  BY <1>1, <1>3, <1>9 DEF SoldOnce
<1>13. SoldOnce'
  BY <1>10, <1>11, <1>12 DEF SoldOnce
<1>14. age <= age' /\ pages' = pages
  BY <1>1, <1>3
<1>15. NothingKept'
  BY <1>1, <1>3, <1>4, <1>5, <1>7, <1>14, KeptLast
<1> QED
  BY <1>7, <1>8, <1>13, <1>15 DEF PageInv

LEMMA NotPaidStep ==
  ASSUME PageInv, NEW r \in Readers, NotFetched(r) \/ SettleFails(r)
  PROVE  PageInv'
<1>1. PageShape /\ ReadingShape /\ LedgerShape /\ LocksExclude /\ SoldOnce /\ NothingKept /\ age \in Nat
  BY DEF PageInv, PageShape
<1>2. PICK p \in Payments, k \in Requested : p = reading[r].by /\ k = reading[r].for
  BY <1>1, ReadsOnward DEF NotFetched, SettleFails
<1>3. /\ reading[r].at \in {"fetching", "settling"} /\ StopsReading(r) /\ inFlight' = Unlocked(r)
      /\ UNCHANGED <<reads, pages, age>>
  BY DEF NotFetched, SettleFails
<1>4. /\ ReadingShape' /\ reading'[r].at = "free"
      /\ \A q \in Readers : q # r => reading'[q] = reading[q]
  BY <1>1, <1>3, StopsTo
<1>5. /\ onChain \subseteq onChain' /\ claimed \subseteq claimed' /\ again' = again
      /\ onChain' \subseteq Payments /\ claimed' \subseteq Payments
  <2>1. CASE NotFetched(r)
    BY <1>1, <1>2, <2>1 DEF NotFetched, PageShape
  <2>2. CASE SettleFails(r)
    <3>1. reading[r].at = "settling" /\ (Spend(r) \/ UNCHANGED <<onChain, claimed, again>>)
      BY <2>2 DEF SettleFails
    <3>2. CASE Spend(r)
      BY <1>2, <3>1, <3>2, SpendIs
    <3>3. CASE UNCHANGED <<onChain, claimed, again>>
      BY <1>1, <3>3 DEF PageShape
    <3> QED
      BY <3>1, <3>2, <3>3
  <2> QED
    BY <2>1, <2>2
<1>6. LedgerShape'
  BY <1>1, <1>3 DEF LedgerShape
<1>7. PageShape'
  BY <1>1, <1>3, <1>4, <1>5, <1>6 DEF PageShape
<1>8. LocksExclude'
  BY <1>1, <1>3, <1>4, UnlockedKeeps DEF Holds
<1>9. SoldOnce'
  BY <1>1, <1>3, <1>4, <1>5, SoldLast
<1>10. age <= age' /\ pages' = pages
  BY <1>1, <1>3
<1>11. NothingKept'
  BY <1>1, <1>3, <1>4, <1>5, <1>7, <1>10, KeptLast
<1> QED
  BY <1>7, <1>8, <1>9, <1>11 DEF PageInv

(***************************************************************************)
(* A sale is recorded.  A read that its payer could now be given instead   *)
(* has the same payer and the same request, and would hold the same lock.  *)
(***************************************************************************)
LEMMA RecordStep ==
  ASSUME WalletsKeepToTheirRail, PageInv, NEW r \in Readers, RecordSale(r)
  PROVE  PageInv'
<1>1. PageShape /\ ReadingShape /\ LedgerShape /\ LocksExclude /\ SoldOnce /\ NothingKept /\ age \in Nat
  BY DEF PageInv, PageShape
<1>2. PICK p \in Payments, k \in Requested : p = reading[r].by /\ k = reading[r].for
  BY <1>1, ReadsOnward DEF RecordSale
<1>3. PICK ledger \in {reads, Delivered(reads, p, k)} :
        /\ reading[r].at = "settled"
        /\ reads' = [ledger EXCEPT ![p].settled = TRUE]
        /\ pages' = [pages EXCEPT ![p][k] = @ + 1]
        /\ StopsReading(r) /\ inFlight' = Unlocked(r)
        /\ UNCHANGED <<onChain, claimed, owed, again, age, pageCrashes>>
  BY <1>2 DEF RecordSale
<1>4. /\ ReadingShape' /\ reading'[r].at = "free"
      /\ \A q \in Readers : q # r => reading'[q] = reading[q]
  BY <1>1, <1>3, StopsTo
<1>5. /\ ledger \in [Payments -> PageRows] /\ \A q \in Payments : q # p => ledger[q] = reads[q]
      /\ RecoveryWindow = 0 => ~ledger[p].kept
  <2>1. /\ ledger \in [Payments -> PageRows]
        /\ \A q \in Payments : ledger[q] = reads[q] \/ (q = p /\ ledger[q] = Row(k))
    BY <1>1, <1>3, DeliveredIs DEF LedgerShape
  <2>2. RecoveryWindow = 0 => ~Row(k).kept
    <3>1. Row(k).kept = (RecoveryWindow > 0)
      BY RowIs
    <3>2. RecoveryWindow = 0 => ~(RecoveryWindow > 0)
      OBVIOUS
    <3> QED
      BY <3>1, <3>2
  <2> QED
    BY <1>1, <2>1, <2>2 DEF LedgerShape
<1>6. /\ reads' \in [Payments -> PageRows] /\ \A q \in Payments : q # p => reads'[q] = reads[q]
      /\ RecoveryWindow = 0 => ~reads'[p].kept
  <2>1. PICK row \in PageRows : row = ledger[p]
    BY <1>5
  <2>2. [row EXCEPT !.settled = TRUE] \in PageRows /\ [row EXCEPT !.settled = TRUE].kept = row.kept
    BY DEF PageRows
  <2>3. reads' = [ledger EXCEPT ![p] = [row EXCEPT !.settled = TRUE]]
    BY <1>3, <2>1
  <2> QED
    BY <1>5, <2>1, <2>2, <2>3
<1>7. LedgerShape'
  BY <1>1, <1>6 DEF LedgerShape
<1>8. /\ \A l \in Requested : pages[p][l] = 0
      /\ Moved(p) /\ \A q \in Readers : reading[q].at = "settled" /\ reading[q].by = p => q = r
  BY <1>1, <1>2, <1>3 DEF SoldOnce
<1>9. /\ pages' \in [Payments -> [Requested -> Nat]]
      /\ \A q \in Payments : q # p => pages'[q] = pages[q]
      /\ \A l \in Requested : pages'[p][l] = IF l = k THEN 1 ELSE 0
  <2>1. pages \in [Payments -> [Requested -> Nat]] /\ pages[p] \in [Requested -> Nat]
    BY <1>1 DEF PageShape
  <2>2. pages' = [pages EXCEPT ![p] = [pages[p] EXCEPT ![k] = pages[p][k] + 1]]
    BY <1>3
  <2>3. pages[p][k] + 1 = 1
    BY <1>8
  <2>4. /\ [pages[p] EXCEPT ![k] = 1] \in [Requested -> Nat]
        /\ \A l \in Requested : [pages[p] EXCEPT ![k] = 1][l] = IF l = k THEN 1 ELSE 0
    BY <1>8, <2>1
  <2> QED
    BY <2>1, <2>2, <2>3, <2>4
<1>10. PageShape'
  BY <1>1, <1>3, <1>4, <1>7, <1>9 DEF PageShape
<1>11. LocksExclude'
  BY <1>1, <1>3, <1>4, UnlockedKeeps DEF Holds
<1>12. \A q : Moved(q)' <=> Moved(q)
  BY <1>3 DEF Moved
<1>13. SoldOnce'
  <2>1. ASSUME NEW q \in Readers, reading'[q].at = "settled"
        PROVE  /\ q # r /\ reading[q].at = "settled" /\ reading'[q] = reading[q]
               /\ reading[q].by # p /\ reading[q].by \in Payments
    <3>1. q # r /\ reading[q].at = "settled" /\ reading'[q] = reading[q]
      BY <1>4, <2>1
    <3>2. reading[q].by \in Payments
      BY <1>1, <3>1, ReadsOnward
    <3> QED
      BY <1>8, <3>1, <3>2
  <2>2. ASSUME NEW q \in Readers, NEW pp \in Payments, reading'[q].at = "settled", reading'[q].by = pp
        PROVE  /\ Moved(pp)' /\ (\A l \in Requested : pages'[pp][l] = 0)
               /\ \A o \in Readers : reading'[o].at = "settled" /\ reading'[o].by = pp => o = q
    <3>1. pp # p /\ reading[q].at = "settled" /\ reading[q].by = pp
      BY <2>1, <2>2
    <3>2. /\ Moved(pp) /\ \A l \in Requested : pages[pp][l] = 0
          /\ \A o \in Readers : reading[o].at = "settled" /\ reading[o].by = pp => o = q
      BY <1>1, <3>1 DEF SoldOnce
    <3>3. Moved(pp)' /\ \A l \in Requested : pages'[pp][l] = 0
      BY <1>9, <1>12, <3>1, <3>2
    <3>4. \A o \in Readers : reading'[o].at = "settled" /\ reading'[o].by = pp => o = q
      BY <2>1, <3>2
    <3> QED
      BY <3>3, <3>4
  <2>3. \A pp \in Payments, kk, l \in Requested :
          pages'[pp][kk] <= 1 /\ (pages'[pp][kk] > 0 => Moved(pp)')
          /\ (pages'[pp][kk] > 0 /\ pages'[pp][l] > 0 => kk = l)
    <3>1. ASSUME NEW pp \in Payments, pp # p, NEW kk \in Requested, NEW l \in Requested
          PROVE  /\ pages'[pp][kk] <= 1 /\ (pages'[pp][kk] > 0 => Moved(pp)')
                 /\ pages'[pp][kk] > 0 /\ pages'[pp][l] > 0 => kk = l
      BY <1>1, <1>9, <1>12, <3>1 DEF SoldOnce
    <3>2. ASSUME NEW kk \in Requested, NEW l \in Requested
          PROVE  /\ pages'[p][kk] <= 1 /\ (pages'[p][kk] > 0 => Moved(p)')
                 /\ pages'[p][kk] > 0 /\ pages'[p][l] > 0 => kk = l
      BY <1>8, <1>9, <1>12
    <3> QED
      BY <3>1, <3>2
  <2> QED
    BY <2>1, <2>2, <2>3 DEF SoldOnce
<1>14. ASSUME NEW q \in Readers, NEW pp \in Payments, NEW kk \in Requested,
              reading'[q].at \in {"fetching", "settling"}, RailOf[pp] # "hash",
              reading'[q].by = pp, reading'[q].for = kk, KeptFor(pp, kk)'
       PROVE  FALSE
  <2>1. q # r /\ reading'[q] = reading[q]
    BY <1>4, <1>14
  <2>2. ~KeptFor(pp, kk)
    BY <1>1, <1>14, <2>1 DEF NothingKept
  <2>3. PICK s \in Payments : /\ PayerOf[s] = PayerOf[pp] /\ pages'[s][kk] > 0
                              /\ reads'[s].for = kk /\ reads'[s].settled
                              /\ Unexpired(reads)'[s].kept
    BY <1>14 DEF KeptFor
  <2>4. RailOf[pp] # "x402 wallet"
    BY <1>14 DEF KeptFor
  <2>5. reads'[s].kept /\ reads'[s].born >= age' - RecoveryWindow
    BY <1>6, <2>3, UnexpiredNext
  <2>6. s = p
    <3>1. SUFFICES ASSUME s # p PROVE KeptFor(pp, kk)
      BY <2>2
    <3>2. pages[s][kk] > 0 /\ reads[s].for = kk /\ reads[s].settled
      BY <1>6, <1>9, <2>3, <3>1
    <3>3. Unexpired(reads)[s].kept
      BY <1>1, <1>3, <1>6, <2>5, <3>1, UnexpiredIs
    <3> QED
      BY <2>3, <2>4, <3>2, <3>3 DEF KeptFor
  <2>7. kk = k /\ PayerOf[p] = PayerOf[pp] /\ RailOf[p] # "x402 wallet"
    <3>1. pages'[p][kk] > 0 /\ PayerOf[p] = PayerOf[pp]
      BY <2>3, <2>6
    <3>2. kk = k
      BY <1>9, <3>1
    <3> QED
      BY <2>4, <3>1, <3>2 DEF WalletsKeepToTheirRail
  <2>8. RecoveryWindow > 0
    <3>1. RecoveryWindow # 0
      BY <1>6, <2>5, <2>6
    <3>2. RecoveryWindow \in Nat
      BY PageAssumption
    <3> QED
      BY <3>1, <3>2
  <2>9. TakesLock(p) /\ TakesLock(pp)
    BY <2>4, <2>7, <2>8 DEF TakesLock
  <2>10. reading[r].locks /\ reading[q].locks
    BY <1>1, <1>2, <1>3, <1>14, <2>1, <2>9 DEF ReadingShape
  <2>11. Holds(r) /\ Holds(q) /\ LockKey(r) = LockKey(q)
    BY <1>2, <1>3, <1>14, <2>1, <2>7 DEF Holds, LockKey, KeyOf
  <2> QED
    BY <1>1, <2>1, <2>10, <2>11 DEF LocksExclude
<1>15. NothingKept'
  BY <1>1, <1>3, <1>14 DEF NothingKept
<1> QED
  BY <1>10, <1>11, <1>13, <1>15 DEF PageInv

-----------------------------------------------------------------------------
(***************************************************************************)
(* Time passes; a crash frees the locks and the readers.                   *)
(***************************************************************************)
LEMMA PageTimeStep ==
  ASSUME PageInv, PageTime \/ PageCrash \/ UNCHANGED pageVars
  PROVE  PageInv'
<1>1. PageShape /\ ReadingShape /\ LedgerShape /\ LocksExclude /\ SoldOnce /\ NothingKept /\ age \in Nat
  BY DEF PageInv, PageShape
<1>2. UNCHANGED <<reads, onChain, claimed, pages, again>>
  BY DEF PageTime, PageCrash, pageVars, ClaimsAfterCrash
<1>3. age' \in Nat /\ age <= age'
  <2>1. age' = age \/ age' = age + 1
    BY DEF PageTime, PageCrash, pageVars
  <2> QED
    BY <1>1, <2>1
<1>4. /\ ReadingShape' /\ \A q \in Readers : reading'[q] \in {reading[q], NotReading}
  <2>1. CASE reading' = reading
    BY <1>1, <2>1 DEF ReadingShape, TakesLock, IsX402
  <2>2. CASE reading' = [r \in Readers |-> NotReading]
    BY <2>2, NotReadingIs DEF ReadingShape
  <2> QED
    BY <2>1, <2>2 DEF PageTime, PageCrash, pageVars
<1>5. LedgerShape'
  BY <1>1, <1>2 DEF LedgerShape
<1>6. PageShape'
  BY <1>1, <1>2, <1>3, <1>4, <1>5 DEF PageShape
<1>7. LocksExclude'
  <2>1. CASE reading' = reading /\ inFlight' = inFlight
    BY <1>1, <2>1 DEF LocksExclude, Holds, LockKey, KeyOf
  <2>2. CASE reading' = [r \in Readers |-> NotReading]
    BY <2>2, NotReadingIs DEF LocksExclude, Holds
  <2> QED
    BY <2>1, <2>2 DEF PageTime, PageCrash, pageVars
<1>8. SoldOnce'
  BY <1>1, <1>2, <1>4, NotReadingIs, SoldLast
<1>9. \A q \in Readers : reading'[q].at \in {"fetching", "settling"} => reading'[q] = reading[q]
  BY <1>4, NotReadingIs
<1>10. NothingKept'
  BY <1>1, <1>2, <1>3, <1>6, <1>9, KeptLast
<1> QED
  BY <1>6, <1>7, <1>8, <1>10 DEF PageInv

LEMMA PageInitInv == PageInit => PageInv
<1> SUFFICES ASSUME PageInit PROVE PageInv
  OBVIOUS
<1>1. NoRead \in PageRows /\ ~NoRead.kept
  BY DEF NoRead, PageRows
<1>2. LedgerShape
  BY <1>1 DEF PageInit, LedgerShape
<1>3. ReadingShape /\ \A r \in Readers : reading[r].at = "free"
  BY NotReadingIs DEF PageInit, ReadingShape
<1>4. PageShape
  BY <1>2, <1>3 DEF PageInit, PageShape
<1>5. LocksExclude
  BY <1>3 DEF LocksExclude, Holds
<1>6. SoldOnce
  BY <1>3 DEF PageInit, SoldOnce
<1>7. NothingKept
  BY <1>3 DEF PageInit, NothingKept
<1> QED
  BY <1>4, <1>5, <1>6, <1>7 DEF PageInv

LEMMA StepPageInv == WalletsKeepToTheirRail /\ PageInv /\ [PageNext]_pageVars => PageInv'
BY ArriveStep, EnterStep, FetchedStep, NotPaidStep, SettleStep, RecordStep, PageTimeStep DEF PageNext

(***************************************************************************)
(* However many readers, payers and payments there are, nobody is charged  *)
(* for a page that the service still keeps for him, and no payment is      *)
(* answered with two pages.  The wallets that are contracts are assumed to *)
(* pay by their rail alone: they take no lock, and one that also signed as *)
(* an ordinary account could be charged while its own read is under way    *)
(* (exclusive, recoverable, ReplayStore).                                  *)
(***************************************************************************)
THEOREM RetriesAreFree == WalletsKeepToTheirRail /\ PageSpec => []ARetryIsFree
<1>1. PageInv => ARetryIsFree
  BY DEF PageInv, SoldOnce, NothingKept, ARetryIsFree
<1>2. WalletsKeepToTheirRail => [](WalletsKeepToTheirRail)
  OBVIOUS
<1> QED
  BY <1>1, <1>2, PageInitInv, StepPageInv, PTL DEF PageSpec

-----------------------------------------------------------------------------
(***************************************************************************)
(* The cases: what a client's step does to where it is, and what lasts     *)
(* when no case is decided and no client starts to retry.                  *)
(***************************************************************************)
LEMMA WalksOn ==
  ASSUME CaseShape, NEW r \in Runs, NEW place \in Places, Goes(r, place)
  PROVE  /\ run' \in [Runs -> Walks]
         /\ run'[r].at = place /\ run'[r].of = run[r].of /\ run'[r].passed = run[r].passed
         /\ \A q \in Runs : q # r => run'[q] = run[q]
<1> DEFINE new == [run[r] EXCEPT !.at = place]
<1>1. run[r] \in Walks
  BY DEF CaseShape
<1>2. new \in Walks /\ new.at = place /\ new.of = run[r].of /\ new.passed = run[r].passed
  BY <1>1 DEF Walks
<1>3. run' = [run EXCEPT ![r] = new]
  BY DEF Goes
<1> HIDE DEF new
<1> QED
  BY <1>2, <1>3 DEF CaseShape

LEMMA WalksOnOrDies ==
  ASSUME CaseShape, NEW r \in Runs, NEW place \in Places, Responds(r, place)
  PROVE  /\ run' \in [Runs -> Walks]
         /\ run'[r].at \in {place, "cut off"} /\ run'[r].of = run[r].of
         /\ \A q \in Runs : q # r => run'[q] = run[q]
<1>1. "cut off" \in Places
  BY DEF Places
<1> QED
  BY <1>1, WalksOn DEF Responds

LEMMA CaseStaysSound ==
  ASSUME NEW w, CaseSound(w), decision'[w] = decision[w], tried'[w] = tried[w], retried \subseteq retried'
  PROVE  CaseSound(w)'
BY DEF CaseSound

LEMMA RowsStayFew ==
  ASSUME CaseInv, \A w \in WorkIds : On(w)' => On(w)
  PROVE  Cardinality({w \in WorkIds : On(w)'}) <= MaxRows
<1> DEFINE old == {w \in WorkIds : On(w)}
           new == {w \in WorkIds : On(w)'}
<1>1. new \subseteq old
  OBVIOUS
<1>2. IsFiniteSet(old)
  BY CaseAssumption, FS_Subset
<1>3. Cardinality(old) <= MaxRows
  BY DEF CaseInv, AnsweredIsOnRecord
<1> HIDE DEF old, new
<1>4. Cardinality(new) <= Cardinality(old) /\ IsFiniteSet(new)
  BY <1>1, <1>2, FS_Subset
<1>5. Cardinality(new) \in Nat /\ Cardinality(old) \in Nat /\ MaxRows \in Nat
  BY <1>2, <1>4, FS_CardinalityType, CaseAssumption
<1>6. Cardinality(new) <= MaxRows
  BY <1>3, <1>4, <1>5
<1> QED
  BY <1>6 DEF new

LEMMA CasesLast ==
  ASSUME CaseInv, CaseShape', erased \subseteq erased',
         \A q \in Runs : run'[q].of = run[q].of /\ (run'[q].at = "new" <=> run[q].at = "new"),
         \A q \in Runs : (Retries(q)' => Retries(q)) /\ (run'[q].at = "posting" => q \in retried'),
         \A q \in Runs : q \in retried' \cup answered' => run[q].at # "new",
         \A w \in WorkIds : (On(w)' => On(w)) /\ (w \notin erased' /\ On(w) => On(w)'),
         \A w \in WorkIds : CaseSound(w)',
         \A q \in answered' : run[q].of \notin erased' => tried'[run[q].of].by = q \/ q \in tardy'[run[q].of]
  PROVE  CaseInv'
<1>1. CaseShape /\ CasesFollow
  BY DEF CaseInv
<1>2. \A q \in Runs : Retries(q) => run[q].of \in WorkIds
  BY <1>1 DEF CasesFollow, Retries
<1>3. ASSUME NEW r \in Runs, NEW q \in Runs, Retries(r)', Retries(q)', run'[r].of = run'[q].of,
             run'[r].of \notin erased'
      PROVE  r = q /\ On(run[r].of)'
  <2>1. PICK w \in WorkIds : w = run[r].of /\ w = run[q].of /\ w = run'[r].of /\ Retries(r) /\ Retries(q)
    BY <1>2, <1>3
  <2>2. r = q /\ On(w)
    BY <1>1, <1>3, <2>1 DEF CasesFollow
  <2>3. On(w)'
    BY <1>3, <2>1, <2>2
  <2> QED
    BY <2>1, <2>2, <2>3 DEF On
<1>4. CasesFollow'
  BY <1>1, <1>3 DEF CasesFollow, On
<1>5. \A r, q \in retried' : run'[r].of = run'[q].of /\ run'[r].of \notin erased' => r = q
  BY <1>3 DEF Retries, CaseShape
<1>6. Cardinality({w \in WorkIds : On(w)'}) <= MaxRows
  BY RowsStayFew
<1>7. \A w \in WorkIds :
        /\ decision'[w].status = "retry_resolved" => tried'[w].passed /\ tried'[w].by \in retried'
        /\ decision'[w].status = "retry_in_progress" => decision'[w].lease # "none"
  BY DEF CaseSound
<1>8. AnsweredIsOnRecord'
  BY <1>5, <1>6, <1>7 DEF AnsweredIsOnRecord, CaseShape
<1> QED
  BY <1>4, <1>8 DEF CaseInv

LEMMA WalkKeeps ==
  ASSUME CaseInv, NEW r \in Runs, run[r].at # "new", run'[r].of = run[r].of,
         \A q \in Runs : q # r => run'[q] = run[q],
         run'[r].at \notin {"new", "retrying"}, run'[r].at = "posting" => r \in retried,
         retried' = retried, answered' \subseteq answered \cup {r}
  PROVE  /\ \A q \in Runs : run'[q].of = run[q].of /\ (run'[q].at = "new" <=> run[q].at = "new")
         /\ \A q \in Runs : (Retries(q)' => Retries(q)) /\ (run'[q].at = "posting" => q \in retried')
         /\ \A q \in Runs : q \in retried' \cup answered' => run[q].at # "new"
BY DEF CaseInv, CasesFollow, Retries

CaseFacts ==
  /\ CaseShape /\ CasesFollow /\ AnsweredIsOnRecord
  /\ decision \in [WorkIds -> Decisions] /\ tried \in [WorkIds -> Attempts]
  /\ tardy \in [WorkIds -> SUBSET Runs] /\ run \in [Runs -> Walks]
  /\ retried \subseteq Runs /\ answered \subseteq Runs /\ erased \subseteq WorkIds
  /\ \A w \in WorkIds : CaseSound(w)
  /\ \A q \in answered : run[q].of \notin erased => tried[run[q].of].by = q \/ q \in tardy[run[q].of]
  /\ \A q \in answered : run[q].at # "new" /\ run[q].of \in WorkIds

LEMMA CaseParts == CaseInv => CaseFacts
BY DEF CaseFacts, CaseInv, CaseShape, CasesFollow, AnsweredIsOnRecord

(***************************************************************************)
(* A case is decided, or found decided.                                    *)
(***************************************************************************)
LEMMA WalksTo ==
  ASSUME CaseShape, NEW r \in Runs, NEW place \in Places, NEW w \in WorkIds,
         run' = [run EXCEPT ![r].at = place, ![r].of = w]
  PROVE  /\ run' \in [Runs -> Walks] /\ run'[r].at = place /\ run'[r].of = w
         /\ \A q \in Runs : q # r => run'[q] = run[q]
<1> DEFINE mid == [run[r] EXCEPT !.at = place]
           new == [mid EXCEPT !.of = w]
<1>1. run[r] \in Walks
  BY DEF CaseShape
<1>2. mid \in Walks /\ mid.at = place
  BY <1>1 DEF Walks
<1>3. new \in Walks /\ new.at = place /\ new.of = w
  <2> HIDE DEF mid
  <2> QED
    BY <1>2 DEF Walks
<1>4. run' = [run EXCEPT ![r] = new]
  BY DEF CaseShape
<1>5. run \in [Runs -> Walks]
  BY DEF CaseShape
<1> HIDE DEF mid, new
<1> QED
  BY <1>3, <1>4, <1>5

LEMMA DecideStep ==
  ASSUME CaseInv, NEW r \in Runs, NEW w \in WorkIds, DecideCase(r, w)
  PROVE  CaseInv'
<1>0. CaseFacts
  BY CaseParts
<1> USE <1>0 DEF CaseFacts
<1>1. /\ run[r].at = "new" /\ r \notin retried /\ r \notin answered
      /\ UNCHANGED <<key, tried, tardy, outcomes, retried, answered, erased>>
  BY DEF DecideCase, CasesFollow
<1>2. PICK place \in Places \ {"new", "posting"} :
        /\ run' = [run EXCEPT ![r].at = place, ![r].of = w]
        /\ \/ /\ ~On(w) /\ HasRow
              /\ \/ decision' = [decision EXCEPT ![w] = [status |-> "retry_in_progress", lease |-> "live"]]
                 \/ decision' = [decision EXCEPT ![w] = [status |-> "awaiting_human_review", lease |-> "none"]]
           \/ On(w) /\ place # "retrying" /\ decision' = decision
  <2>1. CASE MayCreate(w) /\ HasRow
    <3>1. PICK retry \in BOOLEAN :
            /\ decision' = [decision EXCEPT ![w] =
                  IF retry THEN [status |-> "retry_in_progress", lease |-> "live"]
                           ELSE [status |-> "awaiting_human_review", lease |-> "none"]]
            /\ \E place \in (IF retry THEN {"retrying", "handing off"} ELSE {"handing off"}) :
                  \/ run' = [run EXCEPT ![r].at = place, ![r].of = w] /\ UNCHANGED troubles
                  \/ Trouble /\ run' = [run EXCEPT ![r].at = "cut off", ![r].of = w]
      BY <2>1 DEF DecideCase, MayCreate
    <3>2. \E place \in {"retrying", "handing off", "cut off"} : run' = [run EXCEPT ![r].at = place, ![r].of = w]
      BY <3>1
    <3>3. \/ decision' = [decision EXCEPT ![w] = [status |-> "retry_in_progress", lease |-> "live"]]
          \/ decision' = [decision EXCEPT ![w] = [status |-> "awaiting_human_review", lease |-> "none"]]
      BY <3>1
    <3> QED
      BY <2>1, <3>2, <3>3 DEF MayCreate, Places
  <2>2. CASE On(w)
    <3>1. /\ decision' = decision
          /\ \E place \in {"reaping", "reporting", "done"} : run' = [run EXCEPT ![r].at = place, ![r].of = w]
      <4> DEFINE place == CASE decision[w].status = "retry_in_progress" -> "reaping"
                            [] decision[w].status = "awaiting_human_review" -> "reporting"
                            [] OTHER -> "done"
      <4>1. decision' = decision /\ run' = [run EXCEPT ![r].at = place, ![r].of = w]
        BY <2>2 DEF DecideCase, MayCreate
      <4>2. place \in {"reaping", "reporting", "done"}
        OBVIOUS
      <4> HIDE DEF place
      <4> QED
        BY <4>1, <4>2
    <3> QED
      BY <2>2, <3>1 DEF Places
  <2> QED
    BY <2>1, <2>2 DEF DecideCase
<1>3. /\ run' \in [Runs -> Walks] /\ run'[r].at = place /\ run'[r].of = w
      /\ \A q \in Runs : q # r => run'[q] = run[q]
  BY <1>2, WalksTo
<1>4. /\ decision' \in [WorkIds -> Decisions] /\ \A v \in WorkIds : v # w => decision'[v] = decision[v]
      /\ decision' # decision => /\ ~On(w) /\ HasRow
                                 /\ decision'[w].status \in {"retry_in_progress", "awaiting_human_review"}
                                 /\ decision'[w].status = "retry_in_progress" => decision'[w].lease # "none"
  <2>1. CASE decision' = decision
    BY <2>1
  <2>2. CASE ~On(w) /\ decision' = [decision EXCEPT ![w] = [status |-> "retry_in_progress", lease |-> "live"]]
    <3>1. [status |-> "retry_in_progress", lease |-> "live"] \in Decisions
      BY DEF Decisions
    <3> QED
      BY <1>2, <2>2, <3>1
  <2>3. CASE ~On(w) /\ decision' = [decision EXCEPT ![w] = [status |-> "awaiting_human_review", lease |-> "none"]]
    <3>1. [status |-> "awaiting_human_review", lease |-> "none"] \in Decisions
      BY DEF Decisions
    <3> QED
      BY <1>2, <2>3, <3>1
  <2> QED
    BY <1>2, <2>1, <2>2, <2>3
<1>5. On(w)' /\ \A v \in WorkIds : v # w => (On(v)' <=> On(v))
  <2>1. CASE decision' = decision
    BY <1>2, <1>4, <2>1 DEF On, NoDecision
  <2>2. CASE decision' # decision
    BY <1>4, <2>2 DEF On, NoDecision
  <2> QED
    BY <2>1, <2>2
<1>6. ASSUME NEW v \in WorkIds PROVE CaseSound(v)'
  <2>1. CASE decision'[v] = decision[v]
    BY <1>1, <2>1, CaseStaysSound
  <2>2. CASE decision'[v] # decision[v]
    <3>1. /\ v = w /\ decision'[w].status \in {"retry_in_progress", "awaiting_human_review"}
          /\ decision'[w].status = "retry_in_progress" => decision'[w].lease # "none"
      BY <1>4, <2>2
    <3>2. CaseSound(w)
      OBVIOUS
    <3> QED
      BY <1>1, <3>1, <3>2 DEF CaseSound, NoDecision
  <2> QED
    BY <2>1, <2>2
<1>7. CaseShape'
  BY <1>1, <1>3, <1>4 DEF CaseShape
<1>8. \A q \in Runs : q # r => (Retries(q)' <=> Retries(q)) /\ run'[q].of = run[q].of
  BY <1>1, <1>3 DEF Retries
<1>9. ASSUME NEW q \in Runs, NEW s \in Runs, Retries(q)', Retries(s)', run'[q].of = run'[s].of,
             run'[q].of \notin erased'
      PROVE  q = s /\ On(run[q].of)'
  <2>1. CASE q # r /\ s # r
    <3>1. Retries(q) /\ Retries(s) /\ run[q].of = run[s].of /\ run[q].of \notin erased
      BY <1>1, <1>8, <1>9, <2>1
    <3>2. run[q].of \in WorkIds
      BY <1>1, <3>1 DEF CasesFollow, Retries
    <3>3. q = s /\ On(run[q].of)
      BY <3>1 DEF CasesFollow
    <3>4. PICK v \in WorkIds : v = run[q].of /\ v = run'[q].of
      BY <1>8, <2>1, <3>2
    <3>5. On(v)'
      BY <1>5, <3>3, <3>4
    <3> QED
      BY <1>8, <3>3, <3>4, <3>5 DEF On
  <2>2. CASE q = r \/ s = r
    <3>1. place = "retrying" /\ ~On(w)
      BY <1>1, <1>2, <1>3, <1>9, <2>2 DEF Retries
    <3>2. run'[q].of = w /\ run'[s].of = w
      BY <1>3, <1>9, <2>2
    <3>3. \A x \in Runs : x # r /\ Retries(x)' => run'[x].of # w
      BY <1>1, <1>8, <1>9, <3>1, <3>2 DEF CasesFollow
    <3> QED
      BY <1>5, <1>9, <3>2, <3>3 DEF On
  <2> QED
    BY <2>1, <2>2
<1>10. CasesFollow'
  BY <1>1, <1>2, <1>3, <1>6, <1>8, <1>9 DEF CasesFollow, On
<1>11. Cardinality({v \in WorkIds : On(v)'}) <= MaxRows
  <2>1. CASE On(w)
    BY <1>5, <2>1, RowsStayFew
  <2>2. CASE ~On(w)
    <3> DEFINE old == {v \in WorkIds : On(v)}
               new == {v \in WorkIds : On(v)'}
    <3>1. new \subseteq old \cup {w} /\ w \notin old
      BY <1>5, <2>2
    <3>2. IsFiniteSet(old)
      BY CaseAssumption, FS_Subset
    <3>3. Cardinality(old) < MaxRows
      BY <1>2, <2>2 DEF HasRow
    <3> HIDE DEF old, new
    <3>4. IsFiniteSet(old \cup {w}) /\ Cardinality(old \cup {w}) = Cardinality(old) + 1
      BY <3>1, <3>2, FS_AddElement
    <3>5. Cardinality(new) <= Cardinality(old \cup {w}) /\ IsFiniteSet(new)
      BY <3>1, <3>4, FS_Subset
    <3>6. Cardinality(new) \in Nat /\ Cardinality(old) \in Nat /\ MaxRows \in Nat
      BY <3>2, <3>5, FS_CardinalityType, CaseAssumption
    <3>7. Cardinality(new) <= MaxRows
      BY <3>3, <3>4, <3>5, <3>6
    <3> QED
      BY <3>7 DEF new
  <2> QED
    BY <2>1, <2>2
<1>12. \A q, s \in retried' : run'[q].of = run'[s].of /\ run'[q].of \notin erased' => q = s
  BY <1>1, <1>9 DEF Retries
<1>13. \A q \in answered' : run'[q].of \notin erased' => tried'[run'[q].of].by = q \/ q \in tardy'[run'[q].of]
  BY <1>1, <1>8
<1>14. \A v \in WorkIds :
         /\ decision'[v].status = "retry_resolved" => tried'[v].passed /\ tried'[v].by \in retried'
         /\ decision'[v].status = "retry_in_progress" => decision'[v].lease # "none"
  BY <1>6 DEF CaseSound
<1>15. AnsweredIsOnRecord'
  BY <1>11, <1>12, <1>13, <1>14 DEF AnsweredIsOnRecord
<1> QED
  BY <1>7, <1>10, <1>15 DEF CaseInv

-----------------------------------------------------------------------------
(***************************************************************************)
(* The retry, and its result: posted, lost and posted again.               *)
(***************************************************************************)
LEMMA RetryStep ==
  ASSUME CaseInv, NEW r \in Runs, RetryLocally(r)
  PROVE  CaseInv'
<1>0. CaseFacts
  BY CaseParts
<1> USE <1>0 DEF CaseFacts
<1>1. /\ run[r].at = "retrying" /\ retried' = retried \cup {r}
      /\ UNCHANGED <<key, decision, tried, tardy, outcomes, answered, erased, troubles>>
  BY DEF RetryLocally
<1>2. PICK passed \in BOOLEAN : run' = [run EXCEPT ![r].at = "posting", ![r].passed = passed]
  BY DEF RetryLocally
<1>3. /\ run' \in [Runs -> Walks] /\ run'[r].at = "posting" /\ run'[r].of = run[r].of
      /\ \A q \in Runs : q # r => run'[q] = run[q]
  <2> DEFINE mid == [run[r] EXCEPT !.at = "posting"]
             new == [mid EXCEPT !.passed = passed]
  <2>1. run[r] \in Walks
    OBVIOUS
  <2>2. mid \in Walks /\ mid.at = "posting" /\ mid.of = run[r].of
    BY <2>1 DEF Walks, Places
  <2>3. new \in Walks /\ new.at = "posting" /\ new.of = run[r].of
    <3> HIDE DEF mid
    <3> QED
      BY <2>2 DEF Walks
  <2>4. run' = [run EXCEPT ![r] = new]
    BY <1>2
  <2> HIDE DEF mid, new
  <2> QED
    BY <2>3, <2>4
<1>4. CaseShape'
  BY <1>1, <1>3 DEF CaseShape
<1>5. /\ \A q \in Runs : run'[q].of = run[q].of /\ (run'[q].at = "new" <=> run[q].at = "new")
      /\ \A q \in Runs : (Retries(q)' => Retries(q)) /\ (run'[q].at = "posting" => q \in retried')
      /\ \A q \in Runs : q \in retried' \cup answered' => run[q].at # "new"
  BY <1>1, <1>3 DEF CasesFollow, Retries
<1>6. /\ \A w \in WorkIds : (On(w)' => On(w)) /\ (w \notin erased' /\ On(w) => On(w)')
      /\ erased \subseteq erased' /\ retried \subseteq retried'
  BY <1>1 DEF On
<1>7. \A w \in WorkIds : CaseSound(w)'
  BY <1>1, <1>6, CaseStaysSound
<1>8. \A q \in answered' : run[q].of \notin erased' => tried'[run[q].of].by = q \/ q \in tardy'[run[q].of]
  BY <1>1
<1> QED
  BY <1>4, <1>5, <1>6, <1>7, <1>8, CasesLast

\* What the case's first attempt makes of it.
FirstRecorded(r, w, b) ==
  /\ tried' \in [WorkIds -> Attempts] /\ tried'[w].by = r /\ tried'[w].passed = b
  /\ tried'[w] # NotTried
  /\ \A v \in WorkIds : v # w => tried'[v] = tried[v]
  /\ On(w) /\ \A q \in Runs : tried[w].by # q

LEMMA AttemptIs ==
  ASSUME CaseInv, NEW r \in Runs, run[r].of \in WorkIds, run[r].passed \in BOOLEAN,
         FirstAttempt(r), tried' = RecordedBy(r)
  PROVE  FirstRecorded(r, run[r].of, run[r].passed)
<1> DEFINE w == run[r].of
           b == run[r].passed
<1> SUFFICES FirstRecorded(r, w, b)
  OBVIOUS
<1>0. w \in WorkIds /\ b \in BOOLEAN /\ w = run[r].of /\ b = run[r].passed
  OBVIOUS
<1> HIDE DEF w, b
<1> DEFINE new == [by |-> r, passed |-> b]
<1>1. tried \in [WorkIds -> Attempts]
  BY CaseParts DEF CaseFacts
<1>3. new \in Attempts /\ new.by = r /\ new.passed = b
  BY <1>0 DEF Attempts
<1>4. r # "nobody" /\ \A q \in Runs : q # "nobody"
  BY CaseAssumption
<1>5. tried' = [tried EXCEPT ![w] = new] /\ On(w) /\ tried[w] = NotTried
  BY <1>0 DEF RecordedBy, FirstAttempt
<1>6. new # NotTried /\ NotTried.by = "nobody"
  BY <1>3, <1>4 DEF NotTried
<1> HIDE DEF new
<1>7. tried'[w] = new /\ tried' \in [WorkIds -> Attempts] /\ \A v \in WorkIds : v # w => tried'[v] = tried[v]
  BY <1>0, <1>1, <1>3, <1>5
<1> QED
  BY <1>3, <1>4, <1>5, <1>6, <1>7 DEF FirstRecorded

LEMMA SetsStatus ==
  ASSUME CaseInv, NEW w \in WorkIds, NEW passed \in BOOLEAN,
         decision' = [decision EXCEPT ![w] = [status |-> StatusBy(passed), lease |-> "none"]]
  PROVE  /\ decision' \in [WorkIds -> Decisions] /\ On(w)'
         /\ \A v \in WorkIds : v # w => decision'[v] = decision[v]
         /\ decision'[w].status = StatusBy(passed)
         /\ StatusBy(passed) \in {"retry_resolved", "awaiting_human_review"}
         /\ StatusBy(passed) = "retry_resolved" <=> passed
<1> DEFINE new == [status |-> StatusBy(passed), lease |-> "none"]
<1>1. /\ StatusBy(passed) \in {"retry_resolved", "awaiting_human_review"}
      /\ StatusBy(passed) = "retry_resolved" <=> passed
  BY DEF StatusBy
<1>2. new \in Decisions /\ new.status = StatusBy(passed) /\ new # NoDecision
  BY <1>1 DEF Decisions, NoDecision
<1>3. decision' = [decision EXCEPT ![w] = new] /\ decision \in [WorkIds -> Decisions]
  BY CaseParts DEF CaseFacts
<1> HIDE DEF new
<1>4. /\ decision' \in [WorkIds -> Decisions] /\ decision'[w] = new
      /\ \A v \in WorkIds : v # w => decision'[v] = decision[v]
  BY <1>2, <1>3
<1> QED
  BY <1>1, <1>2, <1>4 DEF On

LEMMA PostingIs ==
  ASSUME CaseInv, NEW r \in Runs, run[r].at = "posting"
  PROVE  r \in retried /\ run[r].of \in WorkIds /\ run[r].passed \in BOOLEAN
<1>1. run[r] \in Walks
  BY CaseParts DEF CaseFacts
<1> QED
  BY <1>1 DEF CaseInv, CasesFollow, Walks

\* Whose result was answered is on record, if the record only grew and r's is on it.
LEMMA AnswersLast ==
  ASSUME CaseInv, NEW r \in Runs, NEW w \in WorkIds, w = run[r].of, erased' = erased,
         answered' \subseteq answered \cup {r}, r \in answered' => tried'[w].by = r \/ r \in tardy'[w],
         \A v \in WorkIds : tardy[v] \subseteq tardy'[v],
         \A v \in WorkIds, q \in Runs : tried[v].by = q => tried'[v].by = q
  PROVE  \A q \in answered' : run[q].of \notin erased' => tried'[run[q].of].by = q \/ q \in tardy'[run[q].of]
<1>1. SUFFICES ASSUME NEW q \in answered', run[q].of \notin erased
               PROVE  tried'[run[q].of].by = q \/ q \in tardy'[run[q].of]
  OBVIOUS
<1>2. CASE q = r
  BY <1>2
<1>3. CASE q # r
  <2>1. q \in answered /\ q \in Runs
    BY <1>3, CaseParts DEF CaseFacts
  <2>2. PICK v \in WorkIds : v = run[q].of
    BY <2>1, CaseParts DEF CaseFacts
  <2>3. tried[v].by = q \/ q \in tardy[v]
    BY <1>1, <2>1, <2>2, CaseParts DEF CaseFacts
  <2>4. tried'[v].by = q \/ q \in tardy'[v]
    BY <2>1, <2>3
  <2> QED
    BY <2>2, <2>4
<1> QED
  BY <1>2, <1>3

LEMMA PostStep ==
  ASSUME CaseInv, NEW r \in Runs, PostAttempt(r)
  PROVE  CaseInv'
<1>0. CaseFacts
  BY CaseParts
<1>01. /\ decision \in [WorkIds -> Decisions] /\ tried \in [WorkIds -> Attempts]
      /\ tardy \in [WorkIds -> SUBSET Runs] /\ run \in [Runs -> Walks]
      /\ retried \subseteq Runs /\ answered \subseteq Runs /\ erased \subseteq WorkIds
  BY <1>0 DEF CaseFacts
<1>02. CaseShape /\ CasesFollow /\ \A v \in WorkIds : CaseSound(v)
  BY <1>0 DEF CaseFacts
<1>10. run[r].at = "posting"
  BY DEF PostAttempt
<1>1. answered' = answered \cup {r} /\ UNCHANGED <<key, outcomes, retried, erased>>
  BY DEF PostAttempt
<1>2. PICK w \in WorkIds : w = run[r].of /\ r \in retried
  BY <1>10, PostingIs
<1>20. PICK b \in BOOLEAN : b = run[r].passed
  BY <1>10, PostingIs
<1>3. PICK place \in {"done", "handing off"} : Responds(r, place)
  BY DEF PostAttempt
<1>4. /\ run' \in [Runs -> Walks]
      /\ run'[r].at \in {place, "cut off"} /\ run'[r].of = run[r].of
      /\ \A q \in Runs : q # r => run'[q] = run[q]
  BY <1>02, <1>3, WalksOnOrDies DEF Places
<1>5. /\ \A q \in Runs : run'[q].of = run[q].of /\ (run'[q].at = "new" <=> run[q].at = "new")
      /\ \A q \in Runs : (Retries(q)' => Retries(q)) /\ (run'[q].at = "posting" => q \in retried')
      /\ \A q \in Runs : q \in retried' \cup answered' => run[q].at # "new"
  BY <1>1, <1>10, <1>4, WalkKeeps
<1>6. CASE FirstAttempt(r) /\ tried' = RecordedBy(r) /\ RecordAttemptAs(r, StatusBy(run[r].passed)) /\ UNCHANGED tardy
  <2>1. /\ tried' \in [WorkIds -> Attempts] /\ tried'[w].by = r /\ tried'[w].passed = b
        /\ tried'[w] # NotTried
        /\ \A v \in WorkIds : v # w => tried'[v] = tried[v]
        /\ On(w) /\ \A q \in Runs : tried[w].by # q
    <3>1. run[r].of \in WorkIds /\ run[r].passed \in BOOLEAN
      BY <1>2, <1>20
    <3>2. FirstRecorded(r, run[r].of, run[r].passed)
      BY <1>6, <3>1, AttemptIs
    <3> QED
      BY <1>2, <1>20, <3>2 DEF FirstRecorded
  <2>2. decision' = [decision EXCEPT ![w] = [status |-> StatusBy(b), lease |-> "none"]]
    BY <1>2, <1>20, <1>6 DEF RecordAttemptAs
  <2>3. /\ decision' \in [WorkIds -> Decisions] /\ On(w)'
        /\ \A v \in WorkIds : v # w => decision'[v] = decision[v]
        /\ decision'[w].status = StatusBy(b)
        /\ StatusBy(b) \in {"retry_resolved", "awaiting_human_review"}
        /\ StatusBy(b) = "retry_resolved" <=> b
    BY <1>2, <2>2, SetsStatus
  <2>4. CaseShape'
    BY <1>01, <1>1, <1>4, <1>6, <2>1, <2>3 DEF CaseShape
  <2>5. /\ \A v \in WorkIds : (On(v)' => On(v)) /\ (v \notin erased' /\ On(v) => On(v)')
        /\ erased \subseteq erased'
    BY <1>1, <2>1, <2>3 DEF On
  <2>6. CaseSound(w)'
    <3>1. r # "nobody"
      BY CaseAssumption
    <3>2. decision'[w].status \in {"retry_resolved", "awaiting_human_review"}
      BY <2>3
    <3>3. decision'[w].status = "retry_resolved" => tried'[w].passed
      BY <2>1, <2>3
    <3>4. tried'[w].by = r /\ tried'[w] # NotTried
      BY <2>1
    <3>5. r \in retried'
      BY <1>1, <1>2
    <3>6. decision'[w] # NoDecision
      <4>1. NoDecision.status = "none"
        BY DEF NoDecision
      <4> QED
        BY <3>2, <4>1
    <3> QED
      BY <3>1, <3>2, <3>3, <3>4, <3>5, <3>6 DEF CaseSound
  <2>7. \A v \in WorkIds : CaseSound(v)'
    BY <1>1, <2>1, <2>3, <2>6, <1>02, CaseStaysSound
  <2>8. \A q \in answered' : run[q].of \notin erased' => tried'[run[q].of].by = q \/ q \in tardy'[run[q].of]
    <3>1. \A v \in WorkIds : tardy[v] \subseteq tardy'[v]
      BY <1>6
    <3>2. \A v \in WorkIds, q \in Runs : tried[v].by = q => tried'[v].by = q
      BY <2>1
    <3> QED
      BY <1>1, <1>2, <2>1, <3>1, <3>2, AnswersLast
  <2> QED
    BY <1>5, <2>4, <2>5, <2>7, <2>8, CasesLast
<1>7. CASE UNCHANGED <<decision, tried>> /\ ((tried[w].by = r /\ UNCHANGED tardy) \/ tardy' = LateKept(r))
  <2>1. /\ tardy' \in [WorkIds -> SUBSET Runs] /\ \A v \in WorkIds : tardy[v] \subseteq tardy'[v]
        /\ tried[w].by = r \/ r \in tardy'[w]
    <3>1. CASE tried[w].by = r /\ UNCHANGED tardy
      BY <1>01, <3>1
    <3>2. CASE tardy' = LateKept(r)
      <4>1. tardy' = [tardy EXCEPT ![w] = tardy[w] \cup {r}]
        BY <1>2, <3>2 DEF LateKept
      <4> QED
        BY <1>01, <4>1
    <3> QED
      BY <1>7, <3>1, <3>2
  <2>2. CaseShape'
    BY <1>01, <1>1, <1>4, <1>7, <2>1 DEF CaseShape
  <2>3. /\ \A v \in WorkIds : (On(v)' => On(v)) /\ (v \notin erased' /\ On(v) => On(v)')
        /\ erased \subseteq erased'
    BY <1>1, <1>7 DEF On
  <2>4. \A v \in WorkIds : CaseSound(v)'
    BY <1>1, <1>7, <1>02, CaseStaysSound
  <2>5. \A q \in answered' : run[q].of \notin erased' => tried'[run[q].of].by = q \/ q \in tardy'[run[q].of]
    <3>1. tried' = tried
      BY <1>7
    <3> QED
      BY <1>1, <1>2, <2>1, <3>1, AnswersLast
  <2> QED
    BY <1>5, <2>2, <2>3, <2>4, <2>5, CasesLast
<1> QED
  BY <1>2, <1>6, <1>7 DEF PostAttempt

LEMMA PostDiesStep ==
  ASSUME CaseInv, NEW r \in Runs, PostAttemptDies(r)
  PROVE  CaseInv'
<1>0. CaseFacts
  BY CaseParts
<1>01. /\ decision \in [WorkIds -> Decisions] /\ tried \in [WorkIds -> Attempts]
      /\ tardy \in [WorkIds -> SUBSET Runs] /\ run \in [Runs -> Walks]
      /\ retried \subseteq Runs /\ answered \subseteq Runs /\ erased \subseteq WorkIds
  BY <1>0 DEF CaseFacts
<1>02. CaseShape /\ CasesFollow /\ \A v \in WorkIds : CaseSound(v)
  BY <1>0 DEF CaseFacts
<1>10. run[r].at = "posting"
  BY DEF PostAttemptDies
<1>1. /\ FirstAttempt(r) /\ tried' = RecordedBy(r) /\ Goes(r, "cut off")
      /\ UNCHANGED <<key, decision, tardy, outcomes, retried, answered, erased>>
  BY DEF PostAttemptDies
<1>2. PICK w \in WorkIds : w = run[r].of /\ r \in retried
  BY <1>10, PostingIs
<1>20. PICK b \in BOOLEAN : b = run[r].passed
  BY <1>10, PostingIs
<1>3. /\ run' \in [Runs -> Walks]
      /\ run'[r].at = "cut off" /\ run'[r].of = run[r].of
      /\ \A q \in Runs : q # r => run'[q] = run[q]
  BY <1>02, <1>1, WalksOn DEF Places
<1>4. /\ \A q \in Runs : run'[q].of = run[q].of /\ (run'[q].at = "new" <=> run[q].at = "new")
      /\ \A q \in Runs : (Retries(q)' => Retries(q)) /\ (run'[q].at = "posting" => q \in retried')
      /\ \A q \in Runs : q \in retried' \cup answered' => run[q].at # "new"
  BY <1>1, <1>10, <1>3, WalkKeeps
<1>5. /\ tried' \in [WorkIds -> Attempts] /\ tried'[w].by = r /\ tried'[w].passed = b
      /\ tried'[w] # NotTried
      /\ \A v \in WorkIds : v # w => tried'[v] = tried[v]
      /\ On(w) /\ \A q \in Runs : tried[w].by # q
  <2>1. run[r].of \in WorkIds /\ run[r].passed \in BOOLEAN
    BY <1>2, <1>20
  <2>2. FirstRecorded(r, run[r].of, run[r].passed)
    BY <1>1, <2>1, AttemptIs
  <2> QED
    BY <1>2, <1>20, <2>2 DEF FirstRecorded
<1>6. CaseShape'
  BY <1>01, <1>1, <1>3, <1>5 DEF CaseShape
<1>7. /\ \A v \in WorkIds : (On(v)' => On(v)) /\ (v \notin erased' /\ On(v) => On(v)')
      /\ erased \subseteq erased'
  BY <1>1 DEF On
<1>8. CaseSound(w)'
  <2>1. r # "nobody" /\ CaseSound(w)
    BY <1>02, CaseAssumption
  <2>2. ~tried[w].passed
    <3>1. tried[run[r].of] = NotTried
      BY <1>1 DEF FirstAttempt
    <3>2. w = run[r].of
      BY <1>2
    <3>3. tried[w] = NotTried
      BY <3>1, <3>2
    <3> QED
      BY <3>3 DEF NotTried
  <2> QED
    BY <1>1, <1>2, <1>5, <2>1, <2>2 DEF CaseSound
<1>9. \A v \in WorkIds : CaseSound(v)'
  BY <1>1, <1>5, <1>8, <1>02, CaseStaysSound
<1>11. \A q \in answered' : run[q].of \notin erased' => tried'[run[q].of].by = q \/ q \in tardy'[run[q].of]
  <2>1. \A v \in WorkIds, q \in Runs : tried[v].by = q => tried'[v].by = q
    BY <1>5
  <2>2. \A v \in WorkIds : tardy[v] \subseteq tardy'[v]
    BY <1>1
  <2>3. erased' = erased /\ answered' \subseteq answered \cup {r}
    BY <1>1
  <2>4. w = run[r].of /\ tried'[w].by = r
    BY <1>2, <1>5
  <2> QED
    BY <2>1, <2>2, <2>3, <2>4, AnswersLast
<1> QED
  BY <1>4, <1>6, <1>7, <1>9, <1>11, CasesLast

-----------------------------------------------------------------------------
(***************************************************************************)
(* What changes no attempt but the reaper's: the cases that are asked for, *)
(* reviewed, reaped or abandoned.                                          *)
(***************************************************************************)
LEMMA CasesRest ==
  ASSUME CaseInv, NEW r \in Runs, run[r].at # "new", run' \in [Runs -> Walks],
         run'[r].of = run[r].of, \A q \in Runs : q # r => run'[q] = run[q],
         run'[r].at \notin {"new", "retrying"}, run'[r].at = "posting" => r \in retried,
         retried' = retried, answered' = answered, erased' = erased, tardy' = tardy,
         decision' \in [WorkIds -> Decisions], tried' \in [WorkIds -> Attempts],
         \A w \in WorkIds : On(w)' <=> On(w), \A w \in WorkIds : CaseSound(w)',
         \A w \in WorkIds : tried'[w] = tried[w] \/ tried[w] = NotTried
  PROVE  CaseInv'
<1>1. CaseShape'
  BY CaseParts DEF CaseFacts, CaseShape
<1>2. /\ \A q \in Runs : run'[q].of = run[q].of /\ (run'[q].at = "new" <=> run[q].at = "new")
      /\ \A q \in Runs : (Retries(q)' => Retries(q)) /\ (run'[q].at = "posting" => q \in retried')
      /\ \A q \in Runs : q \in retried' \cup answered' => run[q].at # "new"
  BY WalkKeeps
<1>3. \A w \in WorkIds, q \in Runs : tried[w].by = q => tried'[w].by = q
  <2>1. \A q \in Runs : q # "nobody"
    BY CaseAssumption
  <2> QED
    BY <2>1 DEF NotTried
<1>4. ASSUME NEW q \in answered', run[q].of \notin erased'
      PROVE  tried'[run[q].of].by = q \/ q \in tardy'[run[q].of]
  <2>1. PICK w \in WorkIds : w = run[q].of
    BY <1>4, CaseParts DEF CaseFacts
  <2>2. tried[w].by = q \/ q \in tardy[w]
    BY <1>4, <2>1, CaseParts DEF CaseFacts
  <2>3. q \in Runs
    BY <1>4, CaseParts DEF CaseFacts
  <2>4. tried'[w].by = q \/ q \in tardy'[w]
    BY <1>3, <2>2, <2>3
  <2> QED
    BY <2>1, <2>4
<1> QED
  BY <1>1, <1>2, <1>4, CasesLast

LEMMA NothingDecided ==
  ASSUME CaseInv, UNCHANGED <<decision, tried>>, retried' = retried
  PROVE  /\ decision' \in [WorkIds -> Decisions] /\ tried' \in [WorkIds -> Attempts]
         /\ \A w \in WorkIds : On(w)' <=> On(w)
         /\ \A w \in WorkIds : CaseSound(w)'
         /\ \A w \in WorkIds : tried'[w] = tried[w]
<1>1. \A w \in WorkIds : CaseSound(w)'
  BY CaseParts, CaseStaysSound DEF CaseFacts
<1> QED
  BY <1>1, CaseParts DEF CaseFacts, On

LEMMA AskStep ==
  ASSUME CaseInv, NEW r \in Runs, PostAgain(r) \/ ReadReport(r) \/ CutOff(r)
  PROVE  CaseInv'
<1>1. CaseShape
  BY CaseParts DEF CaseFacts
<1>2. run[r].at # "new"
  BY DEF PostAgain, ReadReport, CutOff
<1>3. UNCHANGED <<decision, tried, tardy, retried, answered, erased>>
  BY DEF PostAgain, ReadReport, CutOff
<1>4. PICK place \in {"posting", "handing off", "done", "cut off"} :
        Goes(r, place) /\ (place = "posting" => r \in retried)
  <2>1. CASE PostAgain(r)
    BY <2>1 DEF PostAgain
  <2>2. CASE ReadReport(r)
    <3>1. PICK place \in {"handing off", "done"} : Goes(r, place)
      <4> DEFINE place == IF On(run[r].of) /\ outcomes[run[r].of] = 0 THEN "handing off" ELSE "done"
      <4>1. place \in {"handing off", "done"}
        OBVIOUS
      <4>2. Goes(r, place)
        BY <2>2 DEF ReadReport
      <4> HIDE DEF place
      <4> QED
        BY <4>1, <4>2
    <3> QED
      BY <3>1
  <2>3. CASE CutOff(r)
    BY <2>3 DEF CutOff
  <2> QED
    BY <2>1, <2>2, <2>3
<1>5. place \in Places
  BY DEF Places
<1>6. /\ run' \in [Runs -> Walks] /\ run'[r].at = place /\ run'[r].of = run[r].of
      /\ \A q \in Runs : q # r => run'[q] = run[q]
  BY <1>1, <1>4, <1>5, WalksOn
<1>7. /\ decision' \in [WorkIds -> Decisions] /\ tried' \in [WorkIds -> Attempts]
      /\ \A w \in WorkIds : On(w)' <=> On(w)
      /\ \A w \in WorkIds : CaseSound(w)'
      /\ \A w \in WorkIds : tried'[w] = tried[w]
  BY <1>3, NothingDecided
<1>8. retried' = retried /\ answered' = answered /\ erased' = erased /\ tardy' = tardy
  BY <1>3
<1> QED
  BY <1>2, <1>4, <1>6, <1>7, <1>8, CasesRest

LEMMA ReviewStep ==
  ASSUME CaseInv, NEW r \in Runs, RecordReview(r)
  PROVE  CaseInv'
<1>1. CaseShape /\ decision \in [WorkIds -> Decisions] /\ tried \in [WorkIds -> Attempts]
  BY CaseParts DEF CaseFacts
<1>2. run[r].at # "new"
  BY DEF RecordReview
<1>3. PICK w \in WorkIds : w = run[r].of
  BY <1>2 DEF CaseInv, CasesFollow
<1>4. On(w) /\ decision' = [decision EXCEPT ![w].status = "resolved"] /\ Goes(r, "done")
  BY <1>3 DEF RecordReview
<1>5. retried' = retried /\ answered' = answered /\ erased' = erased /\ tardy' = tardy /\ tried' = tried
  BY DEF RecordReview
<1>6. /\ run' \in [Runs -> Walks] /\ run'[r].at = "done" /\ run'[r].of = run[r].of
      /\ \A q \in Runs : q # r => run'[q] = run[q]
  BY <1>1, <1>4, WalksOn DEF Places
<1>7. /\ decision' \in [WorkIds -> Decisions] /\ decision'[w].status = "resolved"
      /\ \A v \in WorkIds : v # w => decision'[v] = decision[v]
  <2> DEFINE new == [decision[w] EXCEPT !.status = "resolved"]
  <2>1. decision[w] \in Decisions
    BY <1>1
  <2>2. new \in Decisions /\ new.status = "resolved"
    BY <2>1 DEF Decisions
  <2>3. decision' = [decision EXCEPT ![w] = new]
    BY <1>4
  <2> HIDE DEF new
  <2> QED
    BY <1>1, <2>2, <2>3
<1>8. NoDecision.status = "none" /\ decision'[w] # NoDecision
  BY <1>7 DEF NoDecision
<1>9. \A v \in WorkIds : On(v)' <=> On(v)
  BY <1>4, <1>7, <1>8 DEF On
<1>10. CaseSound(w)'
  <2>1. CaseSound(w)
    BY CaseParts DEF CaseFacts
  <2> QED
    BY <1>5, <1>7, <1>8, <2>1 DEF CaseSound
<1>11. \A v \in WorkIds : CaseSound(v)'
  BY <1>5, <1>7, <1>10, CaseParts, CaseStaysSound DEF CaseFacts
<1>12. tried' \in [WorkIds -> Attempts]
  BY <1>1, <1>5
<1> QED
  BY <1>2, <1>5, <1>6, <1>7, <1>9, <1>11, <1>12, CasesRest

(***************************************************************************)
(* The sweep of the retries whose lease ran out.                           *)
(***************************************************************************)
LEMMA ReapedIs ==
  ASSUME CaseInv, NEW w \in WorkIds, Reaped(w), retried' = retried
  PROVE  /\ decision' \in [WorkIds -> Decisions] /\ tried' \in [WorkIds -> Attempts]
         /\ \A v \in WorkIds : On(v)' <=> On(v)
         /\ \A v \in WorkIds : CaseSound(v)'
         /\ \A v \in WorkIds : tried'[v] = tried[v] \/ tried[v] = NotTried
<1>1. /\ decision \in [WorkIds -> Decisions] /\ tried \in [WorkIds -> Attempts]
      /\ \A v \in WorkIds : CaseSound(v)
  BY CaseParts DEF CaseFacts
<1>2. CASE ~StaleCase(w)
  <2>1. UNCHANGED <<decision, tried>>
    BY <1>2 DEF Reaped
  <2> QED
    BY <2>1, NothingDecided
<1>3. CASE StaleCase(w)
  <2>1. PICK b \in BOOLEAN : b = tried[w].passed
    <3>1. tried[w] \in Attempts
      BY <1>1
    <3> QED
      BY <3>1 DEF Attempts
  <2>2. decision' = [decision EXCEPT ![w] = [status |-> StatusBy(b), lease |-> "none"]]
    BY <1>3, <2>1 DEF Reaped
  <2>3. /\ decision' \in [WorkIds -> Decisions] /\ On(w)'
        /\ \A v \in WorkIds : v # w => decision'[v] = decision[v]
        /\ decision'[w].status = StatusBy(b)
        /\ StatusBy(b) \in {"retry_resolved", "awaiting_human_review"}
        /\ StatusBy(b) = "retry_resolved" <=> b
    BY <2>2, SetsStatus
  <2>4. On(w)
    BY <1>3 DEF StaleCase, On, NoDecision
  <2>5. \A v \in WorkIds : On(v)' <=> On(v)
    BY <2>3, <2>4 DEF On
  <2>6. NoDecision.status = "none" /\ decision'[w].status # "none"
    BY <2>3 DEF NoDecision
  <2>7. CASE tried[w] = NotTried
    <3> DEFINE new == [by |-> "the reaper", passed |-> FALSE]
    <3>1. new \in Attempts /\ new.by = "the reaper" /\ ~new.passed /\ new # NotTried
      BY DEF Attempts, NotTried
    <3>2. tried' = [tried EXCEPT ![w] = new]
      BY <1>3, <2>7 DEF Reaped, ReapsCase
    <3> HIDE DEF new
    <3>3. /\ tried' \in [WorkIds -> Attempts] /\ tried'[w] = new
          /\ \A v \in WorkIds : v # w => tried'[v] = tried[v]
      BY <1>1, <3>1, <3>2
    <3>4. tried'[w].by = "the reaper" /\ ~tried'[w].passed /\ tried'[w] # NotTried
      BY <3>1, <3>3
    <3>5. decision'[w].status = "awaiting_human_review"
      <4>1. ~b
        BY <2>1, <2>7 DEF NotTried
      <4> QED
        BY <2>3, <4>1
    <3>6. CaseSound(w)'
      BY <2>6, <3>4, <3>5 DEF CaseSound
    <3>7. \A v \in WorkIds : CaseSound(v)'
      BY <1>1, <2>3, <3>3, <3>6, CaseStaysSound
    <3> QED
      BY <2>3, <2>5, <2>7, <3>3, <3>7
  <2>8. CASE tried[w] # NotTried
    <3>1. tried' = tried
      BY <1>3, <2>8 DEF Reaped, ReapsCase
    <3>2. decision'[w].status = "retry_resolved" => tried[w].passed
      BY <2>1, <2>3
    <3>3. CaseSound(w)'
      <4>1. CaseSound(w) /\ decision'[w].status # "retry_in_progress"
        BY <1>1, <2>3
      <4> QED
        BY <2>6, <3>1, <3>2, <4>1 DEF CaseSound
    <3>4. \A v \in WorkIds : CaseSound(v)'
      BY <1>1, <2>3, <3>1, <3>3, CaseStaysSound
    <3> QED
      BY <1>1, <2>3, <2>5, <3>1, <3>4
  <2> QED
    BY <2>7, <2>8
<1> QED
  BY <1>2, <1>3

LEMMA ReapOneStep ==
  ASSUME CaseInv, NEW r \in Runs, ReapOne(r)
  PROVE  CaseInv'
<1>1. CaseShape
  BY CaseParts DEF CaseFacts
<1>2. run[r].at # "new"
  BY DEF ReapOne
<1>3. PICK w \in WorkIds : w = run[r].of
  BY <1>2 DEF CaseInv, CasesFollow
<1>4. PICK place \in {"reporting", "done"} : Goes(r, place)
  <2> DEFINE place == IF decision'[run[r].of].status = "awaiting_human_review" THEN "reporting" ELSE "done"
  <2>1. place \in {"reporting", "done"}
    OBVIOUS
  <2>2. Goes(r, place)
    BY DEF ReapOne
  <2> HIDE DEF place
  <2> QED
    BY <2>1, <2>2
<1>5. retried' = retried /\ answered' = answered /\ erased' = erased /\ tardy' = tardy
  BY DEF ReapOne
<1>6. place \in Places
  BY DEF Places
<1>7. /\ run' \in [Runs -> Walks] /\ run'[r].at = place /\ run'[r].of = run[r].of
      /\ \A q \in Runs : q # r => run'[q] = run[q]
  BY <1>1, <1>4, <1>6, WalksOn
<1>8. Reaped(w)
  BY <1>3 DEF ReapOne
<1>9. /\ decision' \in [WorkIds -> Decisions] /\ tried' \in [WorkIds -> Attempts]
      /\ \A v \in WorkIds : On(v)' <=> On(v)
      /\ \A v \in WorkIds : CaseSound(v)'
      /\ \A v \in WorkIds : tried'[v] = tried[v] \/ tried[v] = NotTried
  BY <1>5, <1>8, ReapedIs
<1> QED
  BY <1>2, <1>4, <1>5, <1>7, <1>9, CasesRest

\* A step that no client takes.
LEMMA CasesIdle ==
  ASSUME CaseInv, UNCHANGED <<run, retried, answered, erased, tardy>>,
         decision' \in [WorkIds -> Decisions], tried' \in [WorkIds -> Attempts],
         \A w \in WorkIds : On(w)' <=> On(w), \A w \in WorkIds : CaseSound(w)',
         \A w \in WorkIds : tried'[w] = tried[w] \/ tried[w] = NotTried
  PROVE  CaseInv'
<1>1. CaseShape'
  BY CaseParts DEF CaseFacts, CaseShape
<1>2. /\ \A q \in Runs : run'[q].of = run[q].of /\ (run'[q].at = "new" <=> run[q].at = "new")
      /\ \A q \in Runs : (Retries(q)' => Retries(q)) /\ (run'[q].at = "posting" => q \in retried')
      /\ \A q \in Runs : q \in retried' \cup answered' => run[q].at # "new"
  BY DEF CaseInv, CasesFollow, Retries
<1>3. \A w \in WorkIds, q \in Runs : tried[w].by = q => tried'[w].by = q
  <2>1. \A q \in Runs : q # "nobody"
    BY CaseAssumption
  <2> QED
    BY <2>1 DEF NotTried
<1>4. ASSUME NEW q \in answered', run[q].of \notin erased'
      PROVE  tried'[run[q].of].by = q \/ q \in tardy'[run[q].of]
  <2>1. PICK w \in WorkIds : w = run[q].of
    BY <1>4, CaseParts DEF CaseFacts
  <2>2. tried[w].by = q \/ q \in tardy[w]
    BY <1>4, <2>1, CaseParts DEF CaseFacts
  <2>3. q \in Runs
    BY <1>4, CaseParts DEF CaseFacts
  <2>4. tried'[w].by = q \/ q \in tardy'[w]
    BY <1>3, <2>2, <2>3
  <2> QED
    BY <2>1, <2>4
<1> QED
  BY <1>1, <1>2, <1>4, CasesLast

LEMMA TimeStep ==
  ASSUME CaseInv, ReapStaleCases \/ (\E w \in WorkIds : LeaseRunsOut(w)) \/ ExpireKey \/ UNCHANGED caseVars
  PROVE  CaseInv'
<1>1. UNCHANGED <<run, retried, answered, erased, tardy>>
  BY DEF ReapStaleCases, LeaseRunsOut, ExpireKey, caseVars
<1>2. /\ decision' \in [WorkIds -> Decisions] /\ tried' \in [WorkIds -> Attempts]
      /\ \A v \in WorkIds : On(v)' <=> On(v)
      /\ \A v \in WorkIds : CaseSound(v)'
      /\ \A v \in WorkIds : tried'[v] = tried[v] \/ tried[v] = NotTried
  <2>1. CASE ReapStaleCases
    <3>1. PICK w \in WorkIds : Reaped(w)
      BY <2>1 DEF ReapStaleCases
    <3>2. retried' = retried
      BY <1>1
    <3> QED
      BY <3>1, <3>2, ReapedIs
  <2>2. ASSUME NEW w \in WorkIds, LeaseRunsOut(w)
        PROVE  /\ decision' \in [WorkIds -> Decisions] /\ tried' \in [WorkIds -> Attempts]
               /\ \A v \in WorkIds : On(v)' <=> On(v)
               /\ \A v \in WorkIds : CaseSound(v)'
               /\ \A v \in WorkIds : tried'[v] = tried[v]
    <3>1. /\ decision \in [WorkIds -> Decisions] /\ tried \in [WorkIds -> Attempts]
          /\ \A v \in WorkIds : CaseSound(v)
      BY CaseParts DEF CaseFacts
    <3>2. decision[w].lease = "live" /\ tried' = tried /\ retried' = retried
      BY <2>2 DEF LeaseRunsOut
    <3>3. /\ decision' \in [WorkIds -> Decisions] /\ decision'[w].status = decision[w].status
          /\ decision'[w].lease = "expired"
          /\ \A v \in WorkIds : v # w => decision'[v] = decision[v]
      <4> DEFINE new == [decision[w] EXCEPT !.lease = "expired"]
      <4>1. decision[w] \in Decisions
        BY <3>1
      <4>2. new \in Decisions /\ new.lease = "expired" /\ new.status = decision[w].status
        BY <4>1 DEF Decisions
      <4>3. decision' = [decision EXCEPT ![w] = new]
        BY <2>2 DEF LeaseRunsOut
      <4> HIDE DEF new
      <4> QED
        BY <3>1, <4>2, <4>3
    <3>4. NoDecision.lease = "none" /\ NoDecision.status = "none"
      BY DEF NoDecision
    <3>5. decision[w] # NoDecision /\ decision'[w] # NoDecision
      BY <3>2, <3>3, <3>4
    <3>6. CaseSound(w)
      BY <3>1
    <3>7. CaseSound(w)'
      BY <3>2, <3>3, <3>5, <3>6 DEF CaseSound
    <3>8. \A v \in WorkIds : CaseSound(v)'
      BY <3>1, <3>2, <3>3, <3>7, CaseStaysSound
    <3>9. \A v \in WorkIds : On(v)' <=> On(v)
      BY <3>3, <3>5 DEF On
    <3> QED
      BY <3>1, <3>2, <3>3, <3>8, <3>9
  <2>3. CASE ExpireKey \/ UNCHANGED caseVars
    <3>1. UNCHANGED <<decision, tried>> /\ retried' = retried
      BY <2>3 DEF ExpireKey, caseVars
    <3> QED
      BY <3>1, NothingDecided
  <2> QED
    BY <2>1, <2>2, <2>3
<1> QED
  BY <1>1, <1>2, CasesIdle

(***************************************************************************)
(* A case is deleted, or all of them with their sandbox.                   *)
(***************************************************************************)
LEMMA EraseStep ==
  ASSUME CaseInv, (\E w \in WorkIds : EraseCase(w)) \/ PurgeSandbox
  PROVE  CaseInv'
<1>1. PICK ws \in SUBSET WorkIds : Erased(ws) /\ UNCHANGED <<run, retried, answered>>
  <2>1. WorkIds \in SUBSET WorkIds /\ \A w \in WorkIds : {w} \in SUBSET WorkIds
    OBVIOUS
  <2> QED
    BY <2>1 DEF EraseCase, PurgeSandbox
<1>2. /\ decision \in [WorkIds -> Decisions] /\ tried \in [WorkIds -> Attempts]
      /\ tardy \in [WorkIds -> SUBSET Runs] /\ erased \subseteq WorkIds
      /\ \A v \in WorkIds : CaseSound(v)
  BY CaseParts DEF CaseFacts
<1>3. NoDecision \in Decisions /\ NotTried \in Attempts
  BY DEF NoDecision, NotTried, Decisions, Attempts
<1>4. /\ decision' \in [WorkIds -> Decisions] /\ tried' \in [WorkIds -> Attempts]
      /\ tardy' \in [WorkIds -> SUBSET Runs] /\ erased' = erased \cup ws
  BY <1>1, <1>2, <1>3 DEF Erased
<1>5. /\ \A w \in ws : decision'[w] = NoDecision /\ tried'[w] = NotTried
      /\ \A w \in WorkIds \ ws : decision'[w] = decision[w] /\ tried'[w] = tried[w] /\ tardy'[w] = tardy[w]
  BY <1>1 DEF Erased
<1>6. CaseShape'
  BY <1>1, <1>4, CaseParts DEF CaseFacts, CaseShape
<1>7. \A w \in WorkIds : (On(w)' => On(w)) /\ (w \notin erased' /\ On(w) => On(w)')
  BY <1>4, <1>5 DEF On
<1>8. ASSUME NEW w \in WorkIds PROVE CaseSound(w)'
  <2>1. CASE w \in ws
    <3>1. decision'[w] = NoDecision /\ tried'[w] = NotTried
      BY <1>5, <2>1
    <3>2. NoDecision.status = "none" /\ NotTried.by = "nobody" /\ NotTried.passed = FALSE
      BY DEF NoDecision, NotTried
    <3> QED
      BY <3>1, <3>2 DEF CaseSound
  <2>2. CASE w \notin ws
    BY <1>1, <1>2, <1>5, <2>2, CaseStaysSound
  <2> QED
    BY <2>1, <2>2
<1>9. /\ \A q \in Runs : run'[q].of = run[q].of /\ (run'[q].at = "new" <=> run[q].at = "new")
      /\ \A q \in Runs : (Retries(q)' => Retries(q)) /\ (run'[q].at = "posting" => q \in retried')
      /\ \A q \in Runs : q \in retried' \cup answered' => run[q].at # "new"
  BY <1>1 DEF CaseInv, CasesFollow, Retries
<1>10. ASSUME NEW q \in answered', run[q].of \notin erased'
       PROVE  tried'[run[q].of].by = q \/ q \in tardy'[run[q].of]
  <2>1. q \in answered
    BY <1>1, <1>10
  <2>2. PICK w \in WorkIds : w = run[q].of
    BY <2>1, CaseParts DEF CaseFacts
  <2>3. w \notin ws /\ w \notin erased
    BY <1>4, <1>10, <2>2
  <2>4. tried[w].by = q \/ q \in tardy[w]
    BY <2>1, <2>2, <2>3, CaseParts DEF CaseFacts
  <2>5. tried'[w].by = q \/ q \in tardy'[w]
    BY <1>5, <2>3, <2>4
  <2> QED
    BY <2>2, <2>5
<1>11. erased \subseteq erased'
  BY <1>4
<1> QED
  BY <1>6, <1>7, <1>8, <1>9, <1>10, <1>11, CasesLast

LEMMA CaseInitInv == CaseInit => CaseInv
<1> SUFFICES ASSUME CaseInit PROVE CaseInv
  OBVIOUS
<1>1. NoDecision \in Decisions /\ NotTried \in Attempts
  BY DEF NoDecision, NotTried, Decisions, Attempts
<1>2. [at |-> "new", of |-> "no case", passed |-> FALSE] \in Walks
  BY DEF Walks, Places
<1>3. CaseShape
  BY <1>1, <1>2 DEF CaseInit, CaseShape
<1>4. \A r \in Runs : run[r].at = "new" /\ ~Retries(r)
  BY DEF CaseInit, Retries
<1>5. NoDecision.status = "none" /\ NotTried.by = "nobody" /\ NotTried.passed = FALSE
  BY DEF NoDecision, NotTried
<1>6. ASSUME NEW w \in WorkIds PROVE CaseSound(w)
  <2>1. decision[w] = NoDecision /\ tried[w] = NotTried
    BY DEF CaseInit
  <2> QED
    BY <1>5, <2>1 DEF CaseSound
<1>7. CasesFollow
  BY <1>4, <1>6 DEF CaseInit, CasesFollow
<1>8. {w \in WorkIds : On(w)} = {}
  BY DEF CaseInit, On
<1>9. Cardinality({w \in WorkIds : On(w)}) <= MaxRows
  <2>1. MaxRows \in Nat
    BY CaseAssumption
  <2> QED
    BY <1>8, <2>1, FS_EmptySet
<1>10. AnsweredIsOnRecord
  BY <1>6, <1>9 DEF CaseInit, AnsweredIsOnRecord, CaseSound
<1> QED
  BY <1>3, <1>7, <1>10 DEF CaseInv

LEMMA StepCaseInv == CaseInv /\ [CaseNext]_caseVars => CaseInv'
BY DecideStep, RetryStep, PostStep, PostDiesStep, AskStep, ReviewStep, ReapOneStep, TimeStep, EraseStep
   DEF CaseNext

(***************************************************************************)
(* However many clients run the walkthrough, die or lose a response: a     *)
(* case is retried by one of them, an answered result is the attempt on    *)
(* record or a late one, and what a retry resolved has an attempt that     *)
(* passed (create_decision, record_retry_attempt, reap_one).               *)
(***************************************************************************)
THEOREM AnswersStayOnRecord == CaseSpec => []AnsweredIsOnRecord
<1>1. CaseInv => AnsweredIsOnRecord
  BY DEF CaseInv
<1> QED
  BY <1>1, CaseInitInv, StepCaseInv, PTL DEF CaseSpec

-----------------------------------------------------------------------------
(***************************************************************************)
(* The total of the known costs: the one pass over the events has a value, *)
(* which is no less than any cost it met.                                  *)
(***************************************************************************)
Priced(s, n) == IF n \in Unpriced(s) THEN 0 ELSE s[n]

IsRunning(f, s, top) ==
  f = [n \in 0 .. top |-> IF n = 0 THEN 0 ELSE f[n - 1] + Priced(s, n)]

LEMMA RunningStarts ==
  ASSUME NEW s
  PROVE  \E f : IsRunning(f, s, 0)
<1> DEFINE f == [n \in 0 .. 0 |-> 0]
<1>1. f = [n \in 0 .. 0 |-> IF n = 0 THEN 0 ELSE f[n - 1] + Priced(s, n)]
  <2>1. \A n \in 0 .. 0 : n = 0
    OBVIOUS
  <2> QED
    BY <2>1
<1> HIDE DEF f
<1> QED
  BY <1>1 DEF IsRunning

LEMMA RunningGoesOn ==
  ASSUME NEW s, NEW top \in Nat, NEW f, IsRunning(f, s, top)
  PROVE  \E g : IsRunning(g, s, top + 1)
<1> DEFINE g == [n \in 0 .. top + 1 |-> IF n = top + 1 THEN f[top] + Priced(s, n) ELSE f[n]]
           step(n) == IF n = 0 THEN 0 ELSE g[n - 1] + Priced(s, n)
<1>1. \A n \in 0 .. top + 1 : g[n] = step(n)
  <2> TAKE n \in 0 .. top + 1
  <2>1. CASE n = top + 1
    <3>1. n # 0 /\ n - 1 = top /\ top \in 0 .. top + 1 /\ top # top + 1
      BY <2>1
    <3>2. g[n] = f[top] + Priced(s, n) /\ g[top] = f[top]
      BY <2>1, <3>1
    <3> QED
      BY <3>1, <3>2
  <2>2. CASE n = 0
    <3>1. 0 \in 0 .. top /\ 0 # top + 1
      OBVIOUS
    <3>2. f[0] = 0
      BY <3>1 DEF IsRunning
    <3> QED
      BY <2>2, <3>1, <3>2
  <2>3. CASE n # 0 /\ n # top + 1
    <3>1. n \in 0 .. top /\ n - 1 \in 0 .. top + 1 /\ n - 1 # top + 1
      BY <2>3
    <3>2. f[n] = f[n - 1] + Priced(s, n)
      BY <2>3, <3>1 DEF IsRunning
    <3>3. g[n] = f[n] /\ g[n - 1] = f[n - 1]
      BY <2>3, <3>1
    <3> QED
      BY <2>3, <3>2, <3>3
  <2> QED
    BY <2>1, <2>2, <2>3
<1>2. g = [n \in 0 .. top + 1 |-> step(n)]
  <2>1. g = [n \in 0 .. top + 1 |-> g[n]]
    OBVIOUS
  <2> HIDE DEF g
  <2> QED
    BY <1>1, <2>1
<1> HIDE DEF g
<1> QED
  BY <1>2 DEF IsRunning

\* Every set of naturals that is not empty has a least one.
LEMMA LeastNatural ==
  ASSUME NEW S \in SUBSET Nat, NEW n \in S
  PROVE  \E m \in S : \A k \in S : m <= k
<1> DEFINE R == StrictSubsetOrdering(0 .. n)
           T == {0 .. k : k \in {k \in S : k <= n}}
<1>1. IsWellFoundedOn(R, SUBSET (0 .. n))
  <2>1. IsFiniteSet(0 .. n)
    BY FS_Interval
  <2>2. FiniteSubsetsOf(0 .. n) = SUBSET (0 .. n)
    BY <2>1, FS_FiniteSubsetsOfFinite
  <2> QED
    BY <2>2, FS_StrictSubsetOrderingWellFounded
<1>2. T \subseteq SUBSET (0 .. n) /\ T # {}
  OBVIOUS
<1>3. PICK x \in T : \A y \in T : <<y, x>> \notin R
  <2> HIDE DEF R, T
  <2> QED
    BY <1>1, <1>2, WFMin
<1>4. PICK m \in S : m <= n /\ x = 0 .. m
  OBVIOUS
<1>5. \A k \in S : m <= k
  <2> SUFFICES ASSUME NEW k \in S, k < m PROVE FALSE
    OBVIOUS
  <2>1. 0 .. k \in T /\ 0 .. k \subseteq 0 .. m /\ m \in 0 .. m /\ m \notin 0 .. k
    BY <1>4
  <2>2. <<0 .. k, 0 .. m>> \in R
    BY <1>4, <2>1 DEF StrictSubsetOrdering
  <2> QED
    BY <1>3, <1>4, <2>1, <2>2
<1> QED
  BY <1>5

LEMMA RunningExists ==
  ASSUME NEW s, NEW top \in Nat
  PROVE  \E f : IsRunning(f, s, top)
<1> DEFINE without == {n \in Nat : ~\E f : IsRunning(f, s, n)}
<1>1. SUFFICES ASSUME without # {} PROVE FALSE
  OBVIOUS
<1>2. PICK m \in without : \A n \in without : m <= n
  BY <1>1, LeastNatural
<1>3. m # 0
  BY RunningStarts
<1>4. m - 1 \in Nat /\ m - 1 \notin without /\ m - 1 + 1 = m
  BY <1>2, <1>3
<1>5. PICK f : IsRunning(f, s, m - 1)
  BY <1>4
<1>6. \E g : IsRunning(g, s, m - 1 + 1)
  BY <1>4, <1>5, RunningGoesOn
<1> QED
  BY <1>4, <1>6

\* The known costs of an input, and what its pass over them totals.
Costs(s) == {n \in DOMAIN s : s[n] >= 0}

LEMMA KnownTotals ==
  ASSUME NEW s \in Seq(Nat \cup {UnknownCost, Malformed}), \A n \in DOMAIN s : s[n] # Malformed
  PROVE  /\ KnownTotal(s) \in Nat
         /\ \A n \in Costs(s) : s[n] <= KnownTotal(s)
         /\ KnownTotal(s) = 0 => \A n \in Costs(s) : s[n] = 0
<1> DEFINE f == CHOOSE g : IsRunning(g, s, Len(s))
<1>1. Len(s) \in Nat /\ DOMAIN s = 1 .. Len(s)
  OBVIOUS
<1>2. IsRunning(f, s, Len(s))
  BY <1>1, RunningExists, Zenon
<1>3. KnownTotal(s) = f[Len(s)]
  BY DEF KnownTotal, IsRunning, Priced
<1> HIDE DEF f
<1>4. f[0] = 0 /\ \A n \in 1 .. Len(s) : f[n] = f[n - 1] + Priced(s, n)
  BY <1>1, <1>2 DEF IsRunning
<1>5. \A n \in 1 .. Len(s) : Priced(s, n) \in Nat /\ (n \in Costs(s) => Priced(s, n) = s[n])
  <2> TAKE n \in 1 .. Len(s)
  <2>1. n \in DOMAIN s /\ s[n] # Malformed /\ s[n] \in Nat \cup {UnknownCost, Malformed}
    BY <1>1
  <2> QED
    BY <2>1 DEF Priced, Unpriced, Costs, UnknownCost
<1>6. \A m \in 0 .. Len(s) : f[m] \in Nat /\ \A n \in 1 .. m : Priced(s, n) <= f[m]
  <2> DEFINE bad == {m \in 0 .. Len(s) : ~(f[m] \in Nat /\ \A n \in 1 .. m : Priced(s, n) <= f[m])}
  <2>1. SUFFICES ASSUME bad # {} PROVE FALSE
    OBVIOUS
  <2>2. PICK m \in bad : \A k \in bad : m <= k
    <3>1. bad \in SUBSET Nat
      OBVIOUS
    <3> HIDE DEF bad
    <3> QED
      BY <2>1, <3>1, LeastNatural
  <2>3. m # 0
    <3>1. 1 .. 0 = {}
      OBVIOUS
    <3> QED
      BY <1>4, <3>1
  <2>4. m - 1 \in 0 .. Len(s) /\ m - 1 \notin bad /\ m \in 1 .. Len(s)
    <3>1. m \in 0 .. Len(s)
      OBVIOUS
    <3>2. m - 1 \in 0 .. Len(s) /\ m \in 1 .. Len(s) /\ ~(m <= m - 1)
      BY <1>1, <2>3, <3>1
    <3> HIDE DEF bad
    <3> QED
      BY <2>2, <3>2
  <2>5. f[m - 1] \in Nat /\ \A n \in 1 .. (m - 1) : Priced(s, n) <= f[m - 1]
    BY <2>4
  <2>6. f[m] = f[m - 1] + Priced(s, m) /\ Priced(s, m) \in Nat
    BY <1>4, <1>5, <2>4
  <2>7. f[m] \in Nat
    BY <2>5, <2>6
  <2>8. ASSUME NEW n \in 1 .. m PROVE Priced(s, n) <= f[m]
    <3>1. CASE n = m
      BY <2>5, <2>6, <3>1
    <3>2. CASE n # m
      <4>1. n \in 1 .. (m - 1) /\ n \in 1 .. Len(s)
        BY <2>4, <3>2
      <4>2. Priced(s, n) <= f[m - 1] /\ Priced(s, n) \in Nat
        BY <1>5, <2>5, <4>1
      <4> QED
        BY <2>5, <2>6, <4>2
    <3> QED
      BY <3>1, <3>2
  <2> QED
    BY <2>7, <2>8
<1>7. KnownTotal(s) \in Nat /\ \A n \in 1 .. Len(s) : Priced(s, n) <= KnownTotal(s)
  BY <1>1, <1>3, <1>6
<1>8. ASSUME NEW n \in Costs(s)
      PROVE  s[n] <= KnownTotal(s) /\ s[n] \in Nat
  <2>1. n \in 1 .. Len(s)
    BY <1>1 DEF Costs
  <2> QED
    BY <1>5, <1>7, <2>1
<1> QED
  BY <1>7, <1>8

\* What Economics says of an input.
LEMMA EconomicsTell ==
  ASSUME NEW s \in Seq(Nat \cup {UnknownCost, Malformed})
  PROVE  /\ Economics(s) \in SaleResults /\ Economics(s).kind \in {"error", "answer"}
         /\ Economics(s).kind = "answer" =>
              /\ Economics(s).exact <=> Costs(s) = DOMAIN s
              /\ IF Costs(s) = {} THEN Economics(s).total = UnknownCost
                 ELSE /\ \A n \in Costs(s) : s[n] <= Economics(s).total
                      /\ Economics(s).total = 0 => \A n \in Costs(s) : s[n] = 0
<1>1. CASE s = <<>> \/ \E n \in DOMAIN s : s[n] = Malformed
  <2> DEFINE new == [kind |-> "error", total |-> 0, exact |-> FALSE]
  <2>1. new \in SaleResults /\ new.kind = "error"
    BY DEF SaleResults
  <2>2. Economics(s) = new
    BY <1>1 DEF Economics
  <2> HIDE DEF new
  <2> QED
    BY <2>1, <2>2
<1>2. CASE ~(s = <<>> \/ \E n \in DOMAIN s : s[n] = Malformed)
  <2>1. \A n \in DOMAIN s : s[n] # Malformed
    BY <1>2
  <2>2. /\ KnownTotal(s) \in Nat
        /\ \A n \in Costs(s) : s[n] <= KnownTotal(s)
        /\ KnownTotal(s) = 0 => \A n \in Costs(s) : s[n] = 0
    BY <2>1, KnownTotals
  <2>3. Costs(s) = DOMAIN s \ Unpriced(s)
    <3>1. \A n \in DOMAIN s : s[n] \in Nat \cup {UnknownCost}
      <4> TAKE n \in DOMAIN s
      <4>1. s[n] \in Nat \cup {UnknownCost, Malformed}
        OBVIOUS
      <4> QED
        BY <2>1, <4>1
    <3> QED
      BY <3>1 DEF Costs, Unpriced, UnknownCost
  <2> DEFINE total == IF Unpriced(s) = DOMAIN s THEN UnknownCost ELSE KnownTotal(s)
             exact == Unpriced(s) = {}
             new == [kind |-> "answer", total |-> total, exact |-> exact]
  <2>4. total \in Int /\ exact \in BOOLEAN
    BY <2>2 DEF UnknownCost
  <2>5. Economics(s) = new
    BY <1>2 DEF Economics
  <2>6. /\ exact <=> Costs(s) = DOMAIN s
        /\ Costs(s) = {} => total = UnknownCost
        /\ Costs(s) # {} => total = KnownTotal(s)
    BY <2>3 DEF Unpriced
  <2> HIDE DEF total, exact
  <2>7. new \in SaleResults /\ new.kind = "answer" /\ new.total = total /\ new.exact = exact
    BY <2>4 DEF SaleResults
  <2> HIDE DEF new
  <2> QED
    BY <2>2, <2>5, <2>6, <2>7
<1> QED
  BY <1>1, <1>2

-----------------------------------------------------------------------------
(***************************************************************************)
(* The sale starts sound, and what its invariant says in parts.            *)
(***************************************************************************)
LEMMA SaleStarts == SaleInit => SaleInv
<1> SUFFICES ASSUME SaleInit PROVE SaleInv
  OBVIOUS
<1>1. NotQuoted \in Sold /\ NotQuoted.status = "none" /\ NotQuoted.result.kind = "none"
  BY DEF NotQuoted, NotAnswered, Sold, SaleResults
<1>2. NotInvoking \in Requests /\ NotInvoking.at = "free"
  BY DEF NotInvoking, Requests
<1>3. /\ \A q \in Purchases : purchases[q] = NotQuoted /\ told[q] = 0
      /\ \A i \in Invocations : invoking[i] = NotInvoking
      /\ charged = {}
  BY DEF SaleInit
<1>4. SaleShape
  BY <1>1, <1>2 DEF SaleInit, SaleShape
<1>5. ASSUME NEW q \in Purchases PROVE SoldSound(q) /\ ToldOnce(q)
  BY <1>1, <1>2, <1>3 DEF SoldSound, ToldOnce, Newly
<1>6. ASSUME NEW i \in Invocations PROVE RequestSound(i)
  BY <1>2, <1>3 DEF RequestSound
<1> QED
  BY <1>3, <1>4, <1>5, <1>6 DEF SaleInv

\* A purchase's row after a step, as the rest of the sale needs it.
Keeps(q) ==
  /\ purchases[q].status # "none" => purchases'[q].status # "none"
  /\ Paid(q) => Paid(q)'
  /\ HasAnswer(q) => HasAnswer(q)'
  /\ SoldSound(q)'

LEMMA RowStays ==
  ASSUME SaleInv, NEW q \in Purchases, purchases'[q] = purchases[q]
  PROVE  Keeps(q)
BY DEF SaleInv, Keeps, Paid, HasAnswer, SoldSound

(***************************************************************************)
(* A step of the request i that keeps every purchase's row sound.          *)
(***************************************************************************)
LEMMA SaleLast ==
  ASSUME SaleInv, NEW i \in Invocations, SaleShape',
         \A q \in Purchases : Keeps(q) /\ ToldOnce(q)',
         \A j \in Invocations : j # i => invoking'[j] = invoking[j],
         RequestSound(i)', \A c \in charged' : c \in charged \/ HasAnswer(c.for)'
  PROVE  SaleInv'
<1>1. ASSUME NEW j \in Invocations, j # i PROVE RequestSound(j)'
  <2>1. RequestSound(j) /\ invoking'[j] = invoking[j]
    BY <1>1 DEF SaleInv
  <2>2. CASE invoking[j].at = "free"
    BY <2>1, <2>2 DEF RequestSound
  <2>3. CASE invoking[j].at # "free"
    <3>1. PICK q \in Purchases : q = invoking[j].for
      BY <2>1, <2>3 DEF RequestSound
    <3>2. Keeps(q)
      OBVIOUS
    <3> QED
      BY <2>1, <3>1, <3>2 DEF RequestSound, Keeps, Paid, HasAnswer
  <2> QED
    BY <2>2, <2>3
<1>2. ASSUME NEW c \in charged' PROVE HasAnswer(c.for)'
  <2>1. CASE c \in charged
    <3>1. PICK q \in Purchases : q = c.for
      BY <2>1 DEF SaleInv, SaleShape
    <3>2. HasAnswer(q) /\ Keeps(q)
      BY <2>1, <3>1 DEF SaleInv
    <3> QED
      BY <3>1, <3>2 DEF Keeps, HasAnswer
  <2> QED
    BY <1>2, <2>1
<1>3. \A q \in Purchases : SoldSound(q)' /\ ToldOnce(q)'
  BY DEF Keeps
<1> QED
  BY <1>1, <1>2, <1>3 DEF SaleInv

\* Where nobody becomes newly charged, a purchase is told of no more than before.
LEMMA NobodyNewer ==
  ASSUME SaleInv, NEW q \in Purchases, Keeps(q), told'[q] = told[q],
         \A j \in Invocations : Newly(j, q)' => Newly(j, q)
  PROVE  ToldOnce(q)'
<1>1. ToldOnce(q) /\ (Paid(q) => Paid(q)')
  BY DEF SaleInv, Keeps
<1>2. told'[q] <= 1 /\ (told'[q] = 1 => Paid(q)' /\ \A j \in Invocations : ~Newly(j, q)')
  BY <1>1 DEF ToldOnce
<1>3. \A j, k \in Invocations : Newly(j, q)' => Paid(q)' /\ (Newly(k, q)' => j = k)
  BY <1>1 DEF ToldOnce
<1> QED
  BY <1>2, <1>3 DEF ToldOnce

\* What a request becomes.
LEMMA Becomes ==
  ASSUME SaleInv, NEW i \in Invocations, NEW new \in Requests,
         invoking' = [invoking EXCEPT ![i] = new]
  PROVE  /\ invoking' \in [Invocations -> Requests] /\ invoking'[i] = new
         /\ \A j \in Invocations : j # i => invoking'[j] = invoking[j]
BY DEF SaleInv, SaleShape

LEMMA BecomesFree ==
  ASSUME SaleInv, NEW i \in Invocations, invoking' = [invoking EXCEPT ![i] = NotInvoking]
  PROVE  /\ invoking' \in [Invocations -> Requests] /\ RequestSound(i)'
         /\ \A j \in Invocations : j # i => invoking'[j] = invoking[j]
         /\ \A q \in Purchases, j \in Invocations : Newly(j, q)' => j # i /\ Newly(j, q)
<1>1. NotInvoking \in Requests /\ NotInvoking.at = "free"
  BY DEF NotInvoking, Requests
<1>2. /\ invoking' \in [Invocations -> Requests] /\ invoking'[i] = NotInvoking
      /\ \A j \in Invocations : j # i => invoking'[j] = invoking[j]
  BY <1>1, Becomes
<1>3. RequestSound(i)'
  BY <1>1, <1>2 DEF RequestSound
<1> QED
  BY <1>1, <1>2, <1>3 DEF Newly

-----------------------------------------------------------------------------
(***************************************************************************)
(* The steps that change no purchase.                                      *)
(***************************************************************************)
LEMMA VerifyStep ==
  ASSUME SaleInv, NEW i \in Invocations, NEW q \in Purchases, NEW p \in Signed,
         NEW input \in Inputs, Verify(i, q, p, input)
  PROVE  SaleInv'
<1> DEFINE new == [at |-> "quoting", for |-> q, by |-> p, input |-> input, newly |-> FALSE]
<1>1. /\ new \in Requests /\ new.at = "quoting" /\ ~new.newly
      /\ new.for = q /\ new.by = p /\ new.input = input
  BY DEF Requests
<1>2. invoking' = [invoking EXCEPT ![i] = new] /\ UNCHANGED <<purchases, charged, told>>
  BY DEF Verify
<1> HIDE DEF new
<1>3. /\ invoking' \in [Invocations -> Requests] /\ invoking'[i] = new
      /\ \A j \in Invocations : j # i => invoking'[j] = invoking[j]
  BY <1>1, <1>2, Becomes
<1>4. SaleShape'
  BY <1>2, <1>3 DEF SaleInv, SaleShape
<1>5. RequestSound(i)'
  BY <1>1, <1>3 DEF RequestSound
<1>6. ASSUME NEW r \in Purchases PROVE Keeps(r) /\ ToldOnce(r)'
  <2>1. Keeps(r)
    BY <1>2, RowStays
  <2>2. \A j \in Invocations : Newly(j, r)' => Newly(j, r)
    BY <1>1, <1>3 DEF Newly
  <2> QED
    BY <1>2, <2>1, <2>2, NobodyNewer
<1> QED
  BY <1>2, <1>3, <1>4, <1>5, <1>6, SaleLast

LEMMA AnsweredStep ==
  ASSUME SaleInv, NEW i \in Invocations, invoking[i].at # "free", Answered(i),
         UNCHANGED purchases, charged' \subseteq [by : Signed, for : Purchases],
         \A c \in charged' : c \in charged \/ HasAnswer(c.for)'
  PROVE  SaleInv'
<1>1. PICK q \in Purchases : q = invoking[i].for
  BY DEF SaleInv, RequestSound
<1>2. invoking' = [invoking EXCEPT ![i] = NotInvoking]
  BY DEF Answered
<1>3. told' = IF invoking[i].newly THEN [told EXCEPT ![q] = @ + 1] ELSE told
  BY <1>1 DEF Answered
<1>4. told \in [Purchases -> Nat]
  BY DEF SaleInv, SaleShape
<1>5. /\ invoking' \in [Invocations -> Requests] /\ RequestSound(i)'
      /\ \A j \in Invocations : j # i => invoking'[j] = invoking[j]
      /\ \A r \in Purchases, j \in Invocations : Newly(j, r)' => j # i /\ Newly(j, r)
  BY <1>2, BecomesFree
<1>6. \A r \in Purchases : Keeps(r)
  BY RowStays
<1>7. told' \in [Purchases -> Nat]
  BY <1>3, <1>4
<1>8. SaleShape'
  BY <1>5, <1>7 DEF SaleInv, SaleShape
<1>9. ASSUME NEW r \in Purchases PROVE ToldOnce(r)'
  <2>1. CASE invoking[i].newly /\ r = q
    <3>1. Newly(i, q) /\ ToldOnce(q) /\ Keeps(q)
      BY <1>1, <1>6, <2>1 DEF SaleInv, Newly
    <3>2. told[q] = 0 /\ Paid(q) /\ \A j \in Invocations : Newly(j, q) => j = i
      <4>1. told[q] <= 1 /\ told[q] # 1 /\ Paid(q)
        BY <3>1 DEF ToldOnce
      <4>2. \A j \in Invocations : Newly(j, q) => i = j
        BY <3>1 DEF ToldOnce
      <4>3. told[q] \in Nat
        BY <1>4
      <4> QED
        BY <4>1, <4>2, <4>3
    <3>3. told'[q] = 1 /\ Paid(q)' /\ \A j \in Invocations : ~Newly(j, q)'
      BY <1>3, <1>4, <1>5, <2>1, <3>1, <3>2 DEF Keeps
    <3> QED
      BY <2>1, <3>3 DEF ToldOnce
  <2>2. CASE ~(invoking[i].newly /\ r = q)
    <3>1. told'[r] = told[r]
      BY <1>3, <1>4, <2>2
    <3> QED
      BY <1>5, <1>6, <3>1, NobodyNewer
  <2> QED
    BY <2>1, <2>2
<1> QED
  BY <1>5, <1>6, <1>8, <1>9, SaleLast

\* What one charge adds is of a purchase that has its answer.
LEMMA ChargeAdds ==
  ASSUME SaleInv, NEW i \in Invocations, invoking[i].at = "settling", UNCHANGED purchases,
         Charge(i) \/ UNCHANGED charged
  PROVE  /\ charged' \subseteq [by : Signed, for : Purchases]
         /\ \A c \in charged' : c \in charged \/ HasAnswer(c.for)'
<1>1. PICK q \in Purchases, p \in Signed : q = invoking[i].for /\ p = invoking[i].by
  BY DEF SaleInv, RequestSound
<1>2. HasAnswer(q)'
  BY <1>1 DEF SaleInv, RequestSound, HasAnswer
<1> DEFINE new == [by |-> p, for |-> q]
<1>3. new \in [by : Signed, for : Purchases] /\ new.for = q
  OBVIOUS
<1>4. charged' = charged \cup {new} \/ charged' = charged
  BY <1>1 DEF Charge
<1>5. charged \subseteq [by : Signed, for : Purchases]
  BY DEF SaleInv, SaleShape
<1> HIDE DEF new
<1>6. \A c \in charged' : c \in charged \/ c = new
  BY <1>4
<1>7. HasAnswer(new.for)'
  BY <1>2, <1>3 DEF HasAnswer
<1>8. \A c \in charged' : c \in charged \/ HasAnswer(c.for)'
  BY <1>6, <1>7 DEF HasAnswer
<1> QED
  BY <1>3, <1>4, <1>5, <1>8

LEMMA EndStep ==
  ASSUME SaleInv, NEW i \in Invocations, Refuse(i) \/ SettleSale(i)
  PROVE  SaleInv'
<1>1. CASE Refuse(i)
  <2>1. /\ invoking[i].at # "free" /\ Answered(i) /\ UNCHANGED purchases
        /\ charged' = charged
    BY <1>1 DEF Refuse
  <2>2. charged' \subseteq [by : Signed, for : Purchases]
    BY <2>1 DEF SaleInv, SaleShape
  <2> QED
    BY <2>1, <2>2, AnsweredStep
<1>2. CASE SettleSale(i)
  <2>1. invoking[i].at = "settling" /\ Charge(i) /\ Answered(i) /\ UNCHANGED purchases
    BY <1>2 DEF SettleSale
  <2> QED
    BY <2>1, ChargeAdds, AnsweredStep
<1> QED
  BY <1>1, <1>2

LEMMA LostStep ==
  ASSUME SaleInv, NEW i \in Invocations, SettleSaleFails(i) \/ SaleCrash(i)
  PROVE  SaleInv'
<1>1. invoking' = [invoking EXCEPT ![i] = NotInvoking] /\ UNCHANGED <<purchases, told>>
  BY DEF SettleSaleFails, SaleCrash
<1>2. /\ charged' \subseteq [by : Signed, for : Purchases]
      /\ \A c \in charged' : c \in charged \/ HasAnswer(c.for)'
  <2>1. CASE SettleSaleFails(i)
    <3>1. invoking[i].at = "settling" /\ (Charge(i) \/ UNCHANGED charged)
      BY <2>1 DEF SettleSaleFails
    <3> QED
      BY <1>1, <3>1, ChargeAdds
  <2>2. CASE SaleCrash(i)
    BY <2>2 DEF SaleCrash, SaleInv, SaleShape
  <2> QED
    BY <2>1, <2>2
<1>3. /\ invoking' \in [Invocations -> Requests] /\ RequestSound(i)'
      /\ \A j \in Invocations : j # i => invoking'[j] = invoking[j]
      /\ \A r \in Purchases, j \in Invocations : Newly(j, r)' => j # i /\ Newly(j, r)
  BY <1>1, BecomesFree
<1>4. SaleShape'
  BY <1>1, <1>2, <1>3 DEF SaleInv, SaleShape
<1>5. ASSUME NEW r \in Purchases PROVE Keeps(r) /\ ToldOnce(r)'
  <2>1. Keeps(r)
    BY <1>1, RowStays
  <2> QED
    BY <1>1, <1>3, <2>1, NobodyNewer
<1> QED
  BY <1>2, <1>3, <1>4, <1>5, SaleLast

-----------------------------------------------------------------------------
(***************************************************************************)
(* The three transactions: quoting, recording the payment, executing.      *)
(***************************************************************************)
\* A row that becomes new, and a request that moves on.
LEMMA RowBecomes ==
  ASSUME SaleInv, NEW q \in Purchases, NEW new \in Sold,
         purchases' = [purchases EXCEPT ![q] = new]
  PROVE  /\ purchases' \in [Purchases -> Sold] /\ purchases'[q] = new
         /\ \A r \in Purchases : r # q => purchases'[r] = purchases[r]
         /\ \A r \in Purchases : r # q => Keeps(r)
<1>1. /\ purchases' \in [Purchases -> Sold] /\ purchases'[q] = new
      /\ \A r \in Purchases : r # q => purchases'[r] = purchases[r]
  BY DEF SaleInv, SaleShape
<1> QED
  BY <1>1, RowStays

LEMMA SaleMoves ==
  ASSUME SaleInv, NEW i \in Invocations, NEW place \in {"paying", "executing", "rejected", "settling"},
         Moves(i, place)
  PROVE  /\ invoking' \in [Invocations -> Requests] /\ invoking'[i].at = place
         /\ invoking'[i].for = invoking[i].for /\ invoking'[i].by = invoking[i].by
         /\ invoking'[i].input = invoking[i].input /\ invoking'[i].newly = invoking[i].newly
         /\ \A j \in Invocations : j # i => invoking'[j] = invoking[j]
<1> DEFINE new == [invoking[i] EXCEPT !.at = place]
<1>1. invoking[i] \in Requests
  BY DEF SaleInv, SaleShape
<1>2. /\ new \in Requests /\ new.at = place /\ new.for = invoking[i].for /\ new.by = invoking[i].by
      /\ new.input = invoking[i].input /\ new.newly = invoking[i].newly
  BY <1>1 DEF Requests
<1>3. invoking' = [invoking EXCEPT ![i] = new]
  BY DEF Moves
<1> HIDE DEF new
<1>4. /\ invoking' \in [Invocations -> Requests] /\ invoking'[i] = new
      /\ \A j \in Invocations : j # i => invoking'[j] = invoking[j]
  BY <1>2, <1>3, Becomes
<1> QED
  BY <1>2, <1>4

LEMMA CreateQuoteStep ==
  ASSUME SaleInv, NEW i \in Invocations, CreateQuote(i)
  PROVE  SaleInv'
<1>1. invoking[i].at = "quoting" /\ Moves(i, "paying") /\ UNCHANGED <<charged, told>>
  BY DEF CreateQuote
<1>2. PICK q \in Purchases : q = invoking[i].for
  BY <1>1 DEF SaleInv, RequestSound
<1>3. purchases' = IF purchases[q] = NotQuoted THEN [purchases EXCEPT ![q].status = "QUOTED"]
                   ELSE purchases
  BY <1>2 DEF CreateQuote
<1>4. /\ invoking' \in [Invocations -> Requests] /\ invoking'[i].at = "paying"
      /\ invoking'[i].for = q /\ invoking'[i].by = invoking[i].by
      /\ invoking'[i].input = invoking[i].input /\ invoking'[i].newly = invoking[i].newly
      /\ \A j \in Invocations : j # i => invoking'[j] = invoking[j]
  BY <1>1, <1>2, SaleMoves
<1>5. purchases \in [Purchases -> Sold] /\ SoldSound(q) /\ RequestSound(i)
  BY DEF SaleInv, SaleShape
<1>6. /\ purchases' \in [Purchases -> Sold] /\ purchases'[q].status # "none"
      /\ \A r \in Purchases : Keeps(r)
  <2>1. CASE purchases[q] = NotQuoted
    <3> DEFINE new == [purchases[q] EXCEPT !.status = "QUOTED"]
    <3>1. purchases[q] \in Sold /\ purchases[q].status = "none" /\ purchases[q].result.kind = "none"
      <4>1. NotQuoted.status = "none" /\ NotQuoted.result.kind = "none"
        BY DEF NotQuoted, NotAnswered
      <4> QED
        BY <1>5, <2>1, <4>1
    <3>2. new \in Sold /\ new.status = "QUOTED" /\ new.result = purchases[q].result
      BY <3>1 DEF Sold
    <3>3. purchases' = [purchases EXCEPT ![q] = new]
      BY <1>3, <2>1
    <3> HIDE DEF new
    <3>4. /\ purchases' \in [Purchases -> Sold] /\ purchases'[q] = new
          /\ \A r \in Purchases : r # q => Keeps(r)
      BY <3>2, <3>3, RowBecomes
    <3>5. SoldSound(q)'
      BY <3>1, <3>2, <3>4 DEF SoldSound
    <3>6. Keeps(q)
      BY <3>1, <3>2, <3>4, <3>5 DEF Keeps, Paid, HasAnswer
    <3> QED
      BY <3>2, <3>4, <3>6
  <2>2. CASE purchases[q] # NotQuoted
    <3>1. purchases' = purchases
      BY <1>3, <2>2
    <3>2. \A r \in Purchases : Keeps(r)
      BY <3>1, RowStays
    <3> QED
      BY <1>5, <2>2, <3>1, <3>2 DEF SoldSound
  <2> QED
    BY <2>1, <2>2
<1>7. SaleShape'
  BY <1>1, <1>4, <1>6 DEF SaleInv, SaleShape
<1>8. RequestSound(i)'
  <2>1. invoking[i].by \in Signed /\ invoking[i].input \in Inputs /\ ~invoking[i].newly
    BY <1>1, <1>5 DEF RequestSound
  <2> QED
    BY <1>4, <1>6, <2>1 DEF RequestSound
<1>9. ASSUME NEW r \in Purchases PROVE ToldOnce(r)'
  <2>1. \A j \in Invocations : Newly(j, r)' => Newly(j, r)
    BY <1>1, <1>2, <1>4 DEF Newly
  <2> QED
    BY <1>1, <1>6, <2>1, NobodyNewer
<1> QED
  BY <1>1, <1>4, <1>6, <1>7, <1>8, <1>9, SaleLast

LEMMA RecordPaymentStep ==
  ASSUME SaleInv, NEW i \in Invocations, RecordPayment(i)
  PROVE  SaleInv'
<1>1. invoking[i].at = "paying" /\ UNCHANGED <<charged, told>>
  BY DEF RecordPayment
<1>2. PICK q \in Purchases : q = invoking[i].for
  BY <1>1 DEF SaleInv, RequestSound
<1>3. PICK b \in BOOLEAN : b <=> NewlyPaid(q)
  BY DEF NewlyPaid
<1>4. /\ purchases' = IF NewlyPaid(q) THEN [purchases EXCEPT ![q].status = "PAYMENT_VERIFIED"]
                      ELSE purchases
      /\ invoking' = [invoking EXCEPT ![i].at = "executing", ![i].newly = NewlyPaid(q)]
  BY <1>2 DEF RecordPayment
<1>5. /\ purchases \in [Purchases -> Sold] /\ purchases[q] \in Sold /\ SoldSound(q) /\ RequestSound(i)
      /\ invoking[i] \in Requests
  BY DEF SaleInv, SaleShape
<1>6. purchases[q].status # "none"
  BY <1>1, <1>2, <1>5 DEF RequestSound
<1>7. /\ invoking' \in [Invocations -> Requests] /\ invoking'[i].at = "executing"
      /\ invoking'[i].for = q /\ invoking'[i].by = invoking[i].by
      /\ invoking'[i].input = invoking[i].input /\ (invoking'[i].newly <=> NewlyPaid(q))
      /\ \A j \in Invocations : j # i => invoking'[j] = invoking[j]
  <2> DEFINE new == [invoking[i] EXCEPT !.at = "executing", !.newly = b]
  <2>1. /\ new \in Requests /\ new.at = "executing" /\ new.for = q /\ new.by = invoking[i].by
        /\ new.input = invoking[i].input /\ new.newly = b
    BY <1>2, <1>5 DEF Requests
  <2>2. invoking' = [invoking EXCEPT ![i] = new]
    <3>1. NewlyPaid(q) = b
      BY <1>3 DEF NewlyPaid
    <3> QED
      BY <1>4, <3>1
  <2> HIDE DEF new
  <2>3. /\ invoking' \in [Invocations -> Requests] /\ invoking'[i] = new
        /\ \A j \in Invocations : j # i => invoking'[j] = invoking[j]
    BY <2>1, <2>2, Becomes
  <2> QED
    BY <1>3, <2>1, <2>3
<1>8. /\ purchases' \in [Purchases -> Sold] /\ Paid(q)'
      /\ \A r \in Purchases : Keeps(r)
  <2>1. CASE NewlyPaid(q)
    <3> DEFINE new == [purchases[q] EXCEPT !.status = "PAYMENT_VERIFIED"]
    <3>1. purchases[q].status = "QUOTED" /\ purchases[q].result.kind = "none"
      BY <1>5, <2>1 DEF NewlyPaid, SoldSound
    <3>2. new \in Sold /\ new.status = "PAYMENT_VERIFIED" /\ new.result = purchases[q].result
      BY <1>5 DEF Sold
    <3>3. purchases' = [purchases EXCEPT ![q] = new]
      BY <1>4, <2>1
    <3> HIDE DEF new
    <3>4. /\ purchases' \in [Purchases -> Sold] /\ purchases'[q] = new
          /\ \A r \in Purchases : r # q => Keeps(r)
      BY <3>2, <3>3, RowBecomes
    <3>5. SoldSound(q)'
      BY <3>1, <3>2, <3>4 DEF SoldSound
    <3>6. Keeps(q) /\ Paid(q)'
      BY <3>1, <3>2, <3>4, <3>5 DEF Keeps, Paid, HasAnswer
    <3> QED
      BY <3>4, <3>6
  <2>2. CASE ~NewlyPaid(q)
    <3>1. purchases' = purchases
      BY <1>4, <2>2
    <3>2. \A r \in Purchases : Keeps(r)
      BY <3>1, RowStays
    <3>3. purchases[q].status \in {"none", "QUOTED", "PAYMENT_VERIFIED", "EXECUTED"}
      BY <1>5 DEF Sold
    <3>4. Paid(q)'
      BY <1>6, <2>2, <3>1, <3>3 DEF Paid, NewlyPaid
    <3> QED
      BY <1>5, <3>1, <3>2, <3>4
  <2> QED
    BY <2>1, <2>2
<1>9. SaleShape'
  BY <1>1, <1>7, <1>8 DEF SaleInv, SaleShape
<1>10. RequestSound(i)'
  <2>1. invoking[i].by \in Signed /\ invoking[i].input \in Inputs
    BY <1>1, <1>5 DEF RequestSound
  <2>2. Paid(q)'
    BY <1>8
  <2>3. invoking'[i].for \in Purchases /\ purchases'[invoking'[i].for] = purchases'[q]
    BY <1>7
  <2> QED
    BY <1>7, <2>1, <2>2, <2>3 DEF RequestSound, Paid
<1>11. ASSUME NEW r \in Purchases PROVE ToldOnce(r)'
  <2>1. CASE NewlyPaid(q) /\ r = q
    <3>1. ToldOnce(q) /\ ~Paid(q)
      BY <2>1 DEF SaleInv, NewlyPaid, Paid
    <3>2. told[q] <= 1 /\ told[q] # 1 /\ \A j \in Invocations : ~Newly(j, q)
      BY <3>1 DEF ToldOnce
    <3>3. \A j \in Invocations : Newly(j, q)' => j = i
      BY <1>7, <3>2 DEF Newly
    <3> QED
      BY <1>1, <1>8, <2>1, <3>2, <3>3 DEF ToldOnce
  <2>2. CASE ~(NewlyPaid(q) /\ r = q)
    <3>1. \A j \in Invocations : Newly(j, r)' => Newly(j, r)
      BY <1>7, <2>2 DEF Newly
    <3> QED
      BY <1>1, <1>8, <3>1, NobodyNewer
  <2> QED
    BY <2>1, <2>2
<1> QED
  BY <1>1, <1>7, <1>8, <1>9, <1>10, <1>11, SaleLast

LEMMA ExecuteOnceStep ==
  ASSUME SaleInv, NEW i \in Invocations, ExecuteOnce(i)
  PROVE  SaleInv'
<1>1. invoking[i].at = "executing" /\ UNCHANGED <<charged, told>>
  BY DEF ExecuteOnce
<1>2. RequestSound(i)
  BY DEF SaleInv
<1>3. PICK q \in Purchases, s \in Inputs : q = invoking[i].for /\ s = invoking[i].input
  BY <1>1, <1>2 DEF RequestSound
<1>4. purchases' = IF Executes(q)
                   THEN [purchases EXCEPT ![q] = [status |-> "EXECUTED", from |-> s, result |-> Economics(s)]]
                   ELSE purchases
  BY <1>3 DEF ExecuteOnce
<1>5. PICK place \in {"rejected", "settling"} :
        Moves(i, place) /\ (place = "settling" => purchases'[q].result.kind # "error")
  <2> DEFINE place == IF purchases'[q].result.kind = "error" THEN "rejected" ELSE "settling"
  <2>1. /\ place \in {"rejected", "settling"}
        /\ place = "settling" => purchases'[q].result.kind # "error"
    OBVIOUS
  <2>2. Moves(i, place)
    BY <1>3 DEF ExecuteOnce
  <2> HIDE DEF place
  <2> QED
    BY <2>1, <2>2
<1>6. /\ invoking' \in [Invocations -> Requests] /\ invoking'[i].at = place
      /\ invoking'[i].for = q /\ invoking'[i].by = invoking[i].by
      /\ invoking'[i].input = s /\ invoking'[i].newly = invoking[i].newly
      /\ \A j \in Invocations : j # i => invoking'[j] = invoking[j]
  BY <1>3, <1>5, SaleMoves
<1>7. /\ purchases \in [Purchases -> Sold] /\ SoldSound(q) /\ Paid(q)
  BY <1>1, <1>2, <1>3 DEF SaleInv, SaleShape, RequestSound
<1>8. \A input \in Inputs : Economics(input) \in SaleResults /\ Economics(input).kind \in {"error", "answer"}
  BY SaleAssumption, EconomicsTell
<1>9. /\ purchases' \in [Purchases -> Sold] /\ \A r \in Purchases : Keeps(r)
      /\ purchases'[q].result.kind \in {"error", "answer"}
  <2>1. CASE Executes(q)
    <3> DEFINE new == [status |-> "EXECUTED", from |-> s, result |-> Economics(s)]
    <3>1. purchases[q].status = "PAYMENT_VERIFIED" /\ purchases[q].result.kind = "none"
      BY <1>7, <2>1 DEF Executes, SoldSound
    <3>2. new \in Sold /\ new.status = "EXECUTED" /\ new.from = s /\ new.result = Economics(s)
      BY <1>8 DEF Sold
    <3>3. purchases' = [purchases EXCEPT ![q] = new]
      BY <1>4, <2>1
    <3> HIDE DEF new
    <3>4. /\ purchases' \in [Purchases -> Sold] /\ purchases'[q] = new
          /\ \A r \in Purchases : r # q => Keeps(r)
      BY <3>2, <3>3, RowBecomes
    <3>5. SoldSound(q)'
      BY <3>2, <3>4 DEF SoldSound
    <3>6. Keeps(q)
      BY <3>1, <3>2, <3>4, <3>5 DEF Keeps, Paid, HasAnswer
    <3> QED
      BY <1>8, <3>2, <3>4, <3>6
  <2>2. CASE ~Executes(q)
    <3>1. purchases' = purchases
      BY <1>4, <2>2
    <3>2. \A r \in Purchases : Keeps(r)
      BY <3>1, RowStays
    <3>3. purchases[q].status = "EXECUTED"
      BY <1>7, <2>2 DEF Executes, Paid
    <3>4. purchases[q].from \in Inputs /\ purchases[q].result = Economics(purchases[q].from)
      BY <1>7, <3>3 DEF SoldSound
    <3> QED
      BY <1>7, <1>8, <3>1, <3>2, <3>4
  <2> QED
    BY <2>1, <2>2
<1>10. SaleShape'
  BY <1>1, <1>6, <1>9 DEF SaleInv, SaleShape
<1>11. RequestSound(i)'
  <2>1. invoking[i].by \in Signed
    BY <1>1, <1>2 DEF RequestSound
  <2>2. place = "settling" => HasAnswer(q)'
    BY <1>5, <1>9 DEF HasAnswer
  <2> QED
    BY <1>6, <2>1, <2>2 DEF RequestSound, HasAnswer
<1>12. ASSUME NEW r \in Purchases PROVE ToldOnce(r)'
  <2>1. \A j \in Invocations : Newly(j, r)' => Newly(j, r)
    BY <1>1, <1>3, <1>6 DEF Newly
  <2> QED
    BY <1>1, <1>9, <2>1, NobodyNewer
<1> QED
  BY <1>1, <1>6, <1>9, <1>10, <1>11, <1>12, SaleLast

-----------------------------------------------------------------------------
LEMMA SaleSteps == SaleInv /\ [SaleNext]_saleVars => SaleInv'
<1> SUFFICES ASSUME SaleInv, [SaleNext]_saleVars PROVE SaleInv'
  OBVIOUS
<1>1. CASE UNCHANGED saleVars
  BY <1>1 DEF saleVars, SaleInv, SaleShape, SoldSound, ToldOnce, RequestSound, HasAnswer, Paid, Newly
<1>2. CASE SaleNext
  <2>1. PICK i \in Invocations :
          \/ \E q \in Purchases, p \in Signed, input \in Inputs : Verify(i, q, p, input)
          \/ CreateQuote(i) \/ RecordPayment(i) \/ ExecuteOnce(i)
          \/ Refuse(i) \/ SettleSale(i) \/ SettleSaleFails(i) \/ SaleCrash(i)
    BY <1>2 DEF SaleNext
  <2>2. CASE \E q \in Purchases, p \in Signed, input \in Inputs : Verify(i, q, p, input)
    BY <2>2, VerifyStep
  <2>3. CASE CreateQuote(i)
    BY <2>3, CreateQuoteStep
  <2>4. CASE RecordPayment(i)
    BY <2>4, RecordPaymentStep
  <2>5. CASE ExecuteOnce(i)
    BY <2>5, ExecuteOnceStep
  <2>6. CASE Refuse(i) \/ SettleSale(i)
    BY <2>6, EndStep
  <2>7. CASE SettleSaleFails(i) \/ SaleCrash(i)
    BY <2>7, LostStep
  <2> QED
    BY <2>1, <2>2, <2>3, <2>4, <2>5, <2>6, <2>7
<1> QED
  BY <1>1, <1>2

(***************************************************************************)
(* However often a purchase is invoked, by requests that cross or die: it  *)
(* is answered as newly charged at most once, money moves only for one     *)
(* that has an answer, and the answer's total is exact or of at most the   *)
(* known costs (record_payment, execute_once, compute_work_economics).     *)
(***************************************************************************)
THEOREM BuyersPayForAnswers == SaleSpec => []PaidForAnAnswer
<1>1. SaleInv => PaidForAnAnswer
  <2> SUFFICES ASSUME SaleInv PROVE PaidForAnAnswer
    OBVIOUS
  <2>1. \A q \in Purchases : told[q] <= 1
    BY DEF SaleInv, ToldOnce
  <2>2. \A c \in charged : purchases[c.for].result.kind = "answer"
    BY DEF SaleInv, HasAnswer
  <2>3. ASSUME NEW q \in Purchases, purchases[q].result.kind = "answer"
        PROVE  /\ purchases[q].result.exact <=> Costs(purchases[q].from) = DOMAIN purchases[q].from
               /\ IF Costs(purchases[q].from) = {} THEN purchases[q].result.total = UnknownCost
                  ELSE /\ \A n \in Costs(purchases[q].from) :
                            purchases[q].from[n] <= purchases[q].result.total
                       /\ purchases[q].result.total = 0 =>
                            \A n \in Costs(purchases[q].from) : purchases[q].from[n] = 0
    <3>1. SoldSound(q)
      BY DEF SaleInv
    <3>2. PICK s \in Inputs : s = purchases[q].from /\ purchases[q].result = Economics(s)
      BY <2>3, <3>1 DEF SoldSound
    <3>3. s \in Seq(Nat \cup {UnknownCost, Malformed})
      BY SaleAssumption
    <3>4. Economics(s).kind = "answer"
      BY <2>3, <3>2
    <3>5. /\ Economics(s).exact <=> Costs(s) = DOMAIN s
          /\ IF Costs(s) = {} THEN Economics(s).total = UnknownCost
             ELSE /\ \A n \in Costs(s) : s[n] <= Economics(s).total
                  /\ Economics(s).total = 0 => \A n \in Costs(s) : s[n] = 0
      BY <3>3, <3>4, EconomicsTell
    <3> QED
      BY <3>2, <3>5
  <2> QED
    BY <2>1, <2>2, <2>3 DEF PaidForAnAnswer, Costs
<1> QED
  BY <1>1, SaleStarts, SaleSteps, PTL DEF SaleSpec

-----------------------------------------------------------------------------
(***************************************************************************)
(* The ping's file, and a call's step that makes nothing worse.            *)
(***************************************************************************)
LEMMA FilesAre ==
  /\ Missing \in PingStates /\ ~Missing.enabled
  /\ Emptied \in PingStates /\ ~Emptied.enabled /\ Emptied.is = "empty"
  /\ Mixed \in PingStates
  /\ \A b \in BOOLEAN : NewState(b) \in PingStates /\ NewState(b).is = "whole"
  /\ Seeded \in PingStates /\ Seeded.is = "whole"
  /\ NotPinging \in Pings /\ ~NotPinging.knew /\ Harmless(NotPinging) /\ NotPinging.at = "free"
  /\ NotPinging.holds = "none"
<1>1. Missing \in PingStates /\ ~Missing.enabled
  BY DEF Missing, PingStates
<1>2. /\ Emptied \in PingStates /\ ~Emptied.enabled /\ Emptied.is = "empty"
      /\ Mixed \in PingStates
  BY DEF Missing, Emptied, Mixed, PingStates
<1>3. \A b \in BOOLEAN : NewState(b) \in PingStates /\ NewState(b).is = "whole"
  BY DEF NewState, PingStates
<1>4. Seeded \in PingStates /\ Seeded.is = "whole"
  BY <1>3, PingAssumption DEF Seeded
<1>5. /\ NotPinging \in Pings /\ ~NotPinging.knew /\ NotPinging.copy = Missing
      /\ NotPinging.op = "none" /\ NotPinging.at = "free" /\ NotPinging.holds = "none"
  BY <1>1 DEF NotPinging, Pings, Ops
<1> QED
  BY <1>1, <1>2, <1>3, <1>4, <1>5 DEF Harmless

LEMMA PingStarts == PingInit => PingInv
<1> SUFFICES ASSUME PingInit PROVE PingInv
  OBVIOUS
<1>1. PingShape
  <2>1. stateFile \in PingStates /\ tmpFile \in PingStates /\ pinging \in [Calls -> Pings]
    BY FilesAre DEF PingInit
  <2>2. optedOut = FALSE /\ collected = <<>> /\ activated = 0
    BY DEF PingInit
  <2>3. <<>> \in Seq(Ops)
    OBVIOUS
  <2>4. collected \in Seq(Ops)
    BY <2>2, <2>3, Zenon
  <2> QED
    <3>1. \A c \in Calls : pinging[c].at = "free"
      BY FilesAre DEF PingInit
    <3>2. \A c \in Calls : HasCopy(pinging[c])
      BY <3>1 DEF HasCopy
    <3>3. optedOut \in BOOLEAN /\ activated \in Nat
      BY <2>2
    <3> QED
      BY <2>1, <2>4, <3>2, <3>3 DEF PingShape
<1>2. OptOutLasts
  BY FilesAre DEF PingInit, OptOutLasts
<1>3. ActivatedByTheFirst
  <2>1. collected = <<>> /\ activated = 0
    BY DEF PingInit
  <2>2. {n \in DOMAIN collected : collected[n] = "first_receipt"} = {}
    BY <2>1
  <2> QED
    BY <2>1, <2>2 DEF ActivatedByTheFirst
<1> QED
  BY <1>1, <1>2, <1>3 DEF PingInv

LEMMA CallBecomes ==
  ASSUME PingInv, NEW c \in Calls, NEW new \in Pings, pinging' = [pinging EXCEPT ![c] = new]
  PROVE  /\ pinging' \in [Calls -> Pings] /\ pinging'[c] = new
         /\ \A d \in Calls : d # c => pinging'[d] = pinging[d]
BY DEF PingInv, PingShape

(***************************************************************************)
(* A step away from the shared file.                                       *)
(***************************************************************************)
LEMMA QuietStep ==
  ASSUME PingInv, NEW c \in Calls, NEW new \in Pings, pinging' = [pinging EXCEPT ![c] = new],
         ~new.knew, HasCopy(new), new.at \notin {"open", "moving"},
         optedOut' \in BOOLEAN, optedOut' => optedOut /\ Harmless(new),
         UNCHANGED <<stateFile, tmpFile, collected, activated>>
  PROVE  PingInv'
<1>1. /\ pinging' \in [Calls -> Pings] /\ pinging'[c] = new
      /\ \A d \in Calls : d # c => pinging'[d] = pinging[d]
  BY CallBecomes
<1>2. PingShape'
  BY <1>1 DEF PingInv, PingShape, HasCopy
<1>3. \A d \in Calls : ~pinging'[d].knew
  BY <1>1 DEF PingInv, OptOutLasts
<1>4. ASSUME optedOut'
      PROVE  /\ stateFile'.is = "whole" /\ ~stateFile'.enabled /\ ~tmpFile'.enabled
             /\ \A d \in Calls : Harmless(pinging[d])' /\ AsLeft(pinging[d])'
             /\ \A d, e \in Calls : AtFile(d)' /\ AtFile(e)' => d = e
  <2>1. /\ stateFile.is = "whole" /\ ~stateFile.enabled /\ ~tmpFile.enabled
        /\ \A d \in Calls : Harmless(pinging[d]) /\ AsLeft(pinging[d])
        /\ \A d, e \in Calls : AtFile(d) /\ AtFile(e) => d = e
    BY <1>4 DEF PingInv, OptOutLasts
  <2>2. \A d \in Calls : Harmless(pinging[d])' /\ AsLeft(pinging[d])'
    BY <1>1, <1>4, <2>1 DEF Harmless, AsLeft
  <2>3. \A d \in Calls : AtFile(d)' => AtFile(d)
    BY <1>1 DEF AtFile
  <2> QED
    BY <2>1, <2>2, <2>3
<1>5. ActivatedByTheFirst'
  BY DEF PingInv, ActivatedByTheFirst
<1> QED
  BY <1>2, <1>3, <1>4, <1>5 DEF PingInv, OptOutLasts

\* A call that ends.
LEMMA PingEnds ==
  ASSUME PingInv, NEW c \in Calls, pinging' = [pinging EXCEPT ![c] = NotPinging],
         UNCHANGED <<stateFile, tmpFile, optedOut, collected, activated>>
  PROVE  PingInv'
<1>1. optedOut' \in BOOLEAN /\ HasCopy(NotPinging)
  BY FilesAre DEF PingInv, PingShape, HasCopy
<1> QED
  BY <1>1, FilesAre, QuietStep

\* A call that goes on, with a copy of its own or with none that is new.
LEMMA PingGoesOn ==
  ASSUME PingInv, NEW c \in Calls, NEW new \in Pings, pinging' = [pinging EXCEPT ![c] = new],
         new.op = pinging[c].op, ~new.knew, optedOut => ~new.copy.enabled,
         HasCopy(new), new.at \notin {"open", "moving"},
         UNCHANGED <<stateFile, tmpFile, optedOut, collected, activated>>
  PROVE  PingInv'
<1>1. optedOut' \in BOOLEAN
  BY DEF PingInv, PingShape
<1>2. optedOut' => optedOut /\ Harmless(new)
  BY DEF PingInv, OptOutLasts, Harmless
<1> QED
  BY <1>1, <1>2, QuietStep

LEMMA SavesStep ==
  ASSUME PingInv, NEW c \in Calls, NEW state \in PingStates, NEW next \in {"free", "seeded", "naming"},
         Saves(c, state, next), state.is = "whole", optedOut => ~state.enabled,
         UNCHANGED <<stateFile, tmpFile, optedOut, collected, activated>>
  PROVE  PingInv'
<1> DEFINE new == [pinging[c] EXCEPT !.at = "writing", !.copy = state, !.to = next]
<1>1. pinging[c] \in Pings /\ ~pinging[c].knew
  BY DEF PingInv, PingShape, OptOutLasts
<1>2. /\ new \in Pings /\ new.op = pinging[c].op /\ ~new.knew /\ new.copy = state
      /\ new.at = "writing"
  BY <1>1 DEF Pings
<1>3. pinging' = [pinging EXCEPT ![c] = new]
  BY DEF Saves
<1> HIDE DEF new
<1>4. HasCopy(new)
  BY <1>2 DEF HasCopy
<1> QED
  BY <1>2, <1>3, <1>4, PingGoesOn

\* A call that only moves to another place, and may learn the install's id.
LEMMA PlaceStep ==
  ASSUME PingInv, NEW c \in Calls, NEW place \in {"writing id", "posting"}, NEW named \in BOOLEAN,
         pinging' = [pinging EXCEPT ![c].at = place, ![c].named = named],
         UNCHANGED <<stateFile, tmpFile, optedOut, collected, activated>>
  PROVE  PingInv'
<1> DEFINE new == [pinging[c] EXCEPT !.at = place, !.named = named]
<1>1. pinging[c] \in Pings /\ ~pinging[c].knew /\ (optedOut => Harmless(pinging[c]))
  BY DEF PingInv, PingShape, OptOutLasts
<1>2. /\ new \in Pings /\ new.op = pinging[c].op /\ ~new.knew /\ new.copy = pinging[c].copy
      /\ new.at = place
  BY <1>1 DEF Pings
<1>3. pinging' = [pinging EXCEPT ![c] = new]
  OBVIOUS
<1> HIDE DEF new
<1>4. (optedOut => ~new.copy.enabled) /\ HasCopy(new)
  BY <1>1, <1>2 DEF Harmless, HasCopy
<1> QED
  BY <1>2, <1>3, <1>4, PingGoesOn

-----------------------------------------------------------------------------
(***************************************************************************)
(* The calls' steps: asking, loading, checking, marking, switching.        *)
(***************************************************************************)
LEMMA BeginPingStep ==
  ASSUME PingInv, NEW c \in Calls, NEW op \in Does[c], BeginPing(c, op)
  PROVE  PingInv'
<1> DEFINE new == [NotPinging EXCEPT !.op = op, !.at = "loading"]
<1>1. op \in Ops
  BY PingAssumption DEF Ops, Events, Switches
<1>2. new \in Pings /\ new.op = op /\ ~new.knew /\ new.copy = Missing /\ new.at = "loading"
  <2>1. NotPinging \in Pings /\ NotPinging.copy = Missing /\ ~NotPinging.knew
    BY FilesAre DEF NotPinging
  <2> QED
    BY <1>1, <2>1 DEF Pings
<1>3. pinging' = [pinging EXCEPT ![c] = new]
  BY DEF BeginPing
<1>4. (optedOut' <=> optedOut /\ op # "enable") /\ optedOut' \in BOOLEAN
  BY DEF BeginPing, PingInv, PingShape
<1> HIDE DEF new
<1>5. (optedOut' => optedOut /\ Harmless(new)) /\ HasCopy(new)
  BY <1>2, <1>4, FilesAre DEF Harmless, HasCopy
<1>6. UNCHANGED <<stateFile, tmpFile, collected, activated>>
  BY DEF BeginPing, collectorVars
<1> QED
  BY <1>2, <1>3, <1>4, <1>5, <1>6, QuietStep

LEMMA ReadIs ==
  ASSUME PingInv, NEW b \in BOOLEAN
  PROVE  /\ ReadState(b) \in PingStates /\ ReadState(b).is = "whole"
         /\ optedOut => ~ReadState(b).enabled
BY FilesAre DEF PingInv, PingShape, OptOutLasts, ReadState

LEMMA LoadedIs ==
  ASSUME PingInv, NEW c \in Calls
  PROVE  /\ Loaded(c) \in PingStates /\ Loaded(c).is = "whole"
         /\ optedOut => ~Loaded(c).enabled
<1>1. /\ pinging[c] \in Pings /\ HasCopy(pinging[c])
      /\ optedOut => ~pinging[c].copy.enabled
  BY DEF PingInv, PingShape, OptOutLasts, Harmless
<1>2. pinging[c].copy \in PingStates
  BY <1>1 DEF Pings
<1>3. SeedEnabled \in BOOLEAN
  BY PingAssumption
<1> QED
  BY <1>1, <1>2, <1>3, ReadIs DEF Loaded, HasCopy

LEMMA LoadSeedsStep ==
  ASSUME PingInv, NEW c \in Calls, LoadSeeds(c)
  PROVE  PingInv'
<1>1. ~optedOut
  BY DEF LoadSeeds, PingInv, OptOutLasts
<1>2. Saves(c, Seeded, "seeded") /\ UNCHANGED <<stateFile, tmpFile, optedOut, collected, activated>>
  BY DEF LoadSeeds, collectorVars
<1> QED
  BY <1>1, <1>2, FilesAre, SavesStep

LEMMA CheckSwitchStep ==
  ASSUME PingInv, NEW c \in Calls, CheckSwitch(c)
  PROVE  PingInv'
<1>1. UNCHANGED <<stateFile, tmpFile, optedOut, collected, activated>>
  BY DEF CheckSwitch, collectorVars
<1>2. CASE ~LetsThrough(Loaded(c))
  <2>1. pinging' = [pinging EXCEPT ![c] = NotPinging]
    BY <1>2 DEF CheckSwitch
  <2> QED
    BY <1>1, <2>1, PingEnds
<1>3. CASE LetsThrough(Loaded(c))
  <2>1. ~optedOut
    BY <1>3, LoadedIs DEF LetsThrough
  <2> DEFINE place == IF pinging[c].op = "serve_start" THEN "naming" ELSE "marking"
             new == [pinging[c] EXCEPT !.at = place, !.copy = Missing, !.knew = FALSE]
  <2>2. place \in {"naming", "marking"}
    OBVIOUS
  <2>3. pinging' = [pinging EXCEPT ![c] = new]
    <3>1. optedOut = FALSE
      BY <2>1 DEF PingInv, PingShape
    <3> QED
      BY <1>3, <3>1 DEF CheckSwitch
  <2> HIDE DEF place
  <2>4. new \in Pings /\ new.op = pinging[c].op /\ ~new.knew /\ new.at \in {"naming", "marking"}
    <3>1. pinging[c] \in Pings
      BY DEF PingInv, PingShape
    <3> QED
      BY <2>2, <3>1, FilesAre DEF Pings
  <2> HIDE DEF new
  <2>5. HasCopy(new)
    BY <2>4 DEF HasCopy
  <2> QED
    BY <1>1, <2>1, <2>3, <2>4, <2>5, PingGoesOn
<1> QED
  BY <1>2, <1>3

LEMMA MarkSentStep ==
  ASSUME PingInv, NEW c \in Calls, MarkSent(c)
  PROVE  PingInv'
<1>1. UNCHANGED <<stateFile, tmpFile, optedOut, collected, activated>>
  BY DEF MarkSent, collectorVars
<1>2. CASE pinging' = [pinging EXCEPT ![c] = NotPinging]
  BY <1>1, <1>2, PingEnds
<1>3. CASE Saves(c, Marked(ReadState(TRUE), pinging[c].op), "naming")
  <2>1. PICK state \in PingStates :
          state = ReadState(TRUE) /\ state.is = "whole" /\ (optedOut => ~state.enabled)
    BY ReadIs
  <2>2. PICK op \in Ops : op = pinging[c].op
    BY DEF PingInv, PingShape, Pings
  <2> DEFINE beating == [state EXCEPT !.beat = TRUE]
             sending == [state EXCEPT !.sent = @ \cup {op}]
  <2>3. beating \in PingStates /\ beating.enabled = state.enabled /\ beating.is = state.is
    BY DEF PingStates
  <2>4. sending \in PingStates /\ sending.enabled = state.enabled /\ sending.is = state.is
    BY <2>2 DEF PingStates
  <2>5. Marked(state, op) \in {beating, sending}
    BY DEF Marked
  <2> HIDE DEF beating, sending
  <2>6. /\ Marked(state, op) \in PingStates /\ Marked(state, op).is = "whole"
        /\ optedOut => ~Marked(state, op).enabled
    BY <2>1, <2>3, <2>4, <2>5
  <2>7. Saves(c, Marked(state, op), "naming")
    BY <1>3, <2>1, <2>2
  <2> QED
    BY <1>1, <2>6, <2>7, SavesStep
<1> QED
  BY <1>2, <1>3 DEF MarkSent

LEMMA SwitchStep ==
  ASSUME PingInv, NEW c \in Calls, Switch(c)
  PROVE  PingInv'
<1>1. UNCHANGED <<stateFile, tmpFile, optedOut, collected, activated>>
  BY DEF Switch, collectorVars
<1>2. PICK b \in BOOLEAN : b = (pinging[c].op = "enable")
  OBVIOUS
<1> DEFINE state == [Loaded(c) EXCEPT !.enabled = b]
<1>3. state \in PingStates /\ state.enabled = b /\ state.is = "whole"
  BY LoadedIs DEF PingStates
<1>4. Saves(c, state, "free")
  BY <1>2 DEF Switch
<1>5. optedOut => ~b
  BY <1>2 DEF PingInv, OptOutLasts, Harmless
<1> HIDE DEF state
<1> QED
  BY <1>1, <1>3, <1>4, <1>5, SavesStep

-----------------------------------------------------------------------------
(***************************************************************************)
(* save_state and ensure_install_id.                                       *)
(***************************************************************************)
LEMMA OpenTmpStep ==
  ASSUME PingInv, NEW c \in Calls, OpenTmp(c)
  PROVE  PingInv'
<1>1. /\ UNCHANGED <<stateFile, collected, activated>> /\ tmpFile' = Emptied
      /\ pinging[c].at = "writing" /\ optedOut' = (optedOut /\ Undisturbed(c))
  BY DEF OpenTmp, collectorVars
<1> DEFINE new == [pinging[c] EXCEPT !.at = "open", !.holds = "tmp"]
<1>2. pinging[c] \in Pings /\ ~pinging[c].knew /\ HasCopy(pinging[c])
  BY DEF PingInv, PingShape, OptOutLasts
<1>3. /\ new \in Pings /\ new.op = pinging[c].op /\ ~new.knew /\ new.copy = pinging[c].copy
      /\ new.at = "open" /\ new.holds = "tmp"
  BY <1>2 DEF Pings
<1>4. pinging' = [pinging EXCEPT ![c] = new]
  BY DEF OpenTmp
<1> HIDE DEF new
<1>5. /\ pinging' \in [Calls -> Pings] /\ pinging'[c] = new
      /\ \A d \in Calls : d # c => pinging'[d] = pinging[d]
  BY <1>3, <1>4, CallBecomes
<1>6. \A d \in Calls : HasCopy(pinging'[d]) /\ ~pinging'[d].knew
  BY <1>1, <1>2, <1>3, <1>5 DEF PingInv, PingShape, HasCopy, OptOutLasts
<1>7. PingShape'
  BY <1>1, <1>5, <1>6, FilesAre DEF PingInv, PingShape, Undisturbed
<1>8. ASSUME optedOut'
      PROVE  /\ stateFile'.is = "whole" /\ ~stateFile'.enabled /\ ~tmpFile'.enabled
             /\ \A d \in Calls : Harmless(pinging[d])' /\ AsLeft(pinging[d])'
             /\ \A d, e \in Calls : AtFile(d)' /\ AtFile(e)' => d = e
  <2>1. /\ stateFile.is = "whole" /\ ~stateFile.enabled
        /\ \A d \in Calls : Harmless(pinging[d])
        /\ \A d \in Calls \ {c} : ~AtFile(d)
    BY <1>1, <1>8 DEF PingInv, OptOutLasts, Undisturbed
  <2>2. \A d \in Calls \ {c} : pinging'[d].at \notin {"open", "moving"}
    BY <1>5, <2>1 DEF AtFile
  <2>3. \A d \in Calls : Harmless(pinging[d])'
    BY <1>3, <1>5, <2>1 DEF Harmless
  <2>4. \A d \in Calls : AsLeft(pinging[d])'
    BY <1>1, <1>3, <1>5, <2>2, FilesAre DEF AsLeft
  <2> QED
    BY <1>1, <2>1, <2>2, <2>3, <2>4, FilesAre DEF AtFile
<1>9. ActivatedByTheFirst'
  BY <1>1 DEF PingInv, ActivatedByTheFirst
<1> QED
  BY <1>6, <1>7, <1>8, <1>9 DEF PingInv, OptOutLasts

LEMMA WriteTmpStep ==
  ASSUME PingInv, NEW c \in Calls, WriteTmp(c)
  PROVE  PingInv'
<1> DEFINE copy == pinging[c].copy
           new == [pinging[c] EXCEPT !.at = "moving", !.holds = "none"]
<1>1. UNCHANGED <<optedOut, collected, activated>> /\ pinging[c].at = "open"
  BY DEF WriteTmp, collectorVars
<1>2. /\ pinging[c] \in Pings /\ ~pinging[c].knew /\ HasCopy(pinging[c])
      /\ stateFile \in PingStates /\ tmpFile \in PingStates
  BY DEF PingInv, PingShape, OptOutLasts
<1>3. /\ new \in Pings /\ new.op = pinging[c].op /\ ~new.knew /\ new.copy = copy
      /\ new.at = "moving" /\ copy \in PingStates /\ copy.is = "whole"
  BY <1>1, <1>2 DEF Pings, HasCopy
<1>4. pinging' = [pinging EXCEPT ![c] = new]
  BY DEF WriteTmp
<1>5. /\ tmpFile' \in {tmpFile, copy, Mixed} /\ stateFile' \in {stateFile, copy, Mixed}
      /\ pinging[c].holds = "tmp" /\ tmpFile.is = "empty" =>
           tmpFile' = copy /\ stateFile' = stateFile
  BY DEF WriteTmp, Written
<1> HIDE DEF new, copy
<1>6. /\ pinging' \in [Calls -> Pings] /\ pinging'[c] = new
      /\ \A d \in Calls : d # c => pinging'[d] = pinging[d]
  BY <1>3, <1>4, CallBecomes
<1>7. \A d \in Calls : HasCopy(pinging'[d]) /\ ~pinging'[d].knew
  BY <1>3, <1>6 DEF PingInv, PingShape, HasCopy, OptOutLasts
<1>8. PingShape'
  BY <1>1, <1>2, <1>3, <1>5, <1>6, <1>7, FilesAre DEF PingInv, PingShape
<1>9. ASSUME optedOut'
      PROVE  /\ stateFile'.is = "whole" /\ ~stateFile'.enabled /\ ~tmpFile'.enabled
             /\ \A d \in Calls : Harmless(pinging[d])' /\ AsLeft(pinging[d])'
             /\ \A d, e \in Calls : AtFile(d)' /\ AtFile(e)' => d = e
  <2>1. /\ stateFile.is = "whole" /\ ~stateFile.enabled
        /\ \A d \in Calls : Harmless(pinging[d])
        /\ \A d, e \in Calls : AtFile(d) /\ AtFile(e) => d = e
        /\ pinging[c].holds = "tmp" /\ tmpFile.is = "empty"
    BY <1>1, <1>9 DEF PingInv, OptOutLasts, AsLeft
  <2>2. tmpFile' = copy /\ stateFile' = stateFile /\ ~copy.enabled
    BY <1>5, <2>1 DEF Harmless, copy
  <2>3. \A d \in Calls \ {c} : pinging'[d].at \notin {"open", "moving"}
    BY <1>1, <1>6, <2>1 DEF AtFile
  <2>4. \A d \in Calls : Harmless(pinging[d])'
    BY <1>3, <1>6, <2>1, <2>2 DEF Harmless
  <2>5. \A d \in Calls : AsLeft(pinging[d])'
    BY <1>3, <1>6, <2>2, <2>3 DEF AsLeft
  <2> QED
    BY <2>1, <2>2, <2>3, <2>4, <2>5 DEF AtFile
<1>10. ActivatedByTheFirst'
  BY <1>1 DEF PingInv, ActivatedByTheFirst
<1> QED
  BY <1>7, <1>8, <1>9, <1>10 DEF PingInv, OptOutLasts

\* What the calls become when a file is in place.
LEMMA SavedIs ==
  ASSUME PingInv, NEW c \in Calls, pinging[c].at = "moving"
  PROVE  /\ Saved(pinging[c]) \in Pings /\ ~Saved(pinging[c]).knew /\ HasCopy(Saved(pinging[c]))
         /\ Saved(pinging[c]).at \notin {"open", "moving"}
         /\ pinging[c].to = "free" \/ optedOut => Harmless(Saved(pinging[c]))
<1>1. /\ pinging[c] \in Pings /\ ~pinging[c].knew /\ (optedOut => Harmless(pinging[c]))
      /\ pinging[c].copy.is = "whole"
  BY DEF PingInv, PingShape, OptOutLasts, HasCopy
<1>2. pinging[c].to \in {"free", "seeded", "naming"}
  BY <1>1 DEF Pings
<1>3. CASE pinging[c].to = "free"
  BY <1>3, FilesAre DEF Saved, HasCopy
<1>4. CASE pinging[c].to = "seeded"
  <2> DEFINE new == [pinging[c] EXCEPT !.at = "seeded"]
  <2>1. /\ new \in Pings /\ new.op = pinging[c].op /\ ~new.knew /\ new.copy = pinging[c].copy
        /\ new.at = "seeded"
    BY <1>1 DEF Pings
  <2>2. Saved(pinging[c]) = new
    BY <1>4 DEF Saved
  <2> HIDE DEF new
  <2> QED
    BY <1>1, <1>4, <2>1, <2>2 DEF Harmless, HasCopy
<1>5. CASE pinging[c].to = "naming"
  <2> DEFINE new == [pinging[c] EXCEPT !.at = "naming", !.copy = Missing]
  <2>1. /\ new \in Pings /\ new.op = pinging[c].op /\ ~new.knew /\ new.copy = Missing
        /\ new.at = "naming"
    BY <1>1, FilesAre DEF Pings
  <2>2. Saved(pinging[c]) = new
    BY <1>5 DEF Saved
  <2> HIDE DEF new
  <2> QED
    BY <1>1, <1>5, <2>1, <2>2, FilesAre DEF Harmless, HasCopy
<1> QED
  BY <1>2, <1>3, <1>4, <1>5

LEMMA ShiftedIs ==
  ASSUME NEW call \in Pings
  PROVE  /\ Shifted(call) \in Pings
         /\ Shifted(call).op = call.op /\ Shifted(call).at = call.at
         /\ Shifted(call).copy = call.copy /\ Shifted(call).knew = call.knew
BY DEF Shifted, Pings

(***************************************************************************)
(* The file is in place: whether it opts out for good is for the one who   *)
(* disables to tell, alone.                                                *)
(***************************************************************************)
LEMMA MoveTmpStep ==
  ASSUME PingInv, NEW c \in Calls, MoveTmp(c)
  PROVE  PingInv'
<1> DEFINE opts == pinging[c].op = "disable" /\ pinging[c].to = "free"
<1>1. /\ stateFile' = tmpFile /\ tmpFile' = Missing /\ pinging[c].at = "moving"
      /\ UNCHANGED <<collected, activated>>
      /\ optedOut' = IF opts THEN tmpFile.is = "whole" /\ ~tmpFile.enabled /\ Alone(c) ELSE optedOut
      /\ pinging' = [d \in Calls |-> IF d = c THEN Saved(pinging[d]) ELSE Shifted(pinging[d])]
  BY DEF MoveTmp, collectorVars
<1>2. /\ tmpFile \in PingStates /\ optedOut \in BOOLEAN
      /\ \A d \in Calls : pinging[d] \in Pings /\ HasCopy(pinging[d]) /\ ~pinging[d].knew
  BY DEF PingInv, PingShape, OptOutLasts
<1>3. /\ pinging'[c] \in Pings /\ ~pinging'[c].knew /\ HasCopy(pinging'[c])
      /\ pinging'[c].at \notin {"open", "moving"}
      /\ pinging[c].to = "free" \/ optedOut => Harmless(pinging'[c])
  BY <1>1, SavedIs
<1>4. \A d \in Calls : d # c =>
        /\ pinging'[d] \in Pings
        /\ pinging'[d].op = pinging[d].op /\ pinging'[d].at = pinging[d].at
        /\ pinging'[d].copy = pinging[d].copy /\ pinging'[d].knew = pinging[d].knew
  BY <1>1, <1>2, ShiftedIs
<1>5. \A d \in Calls : pinging'[d] \in Pings /\ HasCopy(pinging'[d]) /\ ~pinging'[d].knew
  BY <1>2, <1>3, <1>4 DEF HasCopy
<1>6. optedOut' \in BOOLEAN
  <2>1. tmpFile.enabled \in BOOLEAN /\ Alone(c) \in BOOLEAN
    BY <1>2 DEF PingStates, Alone, Undisturbed
  <2> QED
    BY <1>1, <1>2, <2>1
<1>7. PingShape'
  BY <1>1, <1>2, <1>5, <1>6, FilesAre DEF PingInv, PingShape
<1>8. ASSUME optedOut'
      PROVE  /\ stateFile'.is = "whole" /\ ~stateFile'.enabled /\ ~tmpFile'.enabled
             /\ \A d \in Calls : Harmless(pinging[d])' /\ AsLeft(pinging[d])'
             /\ \A d, e \in Calls : AtFile(d)' /\ AtFile(e)' => d = e
  <2>1. /\ tmpFile.is = "whole" /\ ~tmpFile.enabled
        /\ \A d \in Calls \ {c} : ~AtFile(d) /\ ~pinging[d].copy.enabled /\ pinging[d].op # "enable"
        /\ pinging[c].to = "free" \/ optedOut
    <3>1. CASE opts
      BY <1>1, <1>8, <3>1 DEF Alone, Undisturbed
    <3>2. CASE ~opts
      BY <1>1, <1>8, <3>2 DEF PingInv, OptOutLasts, AsLeft, AtFile, Harmless
    <3> QED
      BY <3>1, <3>2
  <2>2. \A d \in Calls : pinging'[d].at \notin {"open", "moving"}
    BY <1>3, <1>4, <2>1 DEF AtFile
  <2>3. \A d \in Calls : Harmless(pinging[d])'
    BY <1>3, <1>4, <2>1 DEF Harmless
  <2> QED
    BY <1>1, <2>1, <2>2, <2>3, FilesAre DEF AtFile, AsLeft
<1>9. ActivatedByTheFirst'
  BY <1>1 DEF PingInv, ActivatedByTheFirst
<1> QED
  BY <1>5, <1>7, <1>8, <1>9 DEF PingInv, OptOutLasts

LEMMA IdStep ==
  ASSUME PingInv, NEW c \in Calls, CreateId(c) \/ WriteId(c) \/ ReadId(c)
  PROVE  PingInv'
<1>1. UNCHANGED <<stateFile, tmpFile, optedOut, collected, activated>>
  BY DEF CreateId, WriteId, ReadId, collectorVars
<1>2. CASE CreateId(c)
  <2> DEFINE new == [pinging[c] EXCEPT !.at = "writing id"]
  <2>1. pinging[c] \in Pings /\ ~pinging[c].knew /\ (optedOut => Harmless(pinging[c]))
    BY DEF PingInv, PingShape, OptOutLasts
  <2>2. /\ new \in Pings /\ new.op = pinging[c].op /\ ~new.knew /\ new.copy = pinging[c].copy
        /\ new.at = "writing id"
    BY <2>1 DEF Pings
  <2>3. pinging' = [pinging EXCEPT ![c] = new]
    BY <1>2 DEF CreateId, GoesTo
  <2> HIDE DEF new
  <2>4. (optedOut => ~new.copy.enabled) /\ HasCopy(new)
    BY <2>1, <2>2 DEF Harmless, HasCopy
  <2> QED
    BY <1>1, <2>2, <2>3, <2>4, PingGoesOn
<1>3. CASE WriteId(c)
  BY <1>1, <1>3, PlaceStep DEF WriteId
<1>4. CASE ReadId(c)
  <2>1. PICK named \in BOOLEAN : named = (idFile = "written")
    OBVIOUS
  <2>2. pinging' = [pinging EXCEPT ![c].at = "posting", ![c].named = named]
    BY <1>4, <2>1 DEF ReadId
  <2> QED
    BY <1>1, <2>2, PlaceStep
<1> QED
  BY <1>2, <1>3, <1>4

-----------------------------------------------------------------------------
(***************************************************************************)
(* The collector: the first report it stores activates, and no other does. *)
(***************************************************************************)
LEMMA CollectStep ==
  ASSUME PingInv, NEW c \in Calls, Collect(c)
  PROVE  PingInv'
<1> DEFINE firsts == {n \in DOMAIN collected : collected[n] = "first_receipt"}
<1>1. collected \in Seq(Ops) /\ activated \in Nat /\ pinging[c] \in Pings
  BY DEF PingInv, PingShape
<1>2. PICK event \in Ops : event = pinging[c].op
  BY <1>1 DEF Pings
<1>3. /\ collected' = Append(collected, event)
      /\ activated' = Reached(event, Len(collected'))
      /\ pinging' = [pinging EXCEPT ![c] = NotPinging]
      /\ UNCHANGED <<stateFile, tmpFile, optedOut>>
  BY <1>2 DEF Collect
<1>4. PICK m \in Nat : m = Len(collected)
  BY <1>1
<1>5. /\ collected' \in Seq(Ops) /\ Len(collected') = m + 1
      /\ DOMAIN collected = 1 .. m /\ DOMAIN collected' = 1 .. (m + 1)
      /\ \A n \in 1 .. m : collected'[n] = collected[n]
      /\ collected'[m + 1] = event
  BY <1>1, <1>3, <1>4
<1>6. activated' = IF event = "first_receipt" /\ activated = 0 THEN m + 1 ELSE activated
  BY <1>3, <1>5 DEF Reached
<1>7. /\ firsts = {} => activated = 0
      /\ firsts # {} => activated \in firsts /\ \A n \in firsts : activated <= n
  BY DEF PingInv, ActivatedByTheFirst
<1>8. firsts \subseteq 1 .. m
  BY <1>5
<1> DEFINE later == {n \in DOMAIN collected' : collected'[n] = "first_receipt"}
<1>9. later = IF event = "first_receipt" THEN firsts \cup {m + 1} ELSE firsts
  <2>1. \A n \in 1 .. (m + 1) : n \in later <=> n \in firsts \/ (n = m + 1 /\ event = "first_receipt")
    BY <1>5
  <2>2. later \subseteq 1 .. (m + 1) /\ m + 1 \in 1 .. (m + 1) /\ firsts \subseteq 1 .. (m + 1)
    BY <1>5, <1>8
  <2> HIDE DEF later, firsts
  <2> QED
    BY <2>1, <2>2
<1>10. /\ later = {} => activated' = 0
       /\ later # {} => activated' \in later /\ \A n \in later : activated' <= n
  <2> HIDE DEF later, firsts
  <2>1. CASE event # "first_receipt"
    BY <1>6, <1>7, <1>9, <2>1
  <2>2. CASE event = "first_receipt" /\ firsts = {}
    BY <1>6, <1>7, <1>9, <2>2
  <2>3. CASE event = "first_receipt" /\ firsts # {}
    <3>1. activated \in firsts /\ activated # 0
      <4>1. activated \in firsts
        BY <1>7, <2>3
      <4>2. activated \in 1 .. m
        BY <1>8, <4>1
      <4> QED
        BY <4>1, <4>2
    <3>2. activated' = activated /\ later = firsts \cup {m + 1}
      BY <1>6, <1>9, <2>3, <3>1
    <3>3. \A n \in later : n \in firsts \/ n = m + 1
      BY <3>2
    <3>4. activated \in 1 .. m
      BY <1>8, <3>1
    <3>5. \A n \in firsts : activated <= n
      BY <1>7, <2>3
    <3>6. activated <= m + 1
      BY <3>4
    <3>7. \A n \in later : activated <= n
      BY <3>3, <3>5, <3>6
    <3> QED
      BY <3>1, <3>2, <3>7
  <2> QED
    BY <2>1, <2>2, <2>3
<1>11. ActivatedByTheFirst'
  BY <1>10 DEF ActivatedByTheFirst
<1>12. /\ pinging' \in [Calls -> Pings] /\ pinging'[c] = NotPinging
       /\ \A d \in Calls : d # c => pinging'[d] = pinging[d]
  BY <1>3, FilesAre, CallBecomes
<1>13. activated' \in Nat
  BY <1>1, <1>6
<1>14. PingShape'
  BY <1>3, <1>5, <1>12, <1>13, FilesAre DEF PingInv, PingShape, HasCopy
<1>15. \A d \in Calls : /\ ~pinging'[d].knew /\ (AtFile(d)' => AtFile(d))
                        /\ optedOut' => Harmless(pinging[d])' /\ AsLeft(pinging[d])'
  BY <1>3, <1>12, FilesAre DEF PingInv, OptOutLasts, Harmless, AsLeft, AtFile
<1>16. OptOutLasts'
  BY <1>3, <1>15 DEF PingInv, OptOutLasts
<1> QED
  BY <1>11, <1>14, <1>16 DEF PingInv

LEMMA PingStops ==
  ASSUME PingInv, NEW c \in Calls, MoveFails(c) \/ PostFails(c) \/ PingCrash(c)
  PROVE  PingInv'
<1>1. /\ pinging' = [pinging EXCEPT ![c] = NotPinging]
      /\ UNCHANGED <<stateFile, tmpFile, optedOut, collected, activated>>
  BY DEF MoveFails, PostFails, PingCrash, collectorVars
<1> QED
  BY <1>1, PingEnds

LEMMA PingSteps == PingInv /\ [PingNext]_pingVars => PingInv'
<1> SUFFICES ASSUME PingInv, [PingNext]_pingVars PROVE PingInv'
  OBVIOUS
<1>1. CASE UNCHANGED pingVars
  <2>1. UNCHANGED <<stateFile, tmpFile, pinging, optedOut, collected, activated>>
    BY <1>1 DEF pingVars, clientVars, collectorVars
  <2> QED
    BY <2>1 DEF PingInv, PingShape, OptOutLasts, Harmless, AsLeft, AtFile, ActivatedByTheFirst
<1>2. CASE PingNext
  <2>1. PICK c \in Calls :
          \/ \E op \in Does[c] : BeginPing(c, op)
          \/ LoadSeeds(c) \/ CheckSwitch(c) \/ MarkSent(c) \/ Switch(c)
          \/ OpenTmp(c) \/ WriteTmp(c) \/ MoveTmp(c) \/ MoveFails(c)
          \/ CreateId(c) \/ WriteId(c) \/ ReadId(c)
          \/ Collect(c) \/ PostFails(c) \/ PingCrash(c)
    BY <1>2 DEF PingNext
  <2>2. CASE \E op \in Does[c] : BeginPing(c, op)
    BY <2>2, BeginPingStep
  <2>3. CASE LoadSeeds(c) \/ CheckSwitch(c) \/ MarkSent(c) \/ Switch(c)
    BY <2>3, LoadSeedsStep, CheckSwitchStep, MarkSentStep, SwitchStep
  <2>4. CASE OpenTmp(c) \/ WriteTmp(c) \/ MoveTmp(c)
    BY <2>4, OpenTmpStep, WriteTmpStep, MoveTmpStep
  <2>5. CASE CreateId(c) \/ WriteId(c) \/ ReadId(c)
    BY <2>5, IdStep
  <2>6. CASE Collect(c)
    BY <2>6, CollectStep
  <2>7. CASE MoveFails(c) \/ PostFails(c) \/ PingCrash(c)
    BY <2>7, PingStops
  <2> QED
    BY <2>1, <2>2, <2>3, <2>4, <2>5, <2>6, <2>7
<1> QED
  BY <1>1, <1>2

(***************************************************************************)
(* A disable that crossed no other writer stays in force until an enable   *)
(* or until two writers cross at the temporary file, whatever single       *)
(* writers do and wherever they die, and an install counts as activated    *)
(* from the first report that was stored (save_state, load_state, the      *)
(* collector's upsert).                                                    *)
(***************************************************************************)
THEOREM PingsStayHonest == PingSpec => []PingIsHonest
<1>1. PingInv => PingIsHonest
  BY DEF PingInv, PingIsHonest, OptOutLasts, OptOutHolds, Harmless
<1> QED
  BY <1>1, PingStarts, PingSteps, PTL DEF PingSpec

-----------------------------------------------------------------------------
(***************************************************************************)
(* Costs: products of naturals are naturals, an estimate is no bound or a  *)
(* natural number, and what a result becomes is a row.                     *)
(***************************************************************************)
LEMMA TokenCostIs ==
  ASSUME invoice \in Invoices, invoice.input # CostUnknown, NEW prompt \in Nat, NEW completion \in Nat
  PROVE  TokenCost(prompt, completion) \in Nat
<1>1. invoice.input \in Nat /\ invoice.output \in Nat
  BY CostsAssumption DEF Amounts
<1>2. \A m, n \in Nat : m * n \in Nat
  OBVIOUS
<1>3. prompt * invoice.input \in Nat /\ completion * invoice.output \in Nat
  BY <1>1, <1>2
<1> QED
  BY <1>3 DEF TokenCost

LEMMA EstimateIs ==
  ASSUME invoice \in Invoices
  PROVE  /\ EstimateCost \in Amounts
         /\ EstimateCost # CostUnknown => invoice.input # CostUnknown
<1>1. CASE invoice.chars = CostUnknown \/ invoice.input = CostUnknown
  BY <1>1 DEF EstimateCost, Amounts
<1>2. CASE invoice.chars # CostUnknown /\ invoice.input # CostUnknown
  <2>1. invoice.chars \in Nat /\ CharsPerToken \in Nat \ {0} /\ MaxCompletion \in Nat
    BY <1>2, CostsAssumption DEF Amounts
  <2>2. \A m \in Nat, n \in Nat \ {0} : m \div n \in Int
    OBVIOUS
  <2> DEFINE tokens == invoice.chars \div CharsPerToken
             prompt == IF tokens < 1 THEN 1 ELSE tokens
  <2>3. tokens \in Int
    BY <2>1, <2>2
  <2> HIDE DEF tokens
  <2>4. prompt \in Nat
    BY <2>3
  <2> HIDE DEF prompt
  <2>5. TokenCost(prompt, MaxCompletion) \in Nat
    BY <1>2, <2>1, <2>4, TokenCostIs
  <2>6. EstimateCost = TokenCost(prompt, MaxCompletion)
    BY <1>2 DEF EstimateCost, tokens, prompt
  <2> QED
    BY <1>2, <2>5, <2>6 DEF Amounts
<1> QED
  BY <1>1, <1>2

LEMMA RetryRowsAre ==
  ASSUME invoice \in Invoices, invoice.input # CostUnknown, NEW result \in Results, NEW estimate \in Amounts
  PROVE  /\ ChargeOf(result.usage) \in Nat
         /\ AttemptRow(result, estimate) \in RetryRows
         /\ AttemptRow(result, estimate).status # "none"
         /\ AttemptRow(result, estimate).estimate = estimate
         /\ AttemptRow(result, estimate).cost # CostUnknown =>
              AttemptRow(result, estimate).cost = ChargeOf(result.usage)
<1>1. /\ result.status \in {"success", "partial", "ambiguous"} /\ result.passed \in BOOLEAN
      /\ result.usage.prompt \in Nat /\ result.usage.completion \in Nat
  BY CostsAssumption DEF Results
<1>2. ChargeOf(result.usage) \in Nat
  BY <1>1, TokenCostIs DEF ChargeOf
<1>3. CostOfResult(result) \in Amounts
      /\ (CostOfResult(result) # CostUnknown => CostOfResult(result) = ChargeOf(result.usage))
  BY <1>2 DEF CostOfResult, Amounts, CostUnknown
<1> QED
  BY <1>1, <1>2, <1>3 DEF AttemptRow, RetryRows

LEMMA PlainRows ==
  /\ NoAttempt \in RetryRows /\ NoAttempt.status = "none" /\ NoAttempt.cost = CostUnknown
  /\ AmbiguousRow \in RetryRows /\ AmbiguousRow.status = "ambiguous" /\ AmbiguousRow.cost = CostUnknown
BY DEF NoAttempt, AmbiguousRow, RetryRows, Amounts, CostUnknown

-----------------------------------------------------------------------------
(***************************************************************************)
(* The sum of no cost, of one, and of two.                                 *)
(***************************************************************************)
LEMMA SumOfNone == SumUp(<<>>) = 0
<1>1. DOMAIN <<>> = {}
  OBVIOUS
<1> QED
  BY <1>1, TotalEmpty DEF SumUp

LEMMA SumOfOne ==
  ASSUME NEW x \in Nat
  PROVE  SumUp(<<x>>) = x
<1>1. DOMAIN <<x>> = {1} /\ <<x>>[1] = x
  OBVIOUS
<1>2. Total(<<x>>, {1}) = <<x>>[1]
  BY <1>1, TotalSingleton
<1> QED
  BY <1>1, <1>2 DEF SumUp

LEMMA OneIs ==
  ASSUME NEW x
  PROVE  <<x>> \o <<>> = <<x>> /\ <<>> \o <<x>> = <<x>>
<1>1. <<x>> \in Seq({x})
  OBVIOUS
<1> QED
  BY <1>1, ConcatEmptySeq

LEMMA BothAre ==
  ASSUME NEW x, NEW y
  PROVE  <<x>> \o <<y>> = <<x, y>>
<1> DEFINE both == <<x>> \o <<y>>
           pair == <<x, y>>
<1>1. pair \in Seq({x, y}) /\ Len(pair) = 2 /\ both \in Seq({x, y}) /\ Len(both) = 2
  OBVIOUS
<1>2. \A i \in 1 .. 2 : both[i] = pair[i]
  OBVIOUS
<1> HIDE DEF both, pair
<1>3. both = pair
  BY <1>1, <1>2, SeqEqual
<1> QED
  BY <1>3 DEF both, pair

LEMMA TotalOfTwo ==
  ASSUME NEW f, f[1] \in Nat, f[2] \in Nat
  PROVE  Total(f, {1, 2}) = f[1] + f[2]
<1>1. IsFiniteSet({1})
  BY FS_Singleton
<1>2. 2 \notin {1} /\ {1} \cup {2} = {1, 2}
  OBVIOUS
<1>3. Total(f, {1} \cup {2}) = Total(f, {1}) + f[2]
  BY <1>1, <1>2, TotalInsert
<1> QED
  BY <1>2, <1>3, TotalSingleton

LEMMA SumOfTwo ==
  ASSUME NEW x \in Nat, NEW y \in Nat
  PROVE  SumUp(<<x, y>>) = x + y
<1>1. DOMAIN <<x, y>> = {1, 2} /\ <<x, y>>[1] = x /\ <<x, y>>[2] = y
  OBVIOUS
<1> QED
  BY <1>1, TotalOfTwo DEF SumUp

\* What a cost adds: itself, or nothing where it is not known.
Adds(cost) == IF cost = CostUnknown THEN 0 ELSE cost

LatestCost(rs) == IF rs = <<>> THEN CostUnknown ELSE Last(rs)

LEMMA LatestIs ==
  ASSUME NEW rs \in Seq(Amounts)
  PROVE  LatestCost(rs) \in Amounts
<1>1. rs # <<>> => rs[Len(rs)] \in Amounts
  OBVIOUS
<1> QED
  BY <1>1 DEF LatestCost, Last, Amounts

LEMMA KnownSum ==
  ASSUME NEW d, NEW a \in RetryRows, NEW rs \in Seq(Amounts), a.cost # CostUnknown => d.action = "retry"
  PROVE  SumUp(KnownCosts(d, a, rs)) = Adds(a.cost) + Adds(LatestCost(rs))
<1> DEFINE x == a.cost
           y == LatestCost(rs)
           xs == IF x # CostUnknown THEN <<x>> ELSE <<>>
           ys == IF y # CostUnknown THEN <<y>> ELSE <<>>
<1>1. x \in Amounts /\ y \in Amounts
  BY LatestIs DEF RetryRows
<1>2. KnownCosts(d, a, rs) = xs \o ys
  BY DEF KnownCosts, LatestCost
<1> HIDE DEF x, y
<1>3. x # CostUnknown => x \in Nat
  BY <1>1 DEF Amounts
<1>4. y # CostUnknown => y \in Nat
  BY <1>1 DEF Amounts
<1>5. CASE x = CostUnknown /\ y = CostUnknown
  <2>1. xs \o ys = <<>>
    BY <1>5
  <2> QED
    BY <1>2, <1>5, <2>1, SumOfNone DEF Adds, x, y
<1>6. CASE x # CostUnknown /\ y = CostUnknown
  <2>1. xs \o ys = <<x>>
    BY <1>6
  <2> QED
    BY <1>2, <1>3, <1>6, <2>1, SumOfOne DEF Adds, x, y
<1>7. CASE x = CostUnknown /\ y # CostUnknown
  <2>1. xs \o ys = <<y>>
    BY <1>7
  <2> QED
    BY <1>2, <1>4, <1>7, <2>1, SumOfOne DEF Adds, x, y
<1>8. CASE x # CostUnknown /\ y # CostUnknown
  <2>1. xs = <<x>> /\ ys = <<y>>
    BY <1>8
  <2>2. xs \o ys = <<x, y>>
    BY <1>1, <2>1, BothAre
  <2> QED
    BY <1>2, <1>3, <1>4, <1>8, <2>2, SumOfTwo DEF Adds, x, y
<1> QED
  BY <1>5, <1>6, <1>7, <1>8

LEMMA ExportedSum ==
  ASSUME NEW a \in RetryRows, NEW rs \in Seq(Amounts), a.status = "none" => a.cost = CostUnknown
  PROVE  ExportedKnown(a, rs) = Adds(a.cost) + Adds(LatestCost(rs))
<1> DEFINE x == a.cost
           y == LatestCost(rs)
           shown == a.status # "none"
           seen == rs # <<>>
           first == [of |-> "retry", cost |-> x]
           second == [of |-> "review", cost |-> Last(rs)]
           before == IF shown THEN <<first>> ELSE <<>>
           after == IF seen THEN <<second>> ELSE <<>>
           exported == before \o after
           cost == [i \in DOMAIN exported |-> exported[i].cost]
           known == {i \in DOMAIN exported : exported[i].cost # CostUnknown}
<1>1. x \in Amounts /\ y \in Amounts /\ (~shown => x = CostUnknown) /\ (~seen => y = CostUnknown)
  BY LatestIs DEF RetryRows, LatestCost
<1>2. ExportedKnown(a, rs) = Total(cost, known)
  BY DEF ExportedKnown, ExportedEvents
<1>3. first.cost = x /\ (seen => second.cost = y)
  BY DEF LatestCost
<1> HIDE DEF x, y, shown, seen, first, second
<1>4. (x # CostUnknown => x \in Nat) /\ (y # CostUnknown => y \in Nat)
  BY <1>1 DEF Amounts
<1>5. CASE ~shown /\ ~seen
  <2>1. exported = <<>>
    BY <1>5
  <2>2. known = {}
    BY <2>1
  <2> QED
    BY <1>1, <1>2, <1>5, <2>2, TotalEmpty DEF Adds, x, y
<1>6. CASE (shown /\ ~seen) \/ (~shown /\ seen)
  <2> DEFINE z == IF shown THEN x ELSE y
             only == IF shown THEN first ELSE second
  <2>0. Adds(x) + Adds(y) = Adds(z) /\ (z # CostUnknown => z \in Nat)
    BY <1>1, <1>4, <1>6 DEF Adds, CostUnknown
  <2>1. exported = <<only>>
    <3>1. CASE shown /\ ~seen
      <4>1. before = <<first>> /\ after = <<>> /\ only = first
        BY <3>1
      <4> QED
        BY <4>1, OneIs
    <3>2. CASE ~shown /\ seen
      <4>1. before = <<>> /\ after = <<second>> /\ only = second
        BY <3>2
      <4> QED
        BY <4>1, OneIs
    <3> QED
      BY <1>6, <3>1, <3>2 DEF shown, seen
  <2>2. DOMAIN exported = {1} /\ exported[1].cost = z
    <3>1. only.cost = z
      BY <1>3, <1>6
    <3> HIDE DEF only, exported, z
    <3> QED
      BY <2>1, <3>1
  <2> HIDE DEF exported, z
  <2>3. CASE z = CostUnknown
    <3>1. known = {}
      BY <2>2, <2>3
    <3> QED
      BY <1>2, <2>0, <2>3, <3>1, TotalEmpty DEF Adds, x, y
  <2>4. CASE z # CostUnknown
    <3>1. known = {1} /\ cost[1] = z /\ z \in Nat
      BY <2>0, <2>2, <2>4
    <3>2. Total(cost, {1}) = z
      BY <3>1, TotalSingleton
    <3> QED
      BY <1>2, <2>0, <2>4, <3>1, <3>2 DEF Adds, x, y
  <2> QED
    BY <2>3, <2>4
<1>7. CASE shown /\ seen
  <2>1. before = <<first>> /\ after = <<second>>
    BY <1>7
  <2>9. <<first>> \o <<second>> = <<first, second>>
    BY BothAre
  <2>2. DOMAIN exported = {1, 2} /\ exported[1].cost = x /\ exported[2].cost = y
    <3>1. exported = <<first, second>>
      BY <2>1, <2>9
    <3> HIDE DEF exported
    <3> QED
      BY <1>3, <1>7, <3>1
  <2> HIDE DEF exported
  <2>3. DOMAIN cost = {1, 2} /\ cost[1] = x /\ cost[2] = y
    BY <2>2
  <2>4. known = (IF x = CostUnknown THEN {} ELSE {1}) \cup (IF y = CostUnknown THEN {} ELSE {2})
    BY <2>2
  <2> HIDE DEF cost, known
  <2>5. CASE x = CostUnknown /\ y = CostUnknown
    BY <1>2, <2>4, <2>5, TotalEmpty DEF Adds, x, y
  <2>6. CASE x # CostUnknown /\ y = CostUnknown
    BY <1>2, <1>4, <2>3, <2>4, <2>6, TotalSingleton DEF Adds, x, y
  <2>7. CASE x = CostUnknown /\ y # CostUnknown
    BY <1>2, <1>4, <2>3, <2>4, <2>7, TotalSingleton DEF Adds, x, y
  <2>8. CASE x # CostUnknown /\ y # CostUnknown
    <3>1. known = {1, 2}
      BY <2>4, <2>8
    <3> QED
      BY <1>2, <1>4, <2>3, <2>8, <3>1, TotalOfTwo DEF Adds, x, y
  <2> QED
    BY <2>5, <2>6, <2>7, <2>8
<1> QED
  BY <1>5, <1>6, <1>7 DEF shown, seen
-----------------------------------------------------------------------------
LEMMA CostsBegin == CostsInit => CostsInv
<1> SUFFICES ASSUME CostsInit PROVE CostsInv
  OBVIOUS
<1>1. invoice \in Invoices
  BY CostsAssumption DEF CostsInit
<1>2. CostUnknown \in Amounts /\ <<>> \in Seq(Amounts) /\ <<>> \in Seq(Amounts)
  BY DEF Amounts
<1>3. caseRow \in CaseRows /\ caseRow.status = "none" /\ caseRow.action = "none"
  BY DEF CostsInit, CaseRows
<1>4. CostsShape
  <2>1. worker \in RetryWorkers
    BY <1>2, PlainRows DEF CostsInit, RetryWorkers
  <2> QED
    BY <1>1, <1>2, <1>3, <2>1, PlainRows DEF CostsInit, CostsShape, NothingRead
<1>5. WorkerKnows /\ RowsTell /\ ReportTells
  BY <1>3, PlainRows DEF CostsInit, WorkerKnows, RowsTell, ReportTells, NothingRead, Left
<1> QED
  BY <1>4, <1>5 DEF CostsInv

(***************************************************************************)
(* What a report read of a decision that had ended stays so while no step  *)
(* takes the decision back and, without an early review, none touches the  *)
(* attempt.                                                                *)
(***************************************************************************)
LEMMA ReportStays ==
  ASSUME ReportTells, report' = report, caseRow'.action = caseRow.action,
         Left(caseRow) => Left(caseRow)', early => early',
         Left(caseRow) /\ ~early' => attempt' = attempt,
         lateResults # <<>> => lateResults' # <<>>
  PROVE  ReportTells'
BY DEF ReportTells

LEMMA DecideRetryStep == CostsInv /\ DecideRetry => CostsInv'
<1> SUFFICES ASSUME CostsInv, DecideRetry PROVE CostsInv'
  OBVIOUS
<1>1. /\ caseRow.status = "none" /\ invoice' \in Invoices
      /\ UNCHANGED <<attempt, lateResults, reviewCosts, billed, early, report, reports>>
  BY DEF DecideRetry
<1>2. PICK action \in {"retry", "human_review", "insufficient_evidence"} :
        /\ caseRow' = [status |-> IF action = "retry" THEN "retry_in_progress" ELSE "awaiting_human_review",
                       action |-> action]
        /\ worker' = [worker EXCEPT !.at = IF action = "retry" THEN "estimating" ELSE "gone"]
  BY DEF DecideRetry
<1>3. /\ attempt = NoAttempt /\ lateResults = <<>> /\ billed = 0
      /\ ~(report.at # "idle" /\ report.decision.status \in ReportTerminal)
  BY <1>1 DEF CostsInv, RowsTell, ReportTells, Left
<1>4. /\ worker'.at = IF action = "retry" THEN "estimating" ELSE "gone"
      /\ caseRow'.status = IF action = "retry" THEN "retry_in_progress" ELSE "awaiting_human_review"
      /\ caseRow'.action = action
  BY <1>2 DEF CostsInv, CostsShape, RetryWorkers
<1>5. CostsShape'
  <2>1. caseRow' \in CaseRows
    BY <1>2 DEF CaseRows
  <2>2. worker' \in RetryWorkers
    BY <1>2 DEF CostsInv, CostsShape, RetryWorkers
  <2> QED
    BY <1>1, <2>1, <2>2 DEF CostsInv, CostsShape, RetryWorkers
<1>6. WorkerKnows'
  BY <1>1, <1>3, <1>4, PlainRows DEF WorkerKnows, Unrecorded
<1>7. RowsTell'
  BY <1>1, <1>3, <1>4, PlainRows DEF RowsTell, Left
<1>8. ReportTells'
  BY <1>1, <1>3 DEF ReportTells
<1> QED
  BY <1>5, <1>6, <1>7, <1>8 DEF CostsInv

LEMMA AuthorizeStep == CostsInv /\ Authorize => CostsInv'
<1> SUFFICES ASSUME CostsInv, Authorize PROVE CostsInv'
  OBVIOUS
<1>1. /\ worker.at = "estimating"
      /\ UNCHANGED <<invoice, caseRow, attempt, lateResults, reviewCosts, billed, early, report, reports>>
      /\ worker' = [worker EXCEPT !.estimate = EstimateCost,
                                  !.at = IF Authorized(EstimateCost) THEN "calling" ELSE "refused"]
  BY DEF Authorize
<1>2. EstimateCost \in Amounts /\ EstimateCost' = EstimateCost
  BY <1>1, EstimateIs DEF CostsInv, CostsShape, EstimateCost, TokenCost
<1>3. /\ worker'.at = IF Authorized(EstimateCost) THEN "calling" ELSE "refused"
      /\ worker'.estimate = EstimateCost
  BY <1>1 DEF CostsInv, CostsShape, RetryWorkers
<1>4. CostsShape'
  <2>1. worker' \in RetryWorkers
    BY <1>1, <1>2 DEF CostsInv, CostsShape, RetryWorkers
  <2> QED
    BY <1>1, <2>1 DEF CostsInv, CostsShape, RetryWorkers
<1>5. WorkerKnows'
  <2>1. billed = 0 /\ Unrecorded
    BY <1>1 DEF CostsInv, WorkerKnows
  <2> QED
    BY <1>1, <1>2, <1>3, <2>1 DEF WorkerKnows, Unrecorded, Authorized
<1>6. RowsTell'
  BY <1>1, <1>3 DEF CostsInv, RowsTell, WorkerKnows, Unrecorded, Left
<1>7. ReportTells'
  BY <1>1, ReportStays DEF CostsInv, Left
<1> QED
  BY <1>4, <1>5, <1>6, <1>7 DEF CostsInv

(***************************************************************************)
(* A worker that is gone knows nothing, whatever becomes of the case.      *)
(***************************************************************************)
LEMMA WorkerGoes ==
  ASSUME CostsInv, worker' = [worker EXCEPT !.at = "gone"],
         UNCHANGED <<invoice, lateResults, reviewCosts, billed, early, report, reports, attempt>>,
         caseRow' \in CaseRows, caseRow'.action = caseRow.action,
         caseRow' = caseRow \/ Left(caseRow)', Left(caseRow) => Left(caseRow)',
         Left(caseRow)' => Left(caseRow) \/ attempt.status # "none" \/ billed = 0
  PROVE  CostsInv'
<1>1. worker'.at = "gone"
  BY DEF CostsInv, CostsShape, RetryWorkers
<1>2. CostsShape'
  BY DEF CostsInv, CostsShape, RetryWorkers
<1>3. EstimateCost' = EstimateCost
  BY DEF EstimateCost, TokenCost
<1>4. WorkerKnows'
  BY <1>1, <1>3 DEF CostsInv, WorkerKnows
<1>5. RowsTell'
  BY <1>1 DEF CostsInv, RowsTell, Left
<1>6. ReportTells'
  BY ReportStays DEF CostsInv
<1> QED
  BY <1>2, <1>4, <1>5, <1>6 DEF CostsInv

LEMMA ToReviewIs ==
  ASSUME CostsInv, ToReview
  PROVE  /\ caseRow' \in CaseRows /\ caseRow'.action = caseRow.action
         /\ caseRow'.status = "awaiting_human_review" /\ Left(caseRow)'
BY DEF CostsInv, CostsShape, CaseRows, ToReview, Left

LEMMA WorkerEndsStep == CostsInv /\ (LeaveToReview \/ SettleCase \/ WorkerDies) => CostsInv'
<1> SUFFICES ASSUME CostsInv, LeaveToReview \/ SettleCase \/ WorkerDies PROVE CostsInv'
  OBVIOUS
<1>1. /\ worker' = [worker EXCEPT !.at = "gone"]
      /\ UNCHANGED <<invoice, lateResults, reviewCosts, billed, early, report, reports, attempt>>
  BY DEF LeaveToReview, SettleCase, WorkerDies
<1>2. CASE LeaveToReview
  <2>1. ToReview /\ billed = 0
    BY <1>2 DEF LeaveToReview, CostsInv, WorkerKnows
  <2> QED
    BY <1>1, <2>1, ToReviewIs, WorkerGoes
<1>3. CASE SettleCase
  <2>1. attempt.status # "none"
    BY <1>3 DEF SettleCase, CostsInv, WorkerKnows
  <2>2. /\ caseRow' \in CaseRows /\ caseRow'.action = caseRow.action
        /\ caseRow'.status # "none" /\ Left(caseRow)'
    <3>1. CASE worker.result.passed
      <4>1. caseRow' = [caseRow EXCEPT !.status = "retry_resolved"]
        BY <1>3, <3>1 DEF SettleCase
      <4> QED
        BY <4>1 DEF CostsInv, CostsShape, CaseRows, Left
    <3>2. CASE ~worker.result.passed
      BY <1>3, <3>2, ToReviewIs DEF SettleCase
    <3> QED
      BY <3>1, <3>2
  <2> QED
    BY <1>1, <2>1, <2>2, WorkerGoes
<1>4. CASE WorkerDies
  <2>1. caseRow' = caseRow /\ caseRow \in CaseRows
    BY <1>4 DEF WorkerDies, CostsInv, CostsShape
  <2> QED
    BY <1>1, <2>1, WorkerGoes DEF Left
<1> QED
  BY <1>2, <1>3, <1>4

LEMMA CallAdapterStep == CostsInv /\ CallAdapter => CostsInv'
<1> SUFFICES ASSUME CostsInv, CallAdapter PROVE CostsInv'
  OBVIOUS
<1>1. /\ worker.at = "calling"
      /\ UNCHANGED <<invoice, caseRow, attempt, lateResults, reviewCosts, early, report, reports>>
  BY DEF CallAdapter
<1>2. /\ billed = 0 /\ Unrecorded /\ EstimateCost # CostUnknown /\ Authorized(worker.estimate)
      /\ invoice \in Invoices /\ worker.estimate \in Amounts
  BY <1>1 DEF CostsInv, WorkerKnows, CostsShape, RetryWorkers
<1>3. invoice.input # CostUnknown /\ EstimateCost' = EstimateCost
  BY <1>1, <1>2, EstimateIs DEF EstimateCost, TokenCost
<1>4. PICK result \in Results :
        \/ /\ billed' = billed + ChargeOf(result.usage)
           /\ worker' = [worker EXCEPT !.at = "recording",
                                       !.result = AttemptRow(result, worker.estimate)]
        \/ /\ billed' \in {billed, billed + ChargeOf(result.usage)}
           /\ worker' = [worker EXCEPT !.at = "recording", !.raised = TRUE, !.result = AmbiguousRow]
  BY DEF CallAdapter
<1> DEFINE new == AttemptRow(result, worker.estimate)
           charge == ChargeOf(result.usage)
<1>5. /\ charge \in Nat /\ new \in RetryRows /\ new.status # "none" /\ new.estimate = worker.estimate
      /\ new.cost # CostUnknown => new.cost = charge
  BY <1>2, <1>3, RetryRowsAre
<1> HIDE DEF new, charge
<1>10. worker \in RetryWorkers
  BY DEF CostsInv, CostsShape
<1>6. /\ billed' \in Nat /\ worker'.at = "recording" /\ worker'.estimate = worker.estimate
      /\ worker'.result \in RetryRows /\ worker'.result.status # "none" /\ worker' \in RetryWorkers
      /\ worker'.result.cost # CostUnknown =>
           worker'.result.cost = billed' /\ worker'.result.estimate = worker.estimate
  <2>1. CASE billed' = billed + charge /\ worker' = [worker EXCEPT !.at = "recording", !.result = new]
    <3>1. /\ worker' \in RetryWorkers
          /\ worker'.at = "recording" /\ worker'.estimate = worker.estimate /\ worker'.result = new
      BY <1>5, <1>10, <2>1 DEF RetryWorkers
    <3>2. billed' = charge
      BY <1>2, <1>5, <2>1
    <3> QED
      BY <1>5, <3>1, <3>2
  <2>2. CASE /\ billed' \in {billed, billed + charge}
             /\ worker' = [worker EXCEPT !.at = "recording", !.raised = TRUE, !.result = AmbiguousRow]
    <3>1. /\ worker' \in RetryWorkers
          /\ worker'.at = "recording" /\ worker'.estimate = worker.estimate /\ worker'.result = AmbiguousRow
      BY <1>10, <2>2, PlainRows DEF RetryWorkers
    <3>2. billed' \in Nat
      BY <1>2, <1>5, <2>2
    <3> QED
      BY <3>1, <3>2, PlainRows
  <2> QED
    BY <1>4, <2>1, <2>2 DEF new, charge
<1> HIDE DEF new, charge
<1>7. CostsShape'
  BY <1>1, <1>6 DEF CostsInv, CostsShape, RetryWorkers
<1>8. WorkerKnows'
  BY <1>1, <1>2, <1>3, <1>6 DEF WorkerKnows, Unrecorded
<1>9. RowsTell'
  BY <1>1, <1>2, <1>6 DEF CostsInv, RowsTell, Unrecorded
<1>11. ReportTells'
  BY <1>1, ReportStays DEF CostsInv, Left
<1> QED
  BY <1>7, <1>8, <1>9, <1>11 DEF CostsInv

LEMMA RecordRetryStep == CostsInv /\ RecordRetry => CostsInv'
<1> SUFFICES ASSUME CostsInv, RecordRetry PROVE CostsInv'
  OBVIOUS
<1>1. /\ worker.at = "recording"
      /\ UNCHANGED <<invoice, caseRow, reviewCosts, billed, early, report, reports>>
  BY DEF RecordRetry
<1>2. /\ Unrecorded /\ EstimateCost # CostUnknown /\ Authorized(worker.estimate)
      /\ worker.result \in RetryRows /\ worker.result.status # "none"
      /\ worker.result.cost # CostUnknown =>
           worker.result.cost = billed /\ worker.result.estimate = worker.estimate
      /\ caseRow.action = "retry"
  BY <1>1 DEF CostsInv, WorkerKnows, RowsTell, CostsShape, RetryWorkers
<1>3. EstimateCost' = EstimateCost
  BY <1>1 DEF EstimateCost, TokenCost
<1>4. CASE attempt.status = "none"
  <2>1. /\ attempt' = worker.result /\ UNCHANGED lateResults
        /\ worker' = [worker EXCEPT !.at = "settling"]
    BY <1>4 DEF RecordRetry
  <2>2. worker'.at = "settling"
    BY <2>1 DEF CostsInv, CostsShape, RetryWorkers
  <2>3. CostsShape'
    BY <1>1, <1>2, <2>1 DEF CostsInv, CostsShape, RetryWorkers
  <2>4. WorkerKnows'
    BY <1>1, <1>2, <1>3, <2>1, <2>2 DEF CostsInv, WorkerKnows
  <2>5. RowsTell'
    BY <1>1, <1>2, <2>1, <2>2 DEF CostsInv, RowsTell, Unrecorded, Authorized
  <2>6. ReportTells'
    <3>1. ~(Left(caseRow) /\ ~early)
      BY <1>1, <1>4 DEF CostsInv, RowsTell
    <3> QED
      BY <1>1, <2>1, <3>1, ReportStays DEF CostsInv, Left
  <2> QED
    BY <2>3, <2>4, <2>5, <2>6 DEF CostsInv
<1>5. CASE attempt.status # "none"
  <2>1. /\ lateResults' = IF worker.raised THEN lateResults ELSE Append(lateResults, worker.result.cost)
        /\ worker' = [worker EXCEPT !.at = IF worker.raised THEN "settling" ELSE "gone"]
        /\ UNCHANGED attempt
    BY <1>5 DEF RecordRetry
  <2>2. worker'.at \in {"settling", "gone"}
    BY <2>1 DEF CostsInv, CostsShape, RetryWorkers
  <2>3. lateResults' \in Seq(Amounts) /\ (lateResults # <<>> => lateResults' # <<>>)
    BY <1>2, <2>1 DEF CostsInv, CostsShape, RetryRows, Unrecorded
  <2>4. CostsShape'
    BY <1>1, <2>1, <2>3 DEF CostsInv, CostsShape, RetryWorkers
  <2>5. WorkerKnows'
    BY <1>1, <1>3, <1>5, <2>1, <2>2 DEF CostsInv, WorkerKnows
  <2>6. RowsTell'
    BY <1>1, <1>2, <1>5, <2>1, <2>2 DEF CostsInv, RowsTell, Unrecorded
  <2>7. ReportTells'
    BY <1>1, <2>1, <2>3, ReportStays DEF CostsInv, Left
  <2> QED
    BY <2>4, <2>5, <2>6, <2>7 DEF CostsInv
<1> QED
  BY <1>4, <1>5

LEMMA ReapStaleLeaseStep == CostsInv /\ ReapStaleLease => CostsInv'
<1> SUFFICES ASSUME CostsInv, ReapStaleLease PROVE CostsInv'
  OBVIOUS
<1>1. /\ caseRow.status = "retry_in_progress"
      /\ UNCHANGED <<invoice, lateResults, reviewCosts, worker, billed, early, report, reports>>
  BY DEF ReapStaleLease
<1>2. caseRow' \in CaseRows /\ caseRow'.action = caseRow.action /\ caseRow'.status # "none"
  <2>1. CASE attempt.status = "none"
    BY <2>1, ToReviewIs DEF ReapStaleLease
  <2>2. CASE attempt.status # "none"
    BY <2>2 DEF ReapStaleLease, CostsInv, CostsShape, CaseRows
  <2> QED
    BY <2>1, <2>2
<1>3. /\ attempt' = attempt \/ (attempt.status = "none" /\ attempt' = AmbiguousRow)
      /\ attempt'.status # "none" /\ attempt' \in RetryRows
  BY PlainRows DEF ReapStaleLease, CostsInv, CostsShape
<1>4. attempt'.cost = attempt.cost
  BY <1>3, PlainRows DEF CostsInv, RowsTell
<1>5. EstimateCost' = EstimateCost
  BY <1>1 DEF EstimateCost, TokenCost
<1>6. CostsShape'
  BY <1>1, <1>2, <1>3 DEF CostsInv, CostsShape, RetryWorkers
<1>7. WorkerKnows'
  BY <1>1, <1>3, <1>4, <1>5 DEF CostsInv, WorkerKnows, Unrecorded
<1>8. RowsTell'
  <2>1. caseRow'.action = "retry" /\ Left(caseRow)'
    <3>1. caseRow'.status # "retry_in_progress"
      BY DEF ReapStaleLease, ToReview, CostsInv, CostsShape, CaseRows
    <3> QED
      BY <1>1, <1>2, <3>1 DEF CostsInv, RowsTell, Left
  <2>2. attempt'.cost # CostUnknown => attempt' = attempt
    BY <1>3, PlainRows
  <2> QED
    BY <1>1, <1>2, <1>3, <1>4, <2>1, <2>2 DEF CostsInv, RowsTell, Left
<1>9. ReportTells'
  BY <1>1, <1>2, <1>3, ReportStays DEF CostsInv, Left
<1> QED
  BY <1>6, <1>7, <1>8, <1>9 DEF CostsInv

LEMMA RecordReviewCostStep == CostsInv /\ RecordReviewCost => CostsInv'
<1> SUFFICES ASSUME CostsInv, RecordReviewCost PROVE CostsInv'
  OBVIOUS
<1>1. /\ caseRow.status # "none" /\ caseRow' = [caseRow EXCEPT !.status = "resolved"]
      /\ early' = (early \/ caseRow.status = "retry_in_progress")
      /\ UNCHANGED <<invoice, attempt, lateResults, worker, billed, report, reports>>
  BY DEF RecordReviewCost
<1>2. PICK cost \in ReviewCosts : reviewCosts' = Append(reviewCosts, cost)
  BY DEF RecordReviewCost
<1>3. reviewCosts' \in Seq(Amounts)
  BY <1>2, CostsAssumption DEF CostsInv, CostsShape, RetryWorkers
<1>4. caseRow' \in CaseRows /\ caseRow'.action = caseRow.action /\ caseRow'.status = "resolved"
  BY <1>1 DEF CostsInv, CostsShape, CaseRows
<1>5. EstimateCost' = EstimateCost
  BY <1>1 DEF EstimateCost, TokenCost
<1>6. CostsShape'
  BY <1>1, <1>3, <1>4 DEF CostsInv, CostsShape, RetryWorkers
<1>7. WorkerKnows'
  BY <1>1, <1>5 DEF CostsInv, WorkerKnows, Unrecorded
<1>8. RowsTell'
  BY <1>1, <1>4 DEF CostsInv, RowsTell, Left
<1>9. ReportTells'
  BY <1>1, <1>4, ReportStays DEF CostsInv, Left
<1> QED
  BY <1>6, <1>7, <1>8, <1>9 DEF CostsInv

-----------------------------------------------------------------------------
LEMMA ReportStep ==
  CostsInv /\ (ReadDecision \/ ReadRetry \/ ReadOutcomes \/ ReadLate) => CostsInv'
<1> SUFFICES ASSUME CostsInv, ReadDecision \/ ReadRetry \/ ReadOutcomes \/ ReadLate PROVE CostsInv'
  OBVIOUS
<1>1. UNCHANGED <<invoice, caseRow, attempt, lateResults, reviewCosts, worker, billed, early>>
  BY DEF ReadDecision, ReadRetry, ReadOutcomes, ReadLate, ReadsTable
<1>2. EstimateCost' = EstimateCost
  BY <1>1 DEF EstimateCost, TokenCost
<1>3. WorkerKnows' /\ RowsTell'
  BY <1>1, <1>2 DEF CostsInv, WorkerKnows, RowsTell, Unrecorded, Left
<1>4. SUFFICES CostsShape' /\ ReportTells'
  BY <1>3 DEF CostsInv
<1>5. CASE ReadDecision
  <2>1. report' = [[report EXCEPT !.decision = caseRow] EXCEPT !.at = "attempt"]
    BY <1>5 DEF ReadDecision, ReadsTable
  <2>2. CostsShape'
    BY <1>1, <2>1 DEF CostsInv, CostsShape, RetryWorkers
  <2>3. report'.at = "attempt" /\ report'.decision = caseRow
    BY <2>1 DEF CostsInv, CostsShape, RetryWorkers
  <2>4. ReportTells'
    BY <1>1, <2>3 DEF ReportTells, Left, ReportTerminal
  <2> QED
    BY <2>2, <2>4
<1>6. CASE ReadRetry
  <2>1. report.at = "attempt" /\ report' = [[report EXCEPT !.attempt = attempt] EXCEPT !.at = "reviews"]
    BY <1>6 DEF ReadRetry, ReadsTable
  <2>2. CostsShape'
    BY <1>1, <2>1 DEF CostsInv, CostsShape, RetryWorkers
  <2>3. report'.at = "reviews" /\ report'.decision = report.decision /\ report'.attempt = attempt
    BY <2>1 DEF CostsInv, CostsShape, RetryWorkers
  <2>4. ReportTells'
    BY <1>1, <2>1, <2>3 DEF CostsInv, ReportTells, Left
  <2> QED
    BY <2>2, <2>4
<1>7. CASE ReadOutcomes
  <2>1. report.at = "reviews" /\ report' = [[report EXCEPT !.reviews = reviewCosts] EXCEPT !.at = "late"]
    BY <1>7 DEF ReadOutcomes, ReadsTable
  <2>2. CostsShape'
    BY <1>1, <2>1 DEF CostsInv, CostsShape, RetryWorkers
  <2>3. report'.at = "late" /\ report'.decision = report.decision /\ report'.attempt = report.attempt
    BY <2>1 DEF CostsInv, CostsShape, RetryWorkers
  <2>4. ReportTells'
    BY <1>1, <2>1, <2>3 DEF CostsInv, ReportTells, Left
  <2> QED
    BY <2>2, <2>4
<1>8. CASE ReadLate
  <2>1. report.at = "late" /\ report' = [[report EXCEPT !.late = lateResults] EXCEPT !.at = "built"]
    BY <1>8 DEF ReadLate, ReadsTable
  <2>2. CostsShape'
    BY <1>1, <2>1 DEF CostsInv, CostsShape, RetryWorkers
  <2>3. /\ report'.at = "built" /\ report'.decision = report.decision /\ report'.attempt = report.attempt
        /\ report'.late = lateResults
    BY <2>1 DEF CostsInv, CostsShape, RetryWorkers
  <2>4. ReportTells'
    BY <1>1, <2>1, <2>3 DEF CostsInv, ReportTells, Left
  <2> QED
    BY <2>2, <2>4
<1> QED
  BY <1>5, <1>6, <1>7, <1>8

LEMMA CostsStep == CostsInv /\ [CostsNext]_costVars => CostsInv'
<1> SUFFICES ASSUME CostsInv, [CostsNext]_costVars PROVE CostsInv'
  OBVIOUS
<1>1. CASE UNCHANGED costVars
  BY <1>1 DEF costVars, CostsInv, CostsShape, WorkerKnows, RowsTell, ReportTells, Unrecorded, Left,
              EstimateCost, TokenCost
<1>2. CASE CostsNext
  BY <1>2, DecideRetryStep, AuthorizeStep, WorkerEndsStep, CallAdapterStep, RecordRetryStep,
     ReapStaleLeaseStep, RecordReviewCostStep, ReportStep DEF CostsNext
<1> QED
  BY <1>1, <1>2

(***************************************************************************)
(* What the invariant says of the row and of the export.                   *)
(***************************************************************************)
LEMMA InvariantTellsCosts == CostsInv => CompleteCostsAreTrue
<1> SUFFICES ASSUME CostsInv PROVE CompleteCostsAreTrue
  OBVIOUS
<1>1. ASSUME report.at = "built", ReportedRow.complete, ~early
      PROVE  /\ ~ReportedRow.hasLate
             /\ ReportedRow.observed = billed + IF report.reviews = <<>> THEN 0 ELSE Last(report.reviews)
  <2> DEFINE d == report.decision
             rs == report.reviews
  <2>1. /\ d.status \in ReportTerminal
        /\ d.action = "retry" /\ report.attempt.status # "none" => report.attempt.cost # CostUnknown
        /\ rs # <<>> => Last(rs) # CostUnknown
    BY <1>1 DEF ReportedRow, LiveRow, Complete
  <2>2. /\ Left(caseRow) /\ d.action = caseRow.action /\ report.attempt = attempt
        /\ report.late # <<>> => lateResults # <<>>
    BY <1>1, <2>1 DEF CostsInv, ReportTells
  <2>3. Adds(attempt.cost) = billed /\ lateResults = <<>> /\ (attempt.cost # CostUnknown => d.action = "retry")
    <3>1. CASE d.action # "retry"
      BY <2>2, <3>1, PlainRows DEF CostsInv, RowsTell, Adds
    <3>2. CASE d.action = "retry" /\ attempt.status # "none"
      BY <2>1, <2>2, <3>2 DEF CostsInv, RowsTell, Adds
    <3>3. CASE attempt.status = "none"
      BY <1>1, <2>2, <3>3 DEF CostsInv, RowsTell, Adds
    <3> QED
      BY <3>1, <3>2, <3>3
  <2>4. rs \in Seq(Amounts) /\ attempt \in RetryRows
    BY DEF CostsInv, CostsShape, RetryWorkers
  <2>5. SumUp(KnownCosts(d, attempt, rs)) = Adds(attempt.cost) + Adds(LatestCost(rs))
    BY <2>3, <2>4, KnownSum
  <2>6. Adds(LatestCost(rs)) = IF rs = <<>> THEN 0 ELSE Last(rs)
    BY <2>1 DEF Adds, LatestCost
  <2>7. ReportedRow.observed = SumUp(KnownCosts(d, report.attempt, rs)) /\ ReportedRow.hasLate = (report.late # <<>>)
    BY DEF ReportedRow, LiveRow
  <2> HIDE DEF d, rs
  <2>8. ReportedRow.observed = billed + IF rs = <<>> THEN 0 ELSE Last(rs)
    BY <2>2, <2>3, <2>5, <2>6, <2>7
  <2> QED
    BY <2>2, <2>3, <2>7, <2>8 DEF rs
<1>2. attempt.cost > RetryCostLimit => Overrun(attempt) > 0
  <2> SUFFICES ASSUME attempt.cost > RetryCostLimit PROVE Overrun(attempt) > 0
    OBVIOUS
  <2>1. attempt.cost \in Amounts /\ attempt.estimate \in Amounts /\ RetryCostLimit \in Nat
    BY CostsAssumption DEF CostsInv, CostsShape, RetryRows
  <2>2. attempt.cost # CostUnknown
    BY <2>1 DEF Amounts, CostUnknown
  <2>3. attempt.estimate # CostUnknown /\ attempt.estimate <= RetryCostLimit
    BY <2>2 DEF CostsInv, RowsTell, Authorized
  <2> QED
    BY <2>1, <2>2, <2>3 DEF Overrun, Amounts, CostUnknown
<1>3. billed > 0 => EstimateCost # CostUnknown
  BY DEF CostsInv, WorkerKnows
<1>4. ExportedKnown(attempt, reviewCosts) = SumUp(KnownCosts(caseRow, attempt, reviewCosts))
  <2>1. /\ attempt \in RetryRows /\ reviewCosts \in Seq(Amounts)
        /\ attempt.status = "none" => attempt.cost = CostUnknown
        /\ attempt.cost # CostUnknown => caseRow.action = "retry"
    BY PlainRows DEF CostsInv, CostsShape, RowsTell
  <2> QED
    BY <2>1, KnownSum, ExportedSum
<1> QED
  BY <1>1, <1>2, <1>3, <1>4 DEF CompleteCostsAreTrue

(***************************************************************************)
(* However the reads of a report fell between the steps of worker, reaper  *)
(* and reviewer, a row that calls its cost complete says what was charged  *)
(* and what the review cost, with no late result; a cost past the maximum  *)
(* shows as an overrun; nothing was charged without an estimate; and the   *)
(* export never says another sum (_observed_cost, build_live_report,       *)
(* authorize_retry_cost, export_work_economics_events).                    *)
(***************************************************************************)
THEOREM CompleteCostsStayTrue == CostsSpec => []CompleteCostsAreTrue
BY CostsBegin, CostsStep, InvariantTellsCosts, PTL DEF CostsSpec

-----------------------------------------------------------------------------
(***************************************************************************)
(* A row that comes again adds nothing to the rows there are.              *)
(***************************************************************************)
LEMMA AgainIs ==
  ASSUME NEW T, NEW s \in Seq(T), NEW i \in DOMAIN s
  PROVE  ToSet(Append(s, s[i])) = ToSet(s)
<1> DEFINE more == Append(s, s[i])
<1>1. DOMAIN s = 1 .. Len(s) /\ DOMAIN more = 1 .. Len(s) + 1 /\ Len(s) \in Nat
  OBVIOUS
<1>2. \A j \in DOMAIN s : more[j] = s[j]
  OBVIOUS
<1>3. more[Len(s) + 1] = s[i]
  OBVIOUS
<1>4. \A j \in DOMAIN more : j \in DOMAIN s \/ j = Len(s) + 1
  BY <1>1
<1> HIDE DEF more
<1>5. ToSet(more) \subseteq ToSet(s)
  BY <1>2, <1>3, <1>4 DEF ToSet
<1>6. ToSet(s) \subseteq ToSet(more)
  BY <1>1, <1>2 DEF ToSet
<1> QED
  BY <1>5, <1>6 DEF more

LEMMA RowsFinite ==
  ASSUME NEW T, NEW s \in Seq(T)
  PROVE  IsFiniteSet(ToSet(s))
<1> DEFINE at == [i \in 1 .. Len(s) |-> s[i]]
<1>1. at \in Surjection(1 .. Len(s), ToSet(s))
  BY DEF Surjection, ToSet
<1>2. IsFiniteSet(1 .. Len(s))
  BY FS_Interval
<1> QED
  BY <1>1, <1>2, FS_Surjection

(***************************************************************************)
(* The attempts of an item in their order: each place is taken, since the  *)
(* number of those before is another for each.                             *)
(***************************************************************************)
LEMMA FirstsAre ==
  ASSUME NEW A \in Seq(AttemptRows), NEW w
  PROVE  /\ Firsts(A, w) \subseteq 1 .. Len(A) /\ IsFiniteSet(Firsts(A, w))
         /\ Cardinality(Firsts(A, w)) \in Nat
         /\ \A i \in Firsts(A, w) : /\ A[i] \in AttemptRows /\ A[i].number \in Int
                                    /\ IsFiniteSet(Before(A, w, i)) /\ Cardinality(Before(A, w, i)) \in Nat
<1>1. Firsts(A, w) \subseteq 1 .. Len(A)
  BY DEF Firsts
<1>2. IsFiniteSet(1 .. Len(A))
  BY FS_Interval
<1>3. IsFiniteSet(Firsts(A, w))
  BY <1>1, <1>2, FS_Subset
<1>4. ASSUME NEW i \in Firsts(A, w)
      PROVE  IsFiniteSet(Before(A, w, i))
  <2>1. Before(A, w, i) \subseteq Firsts(A, w)
    BY DEF Before
  <2> QED
    BY <1>3, <2>1, FS_Subset
<1>5. \A i \in Firsts(A, w) : A[i] \in AttemptRows /\ A[i].number \in Int
  BY <1>1, BatchAssumption
<1> QED
  BY <1>1, <1>3, <1>4, <1>5, FS_CardinalityType

LEMMA RanksRise ==
  ASSUME NEW A \in Seq(AttemptRows), NEW w, NEW i \in Firsts(A, w), NEW j \in Firsts(A, w), Precedes(A, i, j)
  PROVE  Cardinality(Before(A, w, i)) < Cardinality(Before(A, w, j))
<1>1. \A h \in Firsts(A, w) : h \in Nat /\ A[h].number \in Int
  BY FirstsAre
<1>2. Before(A, w, i) \cup {i} \subseteq Before(A, w, j) /\ i \notin Before(A, w, i)
  BY <1>1 DEF Before, Precedes
<1>3. /\ IsFiniteSet(Before(A, w, i)) /\ Cardinality(Before(A, w, i)) \in Nat
      /\ IsFiniteSet(Before(A, w, j)) /\ Cardinality(Before(A, w, j)) \in Nat
  BY FirstsAre
<1>4. Cardinality(Before(A, w, i) \cup {i}) = Cardinality(Before(A, w, i)) + 1
  BY <1>2, <1>3, FS_AddElement
<1>5. Cardinality(Before(A, w, i) \cup {i}) <= Cardinality(Before(A, w, j))
  BY <1>2, <1>3, FS_Subset
<1> QED
  BY <1>3, <1>4, <1>5

LEMMA PlacesTaken ==
  ASSUME NEW A \in Seq(AttemptRows), NEW w, NEW k \in 1 .. Cardinality(Firsts(A, w))
  PROVE  \E i \in Firsts(A, w) : Cardinality(Before(A, w, i)) = k - 1
<1> DEFINE firsts == Firsts(A, w)
           n == Cardinality(firsts)
           places == 0 .. n - 1
           rank == [i \in firsts |-> Cardinality(Before(A, w, i))]
<1>1. n \in Nat /\ IsFiniteSet(firsts) /\ \A i \in firsts : rank[i] \in Nat
  BY FirstsAre
<1>2. ASSUME NEW i \in firsts
      PROVE  rank[i] \in places
  <2>1. Before(A, w, i) \subseteq firsts \ {i}
    <3>1. i \in Nat /\ A[i].number \in Int
      BY FirstsAre
    <3>2. ~Precedes(A, i, i)
      BY <3>1 DEF Precedes
    <3> QED
      BY <3>2 DEF Before
  <2>2. Cardinality(firsts \ {i}) = n - 1 /\ IsFiniteSet(firsts \ {i})
    BY <1>1, FS_RemoveElement
  <2>3. Cardinality(Before(A, w, i)) <= n - 1
    BY <2>1, <2>2, FS_Subset
  <2> QED
    BY <1>1, <2>3
<1>3. ASSUME NEW i \in firsts, NEW j \in firsts, i # j
      PROVE  rank[i] # rank[j]
  <2>1. Precedes(A, i, j) \/ Precedes(A, j, i)
    BY <1>3, FirstsAre DEF Precedes
  <2>2. rank[i] < rank[j] \/ rank[j] < rank[i]
    BY <2>1, RanksRise
  <2> QED
    BY <1>1, <2>2
<1>4. rank \in Injection(firsts, places)
  BY <1>2, <1>3 DEF Injection, IsInjective
<1>5. IsFiniteSet(places) /\ Cardinality(places) = n
  <2>1. 0 \in Int /\ n - 1 \in Int /\ (0 > n - 1 => n = 0) /\ (n - 1) - 0 + 1 = n
    BY <1>1
  <2> HIDE DEF n
  <2> QED
    BY <2>1, FS_Interval
<1>6. rank \in Surjection(firsts, places)
  BY <1>4, <1>5, FS_Injection
<1>7. k - 1 \in places
  BY <1>1
<1>8. PICK i \in firsts : rank[i] = k - 1
  BY <1>6, <1>7 DEF Surjection
<1> QED
  BY <1>8

LEMMA PlaceIs ==
  ASSUME NEW A \in Seq(AttemptRows), NEW w, NEW k \in 1 .. Cardinality(Firsts(A, w))
  PROVE  First({i \in Firsts(A, w) : Cardinality(Before(A, w, i)) = k - 1}) \in Firsts(A, w)
BY PlacesTaken DEF First

LEMMA AttemptsAre ==
  ASSUME NEW A \in Seq(AttemptRows), NEW w
  PROVE  AttemptsOf(A, w) \in Seq(AttemptRows)
<1> DEFINE n == Cardinality(Firsts(A, w))
<1>1. n \in Nat
  BY FirstsAre
<1>2. \A k \in 1 .. n : AttemptsOf(A, w)[k] \in AttemptRows
  BY PlaceIs, FirstsAre DEF AttemptsOf
<1>3. AttemptsOf(A, w) = [k \in 1 .. n |-> AttemptsOf(A, w)[k]]
  BY DEF AttemptsOf
<1> HIDE DEF n
<1> QED
  BY <1>1, <1>2, <1>3

LEMMA ReplayedFirsts ==
  ASSUME NEW A \in Seq(AttemptRows), NEW echo \in DOMAIN A, NEW w
  PROVE  /\ Firsts(Append(A, A[echo]), w) = Firsts(A, w)
         /\ \A i \in Firsts(A, w) : Append(A, A[echo])[i] = A[i]
<1> DEFINE more == Append(A, A[echo])
<1>1. DOMAIN A = 1 .. Len(A) /\ DOMAIN more = 1 .. Len(A) + 1 /\ Len(A) \in Nat
  OBVIOUS
<1>2. (\A j \in 1 .. Len(A) : more[j] = A[j]) /\ more[Len(A) + 1] = A[echo]
  OBVIOUS
<1>3. ToSet(more) = ToSet(A)
  BY AgainIs
<1> HIDE DEF more
<1>4. \A id : Agreed(more, id) = Agreed(A, id)
  BY <1>3 DEF Agreed
<1>5. Len(A) + 1 \notin Firsts(more, w)
  <2>1. echo \in 1 .. (Len(A) + 1) - 1 /\ more[echo] = more[Len(A) + 1]
    BY <1>1, <1>2
  <2> QED
    BY <2>1 DEF Firsts
<1>6. ASSUME NEW i \in 1 .. Len(A)
      PROVE  i \in Firsts(more, w) <=> i \in Firsts(A, w)
  <2>1. \A j \in 1 .. i - 1 : more[j] = A[j]
    BY <1>1, <1>2
  <2> QED
    BY <1>1, <1>2, <1>4, <2>1 DEF Firsts
<1>7. Firsts(more, w) \subseteq 1 .. Len(A) /\ Firsts(A, w) \subseteq 1 .. Len(A)
  <2>1. \A i \in 1 .. Len(A) + 1 : i \in 1 .. Len(A) \/ i = Len(A) + 1
    BY <1>1
  <2> QED
    BY <1>1, <1>5, <2>1 DEF Firsts
<1>8. Firsts(more, w) = Firsts(A, w)
  BY <1>6, <1>7
<1> QED
  BY <1>2, <1>7, <1>8 DEF more

LEMMA ReplayedAttempts ==
  ASSUME NEW A \in Seq(AttemptRows), NEW echo \in DOMAIN A, NEW w
  PROVE  AttemptsOf(Append(A, A[echo]), w) = AttemptsOf(A, w)
<1> DEFINE more == Append(A, A[echo])
           firsts == Firsts(A, w)
<1>1. Firsts(more, w) = firsts /\ \A i \in firsts : more[i] = A[i]
  BY ReplayedFirsts
<1> HIDE DEF more
<1>2. \A i \in firsts : Before(more, w, i) = Before(A, w, i)
  BY <1>1 DEF Before, Precedes
<1>3. \A k : {i \in firsts : Cardinality(Before(more, w, i)) = k - 1}
               = {i \in firsts : Cardinality(Before(A, w, i)) = k - 1}
  BY <1>2
<1>4. ASSUME NEW k \in 1 .. Cardinality(firsts)
      PROVE  more[First({i \in firsts : Cardinality(Before(more, w, i)) = k - 1})]
               = A[First({i \in firsts : Cardinality(Before(A, w, i)) = k - 1})]
  <2>1. First({i \in firsts : Cardinality(Before(A, w, i)) = k - 1}) \in firsts
    BY PlaceIs
  <2> QED
    BY <1>1, <1>3, <2>1
<1>5. AttemptsOf(more, w) = AttemptsOf(A, w)
  BY <1>1, <1>4 DEF AttemptsOf
<1> QED
  BY <1>5 DEF more

(***************************************************************************)
(* The records: finitely many, each a history.                             *)
(***************************************************************************)
LEMMA ReviewIs ==
  ASSUME NEW R \in Seq(ReviewRows), NEW w
  PROVE  ReviewOf(R, w) \in ReviewRows \cup {NoReview}
<1> DEFINE versions == {row \in ToSet(R) : row.work = w}
           latest == {row \in versions : \A other \in versions : other.at <= row.at}
<1>1. ToSet(R) \subseteq ReviewRows
  BY DEF ToSet
<1>2. ReviewOf(R, w) = IF Cardinality(latest) = 1 THEN CHOOSE row \in latest : TRUE ELSE NoReview
  BY DEF ReviewOf
<1>3. latest \subseteq ReviewRows
  BY <1>1
<1> HIDE DEF latest
<1>4. Cardinality(latest) = 1 => latest # {}
  BY FS_EmptySet
<1> QED
  BY <1>2, <1>3, <1>4

LEMMA RecordsAre ==
  ASSUME BatchInv
  PROVE  /\ IsFiniteSet(DOMAIN Records(attempts, reviews))
         /\ \A w \in DOMAIN Records(attempts, reviews) : History(Records(attempts, reviews)[w])
<1> DEFINE listed == {row \in ToSet(attempts) : Parses(row) /\ Agreed(attempts, row.id)} \cup ToSet(reviews)
           items == {row.work : row \in listed}
           workOf == [row \in listed |-> row.work]
<1>1. DOMAIN Records(attempts, reviews) = items
  BY DEF Records
<1>2. IsFiniteSet(listed)
  <2>1. IsFiniteSet(ToSet(attempts)) /\ IsFiniteSet(ToSet(reviews))
    BY RowsFinite DEF BatchInv
  <2>2. IsFiniteSet(ToSet(attempts) \cup ToSet(reviews))
    BY <2>1, FS_Union
  <2> QED
    BY <2>2, FS_Subset
<1>3. workOf \in Surjection(listed, items)
  BY DEF Surjection
<1>4. IsFiniteSet(items)
  BY <1>2, <1>3, FS_Surjection
<1>5. \A w \in items : Records(attempts, reviews)[w]
                         = [attempts |-> AttemptsOf(attempts, w), review |-> ReviewOf(reviews, w)]
  BY DEF Records
<1>6. \A w \in items : History(Records(attempts, reviews)[w])
  <2> SUFFICES ASSUME NEW w \in items PROVE History(Records(attempts, reviews)[w])
    OBVIOUS
  <2>1. AttemptsOf(attempts, w) \in Seq(AttemptRows) /\ ReviewOf(reviews, w) \in ReviewRows \cup {NoReview}
    BY AttemptsAre, ReviewIs DEF BatchInv
  <2>2. Records(attempts, reviews)[w]
          = [attempts |-> AttemptsOf(attempts, w), review |-> ReviewOf(reviews, w)]
    BY <1>5
  <2>3. /\ Records(attempts, reviews)[w].attempts = AttemptsOf(attempts, w)
        /\ Records(attempts, reviews)[w].review = ReviewOf(reviews, w)
    BY <2>2
  <2> QED
    BY <2>1, <2>3 DEF History
<1> QED
  BY <1>1, <1>4, <1>6

LEMMA ReplayIsNothing == BatchInv => ReplayChangesNothing
<1> SUFFICES ASSUME BatchInv PROVE ReplayChangesNothing
  OBVIOUS
<1>1. ASSUME NEW i \in DOMAIN attempts
      PROVE  Records(Append(attempts, attempts[i]), reviews) = Records(attempts, reviews)
  <2>1. ToSet(Append(attempts, attempts[i])) = ToSet(attempts)
    BY AgainIs DEF BatchInv
  <2>2. \A w : AttemptsOf(Append(attempts, attempts[i]), w) = AttemptsOf(attempts, w)
    BY ReplayedAttempts DEF BatchInv
  <2>3. \A id : Agreed(Append(attempts, attempts[i]), id) = Agreed(attempts, id)
    BY <2>1 DEF Agreed
  <2> QED
    BY <2>1, <2>2, <2>3 DEF Records
<1>2. ASSUME NEW i \in DOMAIN reviews
      PROVE  Records(attempts, Append(reviews, reviews[i])) = Records(attempts, reviews)
  <2>1. ToSet(Append(reviews, reviews[i])) = ToSet(reviews)
    BY AgainIs DEF BatchInv
  <2>2. \A w : ReviewOf(Append(reviews, reviews[i]), w) = ReviewOf(reviews, w)
    BY <2>1 DEF ReviewOf
  <2> QED
    BY <2>1, <2>2 DEF Records
<1> QED
  BY <1>1, <1>2 DEF ReplayChangesNothing


-----------------------------------------------------------------------------
(***************************************************************************)
(* Costs: of an item, what was spent before the decision and what the      *)
(* decision caused are apart, and no more than what was spent.             *)
(***************************************************************************)
KnownIn(costs) == {i \in DOMAIN costs : costs[i] # Absent}

LEMMA RowCostIs ==
  /\ \A row \in AttemptRows : row.cost # Absent => row.cost \in Nat
  /\ \A row \in ReviewRows \cup {NoReview} : row.cost # Absent => row.cost \in Nat
BY BatchAssumption DEF NoReview, Absent

LEMMA CostsAre ==
  ASSUME NEW record, History(record)
  PROVE  /\ DOMAIN CostsOf(record.attempts) = 1 .. Len(record.attempts)
         /\ Len(record.attempts) \in Nat
         /\ \A i \in 1 .. Len(record.attempts) :
              /\ CostsOf(record.attempts)[i] = record.attempts[i].cost
              /\ record.attempts[i].cost # Absent => record.attempts[i].cost \in Nat
         /\ KnownIn(CostsOf(record.attempts)) \subseteq 1 .. Len(record.attempts)
         /\ IsFiniteSet(KnownIn(CostsOf(record.attempts)))
<1>1. DOMAIN record.attempts = 1 .. Len(record.attempts) /\ Len(record.attempts) \in Nat
  BY DEF History
<1>2. \A i \in 1 .. Len(record.attempts) : record.attempts[i] \in AttemptRows
  BY DEF History
<1>3. /\ DOMAIN CostsOf(record.attempts) = 1 .. Len(record.attempts)
      /\ \A i \in 1 .. Len(record.attempts) : CostsOf(record.attempts)[i] = record.attempts[i].cost
  BY <1>1 DEF CostsOf
<1>4. KnownIn(CostsOf(record.attempts)) \subseteq 1 .. Len(record.attempts)
  BY <1>3 DEF KnownIn
<1>5. IsFiniteSet(1 .. Len(record.attempts))
  BY FS_Interval
<1> QED
  BY <1>1, <1>2, <1>3, <1>4, <1>5, RowCostIs, FS_Subset

Later(record) == KnownIn(CostsOf(record.attempts)) \ {1}

LaterCost(record) == Total(CostsOf(record.attempts), Later(record))

LEMMA SpentIs ==
  ASSUME NEW record, History(record)
  PROVE  /\ LaterCost(record) \in Nat /\ SunkIn(record) \in Nat
         /\ SumOf(CostsOf(record.attempts)) = LaterCost(record) + SunkIn(record)
<1> DEFINE costs == CostsOf(record.attempts)
           known == KnownIn(costs)
           n == Len(record.attempts)
<1>1. /\ DOMAIN costs = 1 .. n /\ n \in Nat /\ known \subseteq 1 .. n /\ IsFiniteSet(known)
      /\ \A i \in 1 .. n : costs[i] = record.attempts[i].cost
      /\ \A i \in 1 .. n : costs[i] # Absent => costs[i] \in Nat
  BY CostsAre
<1>2. \A i \in known : costs[i] \in Nat
  BY <1>1 DEF KnownIn
<1>3. SumOf(costs) = Total(costs, known)
  BY DEF SumOf, KnownIn
<1>4. Later(record) = known \ {1} /\ LaterCost(record) = Total(costs, known \ {1})
  BY DEF Later, LaterCost
<1>5. (record.attempts = <<>>) <=> n = 0
  BY DEF History
<1> HIDE DEF n, costs
<1>6. CASE 1 \in known
  <2>1. n # 0 /\ costs[1] # Absent /\ costs[1] = record.attempts[1].cost
    BY <1>1, <1>6 DEF KnownIn
  <2>2. SunkIn(record) = costs[1]
    BY <1>5, <2>1 DEF SunkIn
  <2>3. Total(costs, known) = Total(costs, known \ {1}) + costs[1] /\ Total(costs, known \ {1}) \in Nat
    BY <1>1, <1>2, <1>6, TotalWithout
  <2> QED
    BY <1>2, <1>3, <1>4, <1>6, <2>2, <2>3 DEF costs
<1>7. CASE 1 \notin known
  <2>1. SunkIn(record) = 0
    BY <1>1, <1>5, <1>7 DEF SunkIn, KnownIn
  <2>2. known \ {1} = known /\ Total(costs, known) \in Nat
    BY <1>1, <1>2, <1>7, TotalType
  <2> QED
    BY <1>3, <1>4, <2>1, <2>2 DEF costs
<1> QED
  BY <1>6, <1>7

LEMMA CausedIs ==
  ASSUME NEW record, History(record)
  PROVE  /\ SumOf(Caused(record)) \in Nat
         /\ SumOf(Caused(record)) <= LaterCost(record)
                                       + (IF record.review.cost = Absent THEN 0 ELSE record.review.cost)
<1> DEFINE costs == CostsOf(record.attempts)
           n == Len(record.attempts)
           reviewed == record.review.action = "human_review"
           places == (2 .. n) \cup (IF reviewed THEN {1} ELSE {})
           caused == Caused(record)
           known == KnownIn(caused)
           price == record.review.cost
<1>1. /\ n \in Nat /\ DOMAIN costs = 1 .. n
      /\ \A i \in 1 .. n : costs[i] = record.attempts[i].cost /\ (costs[i] # Absent => costs[i] \in Nat)
      /\ price # Absent => price \in Nat
  BY CostsAre, RowCostIs DEF History
<1>2. /\ DOMAIN caused = places
      /\ \A i \in places : caused[i] = IF i = 1 THEN price ELSE record.attempts[i].cost
  BY DEF Caused
<1> HIDE DEF n, costs, caused, price
<1>3. /\ known \ {1} = Later(record)
      /\ \A i \in known \ {1} : caused[i] = costs[i]
      /\ \A i \in known : caused[i] \in Nat
  BY <1>1, <1>2 DEF KnownIn, Later, costs
<1>4. IsFiniteSet(known)
  <2>1. IsFiniteSet(known \ {1})
    BY <1>3, CostsAre, FS_Subset DEF Later
  <2>2. IsFiniteSet((known \ {1}) \cup {1})
    BY <2>1, FS_AddElement
  <2> QED
    BY <2>2, FS_Subset
<1>5. Total(caused, known \ {1}) = LaterCost(record)
  <2>1. Total(caused, known \ {1}) = Total(costs, known \ {1})
    BY <1>3, TotalSameTerms
  <2> QED
    BY <1>3, <2>1 DEF LaterCost, costs
<1>6. SumOf(caused) = Total(caused, known) /\ LaterCost(record) \in Nat
  BY SpentIs DEF SumOf, KnownIn
<1>7. CASE 1 \in known
  <2>1. caused[1] = price /\ price # Absent /\ price \in Nat
    BY <1>1, <1>2, <1>7 DEF KnownIn
  <2>2. Total(caused, known) = Total(caused, known \ {1}) + caused[1]
    BY <1>3, <1>4, <1>7, TotalWithout
  <2> QED
    BY <1>5, <1>6, <2>1, <2>2 DEF caused, price
<1>8. CASE 1 \notin known
  <2>1. known \ {1} = known
    BY <1>8
  <2>2. SumOf(caused) = LaterCost(record) /\ LaterCost(record) \in Nat
    BY <1>5, <1>6, <2>1
  <2>3. (IF price = Absent THEN 0 ELSE price) \in Nat
    BY <1>1
  <2> QED
    BY <2>2, <2>3 DEF caused, price
<1> QED
  BY <1>7, <1>8

\* What an agreement of a policy with what was done cost, in a row.
LEMMA HistoryRowIs ==
  ASSUME NEW policy, NEW records, NEW w \in DOMAIN Rows(policy, records)
  PROVE  /\ w \in DOMAIN records
         /\ Rows(policy, records)[w] = Evaluate(policy, records[w])
         /\ Rows(policy, records)[w].agrees =>
              /\ Rows(policy, records)[w].compared
              /\ Rows(policy, records)[w].cost.amount = SumOf(Caused(records[w]))
<1>1. w \in DOMAIN records /\ Rows(policy, records)[w] = Evaluate(policy, records[w])
  BY DEF Rows
<1>2. Evaluate(policy, records[w]).agrees =>
        Evaluate(policy, records[w]).compared /\ Evaluate(policy, records[w]).cost = DecisionCost(records[w])
  BY DEF Evaluate
<1>3. DecisionCost(records[w]).amount = SumOf(Caused(records[w]))
  BY DEF DecisionCost
<1> QED
  BY <1>1, <1>2, <1>3

LEMMA DollarsCountOnce == BatchInv => NoDollarTwice
<1> SUFFICES ASSUME BatchInv PROVE NoDollarTwice
  OBVIOUS
<1> DEFINE records == Records(attempts, reviews)
           items == DOMAIN records
           spending == [w \in items |-> SpentOn(records[w])]
           sinking == [w \in items |-> SunkIn(records[w])]
<1>1. IsFiniteSet(items) /\ \A w \in items : History(records[w])
  BY RecordsAre
<1> HIDE DEF records
<1>2. ASSUME NEW policy \in Policies
      PROVE  /\ Summary(policy, records).knownCost + Total(sinking, items) <= Total(spending, items)
             /\ Summary(policy, records).agreement <= Summary(policy, records).comparable
  <2> DEFINE histories == Rows(policy, records)
             agreed == Agreements(histories)
             amount == [w \in DOMAIN histories |-> histories[w].cost.amount]
             comparable == {w \in DOMAIN histories : histories[w].compared}
             causing == [w \in items |-> IF w \in agreed THEN amount[w] ELSE 0]
             both == [w \in items |-> causing[w] + sinking[w]]
  <2>1. /\ Summary(policy, records).knownCost = Total(amount, agreed)
        /\ Summary(policy, records).agreement = Cardinality(agreed)
        /\ Summary(policy, records).comparable = Cardinality(comparable)
    BY DEF Summary
  <2>2. DOMAIN histories \subseteq items /\ agreed \subseteq DOMAIN histories
    BY HistoryRowIs DEF Agreements
  <2>3. \A w \in agreed : histories[w].compared /\ histories[w].cost.amount = SumOf(Caused(records[w]))
    BY HistoryRowIs DEF Agreements
  <2> HIDE DEF histories, agreed
  <2>4. Cardinality(agreed) <= Cardinality(comparable)
    <3>1. agreed \subseteq comparable /\ comparable \subseteq items
      BY <2>2, <2>3
    <3>2. IsFiniteSet(comparable)
      BY <1>1, <3>1, FS_Subset
    <3> QED
      BY <3>1, <3>2, FS_Subset
  <2>5. ASSUME NEW w \in items
        PROVE  /\ causing[w] \in Nat /\ sinking[w] \in Nat /\ spending[w] \in Nat
               /\ both[w] = causing[w] + sinking[w] /\ both[w] <= spending[w]
    <3> DEFINE review == IF records[w].review.cost = Absent THEN 0 ELSE records[w].review.cost
    <3>1. /\ SumOf(Caused(records[w])) \in Nat /\ LaterCost(records[w]) \in Nat /\ SunkIn(records[w]) \in Nat
          /\ SumOf(Caused(records[w])) <= LaterCost(records[w]) + review
          /\ SumOf(CostsOf(records[w].attempts)) = LaterCost(records[w]) + SunkIn(records[w])
      BY <1>1, SpentIs, CausedIs
    <3>2. review \in Nat
      BY <1>1, RowCostIs DEF History
    <3>3. SpentOn(records[w]) = SumOf(CostsOf(records[w].attempts)) + review
      BY DEF SpentOn
    <3>4. causing[w] = 0 \/ causing[w] = SumOf(Caused(records[w]))
      BY <2>2, <2>3
    <3>5. /\ spending[w] = SpentOn(records[w]) /\ sinking[w] = SunkIn(records[w])
          /\ both[w] = causing[w] + sinking[w]
      OBVIOUS
    <3> HIDE DEF review, causing, both, sinking, spending
    <3> QED
      BY <3>1, <3>2, <3>3, <3>4, <3>5
  <2>6. Total(amount, agreed) = Total(causing, items)
    <3>1. agreed \subseteq items /\ (\A w \in agreed : causing[w] = amount[w])
          /\ (\A w \in items \ agreed : causing[w] = 0)
      BY <2>2
    <3> HIDE DEF amount, causing, items
    <3> QED
      BY <3>1, TotalOfPart
  <2> HIDE DEF causing, sinking, spending, both, items, amount
  <2>7. Total(both, items) = Total(causing, items) + Total(sinking, items)
    BY <1>1, <2>5, TotalOfSums
  <2>8. Total(both, items) <= Total(spending, items)
    <3>1. \A w \in items : both[w] \in Nat
      BY <2>5
    <3> QED
      BY <1>1, <2>5, <3>1, TotalMonotone
  <2> QED
    BY <2>1, <2>4, <2>6, <2>7, <2>8
<1> QED
  BY <1>2 DEF NoDollarTwice, records

(***************************************************************************)
(* The candidate policy at the first attempt, and the live one.            *)
(***************************************************************************)
LEMMA FirstCost ==
  ASSUME NEW row, row.cost \in Nat
  PROVE  CostSoFar([attempts |-> <<row>>, review |-> NoReview]) = row.cost
<1> DEFINE record == [attempts |-> <<row>>, review |-> NoReview]
           costs == CostsOf(<<row>>)
<1>1. DOMAIN costs = {1} /\ costs[1] = row.cost
  BY DEF CostsOf
<1>2. CostSoFar(record) = SumOf(costs)
  <2>1. record.attempts = <<row>> /\ 1 \in DOMAIN <<row>> /\ <<row>>[1] = row /\ row.cost # Absent
    BY DEF Absent
  <2> HIDE DEF record
  <2> QED
    BY <2>1 DEF CostSoFar
<1> HIDE DEF costs
<1>3. {i \in DOMAIN costs : costs[i] # Absent} = {1}
  BY <1>1 DEF Absent
<1>4. Total(costs, {1}) = row.cost
  BY <1>1, TotalSingleton
<1> QED
  BY <1>2, <1>3, <1>4 DEF SumOf

LEMMA LiveIs == BatchInv => RetrospectIsLive
<1> SUFFICES ASSUME BatchInv, NEW w \in DOMAIN Records(attempts, reviews),
                    Records(attempts, reviews)[w].attempts # <<>>,
                    Eligible(Records(attempts, reviews)[w]),
                    Records(attempts, reviews)[w].attempts[1].cost \in 0 .. MaxRetryCost
             PROVE  RecommendBatch("candidate_policy", CheckpointView(Records(attempts, reviews)[w]))
                      = RecommendLive([eligible |-> TRUE, checkFailed |-> TRUE,
                                       cost |-> Records(attempts, reviews)[w].attempts[1].cost,
                                       confidence |-> Records(attempts, reviews)[w].attempts[1].confidence])
  BY DEF RetrospectIsLive
<1> DEFINE record == Records(attempts, reviews)[w]
           row == record.attempts[1]
           view == [attempts |-> <<row>>, review |-> NoReview]
<1>1. CheckpointView(record) = view
  BY DEF CheckpointView
<1>2. CostSoFar(view) = row.cost /\ row.cost # Absent /\ row.cost <= MaxRetryCost
  BY FirstCost DEF Absent
<1>3. /\ view.attempts = <<row>> /\ Len(view.attempts) = 1 /\ view.attempts[1] = row
  OBVIOUS
<1> HIDE DEF view, row
<1>4. RecommendBatch("candidate_policy", view)
        = IF row.confidence = Absent THEN "insufficient_evidence"
          ELSE IF InRetryBand(row.confidence) THEN "retry" ELSE "human_review"
  BY <1>2, <1>3 DEF RecommendBatch
<1>5. RecommendLive([eligible |-> TRUE, checkFailed |-> TRUE, cost |-> row.cost,
                     confidence |-> row.confidence])
        = IF row.confidence = Absent THEN "insufficient_evidence"
          ELSE IF InRetryBand(row.confidence) THEN "retry" ELSE "human_review"
  BY <1>2 DEF RecommendLive
<1> QED
  BY <1>1, <1>4, <1>5 DEF row

-----------------------------------------------------------------------------
LEMMA BatchReads == BatchInv /\ [BatchNext]_batchVars => BatchInv'
<1> SUFFICES ASSUME BatchInv, [BatchNext]_batchVars PROVE BatchInv'
  OBVIOUS
<1>1. CASE UNCHANGED batchVars
  BY <1>1 DEF BatchInv, batchVars
<1>2. ASSUME NEW row \in AttemptRows, ReadAttempt(row) PROVE BatchInv'
  BY <1>2 DEF BatchInv, ReadAttempt
<1>3. ASSUME NEW row \in ReviewRows, ReadReview(row) PROVE BatchInv'
  BY <1>3 DEF BatchInv, ReadReview
<1> QED
  BY <1>1, <1>2, <1>3 DEF BatchNext

(***************************************************************************)
(* A row that comes again changes nothing; no policy's total counts a      *)
(* dollar twice or one spent before the decision; and the candidate policy *)
(* recommends in retrospect what the live one would have done (ingest,     *)
(* _decision_cost, _summarize, build_report).                              *)
(***************************************************************************)
THEOREM BatchStaysFair == BatchSpec => []BatchIsFair
<1>1. BatchInit => BatchInv
  BY DEF BatchInit, BatchInv
<1>2. BatchInv => BatchIsFair
  BY ReplayIsNothing, DollarsCountOnce, LiveIs DEF BatchIsFair
<1> QED
  BY <1>1, <1>2, BatchReads, PTL DEF BatchSpec

(***************************************************************************)
(* What happened after the first attempt never changes what a policy is    *)
(* said to recommend: of a history with attempts, all that the policy is   *)
(* shown is the first (_checkpoint_view, _evaluate_one).                   *)
(***************************************************************************)
THEOREM HindsightNeverHelps == BatchSpec => NoHindsight
<1>1. ASSUME NEW h, NEW g, h.attempts # <<>>, g.attempts # <<>>, h.attempts[1] = g.attempts[1]
      PROVE  CheckpointView(h) = CheckpointView(g)
  BY <1>1 DEF CheckpointView
<1>2. \A policy, h : Evaluate(policy, h).recommended = RecommendBatch(policy, CheckpointView(h))
  BY DEF Evaluate
<1>3. [BatchNext]_batchVars => [AdviceStays]_batchVars
  BY <1>1, <1>2 DEF AdviceStays
<1> QED
  BY <1>3, PTL DEF BatchSpec, NoHindsight
-----------------------------------------------------------------------------
(***************************************************************************)
(* Opening an old store.  Whoever adds columns has every missing one still *)
(* to do; whoever has opened the store finds them all, and a migrated      *)
(* table; a migrated table holds the old calls, each with the payload that *)
(* live code builds from it, and the calls answered since.                 *)
(***************************************************************************)
Openings == [at : {"closed", "adding", "migrating", "open", "failed"}, todo : SUBSET DOMAIN NewColumns]

OpeningShape ==
  /\ way \in {"none", "tried", "checked", "rebuilt"}
  /\ opener \in [Openers -> Openings]
  /\ columns \subseteq AllColumns /\ busy \in Nat /\ version \in 0 .. 1

\* Where errors are ignored, a lock not had in time may cost a column.
Excused == way = "tried" /\ busy > 0

OpenersFollow ==
  \A p \in Openers :
    /\ opener[p].at = "adding" =>
         /\ way # "rebuilt"
         /\ Excused \/ \A c \in AllColumns \ columns : \E i \in opener[p].todo : NewColumns[i] = c
    /\ opener[p].at = "migrating" => way = "rebuilt"
    /\ opener[p].at = "open" =>
         /\ Excused \/ columns = AllColumns
         /\ way = "rebuilt" => version = 1

\* The calls that a migrated table knows.
Known == Made \cup {c \in DOMAIN replies : ~Creates(c)}

CallsFollow ==
  /\ DOMAIN replies \subseteq Retried
  /\ version = 0 =>
       /\ events = << >> /\ replies = << >>
       /\ way = "rebuilt" => oldEvents = {OldRow(c) : c \in Made}
  /\ version = 1 =>
       /\ columns = AllColumns /\ oldEvents = {}
       /\ \A c \in Known : Key(c) \in DOMAIN events
       /\ \A c \in Made : events[Key(c)] = Payload(c)
       /\ \A k \in DOMAIN events : \E c \in Known : Key(c) = k /\ events[k] = Payload(c)

RepliesTell ==
  \A call \in DOMAIN replies :
    IF Creates(call)
    THEN /\ replies[call] # "done"
         /\ call \in Made => (replies[call] = "conflict" <=> Grown(call.delegation))
    ELSE /\ call \in Made <=> replies[call] = "done before"
         /\ replies[call] = "conflict" => \E c \in Known : c # call /\ Key(c) = Key(call)

OpeningInv == OpeningShape /\ OpenersFollow /\ CallsFollow /\ RepliesTell

(***************************************************************************)
(* The next column is one of those to do, and the old row of a call and    *)
(* its delegation tell its payload (_migrate_economic_events_table).       *)
(***************************************************************************)
LEMMA NextIsToDo ==
  ASSUME NEW todo \in SUBSET DOMAIN NewColumns, todo # {}
  PROVE  NextOf(todo) \in todo
<1>1. todo \subseteq Nat
  BY OpeningAssumption DEF OpeningAssumption
<1>2. PICK n \in todo : TRUE
  OBVIOUS
<1>3. \E m \in todo : \A k \in todo : m <= k
  BY <1>1, <1>2, LeastNatural
<1> QED
  BY <1>3 DEF NextOf

LEMMA RebuiltIsPayload ==
  ASSUME NEW c \in Made
  PROVE  Rebuilt(OldRow(c)) = Payload(c)
<1>1. /\ OldRow(c).delegation = c.delegation /\ OldRow(c).kind = c.kind
      /\ OldRow(c).amount = c.amount
      /\ c.kind = "settlement" => OldRow(c).status = c.outcome
  BY DEF OldRow
<1>2. /\ c.delegation \in DOMAIN Delegated
      /\ c.kind \in {"root", "reservation", "authority_grant", "consumption", "settlement"}
      /\ c.kind \in {"root", "reservation"} => c.agent = Delegated[c.delegation].agent
      /\ c.kind = "reservation" => c.parent = Delegated[c.delegation].parent
  BY OpeningAssumption DEF OpeningAssumption
<1>3. CASE c.kind = "root"
  BY <1>1, <1>2, <1>3 DEF Rebuilt, Payload
<1>4. CASE c.kind = "reservation"
  BY <1>1, <1>2, <1>4 DEF Rebuilt, Payload
<1>5. CASE c.kind = "authority_grant"
  BY <1>1, <1>2, <1>5 DEF Rebuilt, Payload
<1>6. CASE c.kind = "consumption"
  BY <1>1, <1>2, <1>6 DEF Rebuilt, Payload
<1>7. CASE c.kind = "settlement"
  BY <1>1, <1>2, <1>7 DEF Rebuilt, Payload
<1> QED
  BY <1>2, <1>3, <1>4, <1>5, <1>6, <1>7

\* What a process does to its own place.
LEMMA OpenerMoves ==
  ASSUME OpeningShape, NEW p \in Openers, NEW todo \in SUBSET DOMAIN NewColumns,
         NEW place \in {"closed", "adding", "migrating", "open", "failed"}, MovesTo(p, place, todo)
  PROVE  /\ opener' \in [Openers -> Openings]
         /\ opener'[p].at = place /\ opener'[p].todo = todo
         /\ \A q \in Openers : q # p => opener'[q] = opener[q]
BY DEF OpeningShape, Openings, MovesTo

\* A step that leaves the calls alone, and takes no column away.
CallsStay == UNCHANGED <<way, events, oldEvents, version, replies>>

LEMMA CallsFollowOn ==
  ASSUME OpeningShape, CallsFollow, RepliesTell, CallsStay,
         columns \subseteq columns', columns' \subseteq AllColumns
  PROVE  CallsFollow' /\ RepliesTell'
BY DEF CallsFollow, RepliesTell, Known, CallsStay, OpeningShape

\* What the others rely on.
LEMMA OthersFollowOn ==
  ASSUME OpeningShape, OpenersFollow, CallsStay, NEW q \in Openers, opener'[q] = opener[q],
         columns \subseteq columns', columns' \subseteq AllColumns,
         busy' \in Nat, busy <= busy'
  PROVE  /\ opener'[q].at = "adding" =>
              /\ way' # "rebuilt"
              /\ \/ Excused'
                 \/ \A c \in AllColumns \ columns' : \E i \in opener'[q].todo : NewColumns[i] = c
         /\ opener'[q].at = "migrating" => way' = "rebuilt"
         /\ opener'[q].at = "open" =>
              /\ Excused' \/ columns' = AllColumns
              /\ way' = "rebuilt" => version' = 1
<1>1. Excused => Excused'
  BY DEF Excused, CallsStay, OpeningShape
<1> QED
  BY <1>1 DEF OpenersFollow, CallsStay

(***************************************************************************)
(* A step of a process that leaves the calls alone keeps the invariant if  *)
(* its new place is one that OpenersFollow allows.                         *)
(***************************************************************************)
LEMMA PlaceIsKept ==
  ASSUME OpeningInv, NEW p \in Openers, NEW todo \in SUBSET DOMAIN NewColumns,
         NEW place \in {"closed", "adding", "migrating", "open", "failed"}, MovesTo(p, place, todo),
         CallsStay, columns \subseteq columns', columns' \subseteq AllColumns,
         busy' \in Nat, busy <= busy',
         place = "adding" =>
           /\ way # "rebuilt"
           /\ Excused' \/ \A c \in AllColumns \ columns' : \E i \in todo : NewColumns[i] = c,
         place = "migrating" => way = "rebuilt",
         place = "open" => /\ Excused' \/ columns' = AllColumns
                           /\ way = "rebuilt" => version = 1
  PROVE  OpeningInv'
<1>1. /\ opener' \in [Openers -> Openings]
      /\ opener'[p].at = place /\ opener'[p].todo = todo
      /\ \A q \in Openers : q # p => opener'[q] = opener[q]
  BY OpenerMoves DEF OpeningInv
<1>2. OpeningShape'
  BY <1>1 DEF OpeningInv, OpeningShape, CallsStay
<1>3. CallsFollow' /\ RepliesTell'
  BY CallsFollowOn DEF OpeningInv
<1>4. OpenersFollow'
  <2>1. way' = way /\ version' = version
    BY DEF CallsStay
  <2>2. ASSUME NEW q \in Openers
        PROVE  /\ opener'[q].at = "adding" =>
                    /\ way' # "rebuilt"
                    /\ \/ Excused'
                       \/ \A c \in AllColumns \ columns' : \E i \in opener'[q].todo : NewColumns[i] = c
               /\ opener'[q].at = "migrating" => way' = "rebuilt"
               /\ opener'[q].at = "open" =>
                    /\ Excused' \/ columns' = AllColumns
                    /\ way' = "rebuilt" => version' = 1
    <3>1. CASE q = p
      BY <1>1, <2>1, <3>1
    <3>2. CASE q # p
      BY <1>1, <3>2, OthersFollowOn DEF OpeningInv
    <3> QED
      BY <3>1, <3>2
  <2> QED
    BY <2>2 DEF OpenersFollow
<1> QED
  BY <1>2, <1>3, <1>4 DEF OpeningInv

LEMMA ColumnsAreAdded ==
  ASSUME OpeningInv, NEW p \in Openers,
         StartOpening(p) \/ AlterFails(p) \/ Alter(p) \/ AllAdded(p)
  PROVE  OpeningInv'
<1> USE DEF OpeningInv
<1>1. /\ opener[p] \in Openings /\ columns \subseteq AllColumns /\ busy \in Nat
      /\ Excused' <=> way' = "tried" /\ busy' > 0
  BY DEF OpeningShape, Excused
<1>2. CASE StartOpening(p)
  <2>1. /\ CallsStay /\ UNCHANGED <<columns, busy>> /\ way # "none"
    BY <1>2 DEF StartOpening, CallsStay
  <2>2. CASE way = "tried"
    <3>1. MovesTo(p, "adding", DOMAIN NewColumns)
      BY <1>2, <2>2 DEF StartOpening
    <3>2. \A c \in AllColumns \ columns' : \E i \in DOMAIN NewColumns : NewColumns[i] = c
      BY DEF AllColumns
    <3> QED
      BY <1>1, <2>1, <2>2, <3>1, <3>2, PlaceIsKept
  <2>3. CASE way = "checked"
    <3> DEFINE missing == {i \in DOMAIN NewColumns : NewColumns[i] \notin columns}
    <3>1. MovesTo(p, "adding", missing)
      BY <1>2, <2>3 DEF StartOpening
    <3>2. /\ \A c \in AllColumns \ columns' : \E i \in missing : NewColumns[i] = c
          /\ missing \in SUBSET DOMAIN NewColumns
      BY <2>1 DEF AllColumns
    <3> HIDE DEF missing
    <3> QED
      BY <1>1, <2>1, <2>3, <3>1, <3>2, PlaceIsKept
  <2>4. CASE way = "rebuilt"
    <3>1. MovesTo(p, IF version = 1 THEN "open" ELSE "migrating", {})
      BY <1>2, <2>4 DEF StartOpening
    <3>2. version = 1 => columns' = AllColumns
      BY <2>1 DEF CallsFollow
    <3>3. CASE version = 1
      BY <1>1, <2>1, <2>4, <3>1, <3>2, <3>3, PlaceIsKept
    <3>4. CASE version # 1
      BY <1>1, <2>1, <2>4, <3>1, <3>4, PlaceIsKept
    <3> QED
      BY <3>3, <3>4
  <2> QED
    BY <2>1, <2>2, <2>3, <2>4 DEF OpeningShape
<1>3. ASSUME opener[p].at = "adding"
      PROVE  /\ way # "rebuilt"
             /\ \/ Excused
                \/ \A c \in AllColumns \ columns : \E i \in opener[p].todo : NewColumns[i] = c
  BY <1>3 DEF OpenersFollow
<1>4. opener[p].todo \in SUBSET DOMAIN NewColumns
  BY <1>1 DEF Openings
<1>5. ASSUME opener[p].at = "adding", opener[p].todo # {}
      PROVE  /\ AfterNext(opener[p].todo) \in SUBSET DOMAIN NewColumns
             /\ NextColumn(p) \in AllColumns
             /\ \A i \in opener[p].todo :
                  i \in AfterNext(opener[p].todo) \/ NewColumns[i] = NextColumn(p)
  BY <1>4, <1>5, NextIsToDo DEF AfterNext, NextColumn, AllColumns
<1>6. CASE AlterFails(p)
  <2>1. /\ CallsStay /\ columns' = columns /\ opener[p].at = "adding" /\ opener[p].todo # {}
        /\ busy' \in Nat /\ busy <= busy'
        /\ busy' > 0 \/ NextColumn(p) \in columns
    BY <1>1, <1>6 DEF AlterFails, CallsStay
  <2>2. CASE way = "tried"
    <3>1. MovesTo(p, "adding", AfterNext(opener[p].todo))
      BY <1>6, <2>2 DEF AlterFails
    <3>2. Excused' \/ \A c \in AllColumns \ columns' :
                         \E i \in AfterNext(opener[p].todo) : NewColumns[i] = c
      <4>1. CASE busy' > 0
        BY <1>1, <2>1, <2>2, <4>1 DEF CallsStay
      <4>2. CASE ~(busy' > 0)
        <5>1. ~Excused /\ NextColumn(p) \in columns
          BY <1>1, <2>1, <4>2 DEF Excused
        <5> QED
          BY <1>3, <1>5, <2>1, <5>1
      <4> QED
        BY <4>1, <4>2
    <3> QED
      BY <1>1, <1>5, <2>1, <2>2, <3>1, <3>2, PlaceIsKept
  <2>3. CASE way # "tried"
    <3>1. MovesTo(p, "failed", {})
      BY <1>6, <2>3 DEF AlterFails
    <3> QED
      BY <1>1, <2>1, <3>1, PlaceIsKept
  <2> QED
    BY <2>2, <2>3
<1>7. CASE Alter(p)
  <2>1. /\ CallsStay /\ busy' = busy /\ opener[p].at = "adding" /\ opener[p].todo # {}
        /\ columns' = columns \cup {NextColumn(p)}
        /\ MovesTo(p, "adding", AfterNext(opener[p].todo))
    BY <1>7 DEF Alter, CallsStay
  <2>2. Excused' \/ \A c \in AllColumns \ columns' :
                       \E i \in AfterNext(opener[p].todo) : NewColumns[i] = c
    <3>1. CASE Excused
      BY <2>1, <3>1 DEF Excused, CallsStay
    <3>2. CASE ~Excused
      BY <1>3, <1>5, <2>1, <3>2
    <3> QED
      BY <3>1, <3>2
  <2>3. columns \subseteq columns' /\ columns' \subseteq AllColumns /\ busy' \in Nat /\ busy <= busy'
    BY <1>1, <1>5, <2>1
  <2> QED
    BY <1>3, <1>5, <2>1, <2>2, <2>3, PlaceIsKept
<1>8. CASE AllAdded(p)
  <2>1. /\ CallsStay /\ UNCHANGED <<columns, busy>> /\ opener[p].at = "adding"
        /\ opener[p].todo = {} /\ MovesTo(p, "open", {})
    BY <1>8 DEF AllAdded, CallsStay
  <2>2. Excused' \/ columns' = AllColumns
    BY <1>1, <1>3, <2>1 DEF Excused, CallsStay
  <2> QED
    BY <1>1, <1>3, <2>1, <2>2, PlaceIsKept
<1> QED
  BY <1>2, <1>6, <1>7, <1>8

LEMMA ClosedIsKept ==
  ASSUME OpeningInv, NEW p \in Openers, MigrateFails(p) \/ Kill(p) \/ Restart(p)
  PROVE  OpeningInv'
<1>1. /\ CallsStay /\ columns' = columns /\ busy' \in Nat /\ busy <= busy'
      /\ \/ MovesTo(p, "failed", {})
         \/ MovesTo(p, "closed", {})
  BY DEF MigrateFails, Kill, Restart, CallsStay, OpeningInv, OpeningShape
<1>2. columns \subseteq AllColumns
  BY DEF OpeningInv, OpeningShape
<1> QED
  BY <1>1, <1>2, PlaceIsKept

(***************************************************************************)
(* The migration keeps every old call, whoever migrated before; a call     *)
(* under a key that is free takes it, and else changes nothing.            *)
(***************************************************************************)
LEMMA MigrationKeepsCalls ==
  ASSUME OpeningInv, NEW p \in Openers, Migrate(p)
  PROVE  OpeningInv'
<1> USE DEF OpeningInv
<1>1. /\ columns' = AllColumns /\ oldEvents' = {} /\ version' = 1 /\ MovesTo(p, "open", {})
      /\ UNCHANGED <<way, busy, replies>> /\ opener[p].at = "migrating"
  BY DEF Migrate
<1>2. way = "rebuilt" /\ ~Excused'
  BY <1>1 DEF OpenersFollow, Excused
<1>3. /\ opener' \in [Openers -> Openings]
      /\ opener'[p].at = "open"
      /\ \A q \in Openers : q # p => opener'[q] = opener[q]
  BY <1>1, OpenerMoves
<1>4. OpeningShape'
  BY <1>1, <1>3 DEF OpeningShape
<1>5. OpenersFollow'
  BY <1>1, <1>2, <1>3 DEF OpenersFollow
<1>6. Known' = Known
  BY <1>1 DEF Known
<1>7. /\ \A c \in Known : Key(c) \in DOMAIN events'
      /\ \A c \in Made : events'[Key(c)] = Payload(c)
      /\ \A k \in DOMAIN events' : \E c \in Known : Key(c) = k /\ events'[k] = Payload(c)
  <2> DEFINE keys == {RowKey(old) : old \in oldEvents}
             rebuilt == [k \in keys |-> Rebuilt(CHOOSE old \in oldEvents : RowKey(old) = k)]
  <2>1. /\ DOMAIN events' = keys \cup DOMAIN events
        /\ \A k \in keys : events'[k] = rebuilt[k]
        /\ \A k \in DOMAIN events \ keys : events'[k] = events[k]
    BY DEF Migrate
  <2>2. CASE version = 0
    <3>1. oldEvents = {OldRow(c) : c \in Made} /\ DOMAIN events = {} /\ Known = Made
      BY <1>2, <2>2 DEF CallsFollow, Known
    <3>2. \A c \in Made : RowKey(OldRow(c)) = Key(c)
      BY DEF OldRow, Key, RowKey
    <3>3. keys = {Key(c) : c \in Made}
      BY <3>1, <3>2
    <3>4. ASSUME NEW c \in Made PROVE events'[Key(c)] = Payload(c)
      <4>1. (CHOOSE old \in oldEvents : RowKey(old) = Key(c)) = OldRow(c)
        <5>1. \A d \in Made : Key(d) = Key(c) => d = c
          BY OpeningAssumption DEF OpeningAssumption
        <5>2. \A old \in oldEvents : RowKey(old) = Key(c) => old = OldRow(c)
          BY <3>1, <3>2, <5>1
        <5>3. OldRow(c) \in oldEvents /\ RowKey(OldRow(c)) = Key(c)
          BY <3>1, <3>2
        <5> QED
          BY <5>2, <5>3
      <4>2. Key(c) \in keys
        BY <3>3
      <4>3. rebuilt[Key(c)] = Rebuilt(OldRow(c))
        BY <4>1, <4>2
      <4> QED
        BY <2>1, <4>2, <4>3, RebuiltIsPayload
    <3> HIDE DEF keys, rebuilt
    <3> QED
      BY <2>1, <3>1, <3>3, <3>4
  <2>3. CASE version = 1
    <3>1. keys = {}
      BY <2>3 DEF CallsFollow
    <3> HIDE DEF keys, rebuilt
    <3> QED
      BY <2>1, <2>3, <3>1 DEF CallsFollow, Known
  <2> QED
    BY <2>2, <2>3 DEF OpeningShape
<1>8. CallsFollow'
  <2>1. DOMAIN replies' \subseteq Retried /\ version' # 0
    BY <1>1 DEF CallsFollow
  <2> QED
    BY <1>1, <1>6, <1>7, <2>1 DEF CallsFollow
<1>9. RepliesTell'
  BY <1>1, <1>6 DEF RepliesTell
<1> QED
  BY <1>4, <1>5, <1>8, <1>9

LEMMA CallsAreKnown ==
  ASSUME OpeningInv, NEW p \in Openers, NEW call \in Retried, Call(p, call)
  PROVE  OpeningInv'
<1> USE DEF OpeningInv
<1> DEFINE reply == Reply(call)
<1>1. /\ way = "rebuilt" /\ opener[p].at = "open" /\ call \notin DOMAIN replies
      /\ replies' = Put(replies, call, reply)
      /\ events' = IF reply = "done" THEN Put(events, Key(call), Payload(call)) ELSE events
      /\ UNCHANGED <<way, columns, oldEvents, version, opener, busy>>
  BY DEF Call
<1>0. /\ reply = "done" <=> ~Creates(call) /\ Key(call) \notin DOMAIN events
      /\ ~Creates(call) =>
           /\ reply = "done before" <=> /\ Key(call) \in DOMAIN events
                                       /\ events[Key(call)] = Payload(call)
           /\ reply = "conflict" => /\ Key(call) \in DOMAIN events
                                   /\ events[Key(call)] # Payload(call)
      /\ Creates(call) => (reply = "conflict" <=> ~FitsRow(call))
  BY DEF Reply
<1> HIDE DEF reply
<1>2. version = 1
  BY <1>1 DEF OpenersFollow
<1>3. /\ \A c \in Known : Key(c) \in DOMAIN events
      /\ \A c \in Made : events[Key(c)] = Payload(c)
      /\ \A k \in DOMAIN events : \E c \in Known : Key(c) = k /\ events[k] = Payload(c)
      /\ columns = AllColumns /\ oldEvents = {} /\ DOMAIN replies \subseteq Retried
  BY <1>2 DEF CallsFollow
<1>4. /\ DOMAIN replies' = DOMAIN replies \cup {call} /\ replies'[call] = reply
      /\ \A c \in DOMAIN replies : replies'[c] = replies[c]
  BY <1>1 DEF Put
<1>5. Known' = IF Creates(call) THEN Known ELSE Known \cup {call}
  BY <1>4 DEF Known
<1>6. IF Creates(call) THEN events' = events
      ELSE /\ DOMAIN events' = DOMAIN events \cup {Key(call)}
           /\ \A k \in DOMAIN events : events'[k] = events[k]
           /\ Key(call) \notin DOMAIN events => events'[Key(call)] = Payload(call)
  <2>1. CASE ~Creates(call) /\ Key(call) \notin DOMAIN events
    BY <1>0, <1>1, <2>1 DEF Put
  <2>2. CASE Creates(call) \/ Key(call) \in DOMAIN events
    BY <1>0, <1>1, <2>2
  <2> QED
    BY <2>1, <2>2
<1>7. OpeningShape' /\ OpenersFollow'
  BY <1>1 DEF OpeningShape, OpenersFollow, Excused
<1>8. CallsFollow'
  <2>1. /\ \A c \in Known' : Key(c) \in DOMAIN events'
        /\ \A c \in Made : events'[Key(c)] = Payload(c)
    BY <1>3, <1>5, <1>6 DEF Known
  <2>2. \A k \in DOMAIN events' : \E c \in Known' : Key(c) = k /\ events'[k] = Payload(c)
    <3>1. SUFFICES ASSUME NEW k \in DOMAIN events' PROVE \E c \in Known' : Key(c) = k /\ events'[k] = Payload(c)
      OBVIOUS
    <3>2. CASE k \in DOMAIN events
      BY <1>3, <1>5, <1>6, <3>2
    <3>3. CASE k \notin DOMAIN events
      BY <1>5, <1>6, <3>1, <3>3
    <3> QED
      BY <3>2, <3>3
  <2>3. DOMAIN replies' \subseteq Retried
    BY <1>3, <1>4
  <2>4. version' = version /\ columns' = columns /\ oldEvents' = oldEvents
    BY <1>1
  <2>5. /\ version' = 1 /\ version' # 0
        /\ columns' = AllColumns /\ oldEvents' = {}
    BY <1>2, <1>3, <2>4
  <2> QED
    BY <2>1, <2>2, <2>3, <2>5 DEF CallsFollow
<1>9. RepliesTell'
  <2>1. ASSUME Creates(call), call \in Made
        PROVE  FitsRow(call) <=> ~Grown(call.delegation)
    BY <2>1, OpeningAssumption DEF OpeningAssumption, FitsRow, Creates
  <2>2. ASSUME ~Creates(call), call \in Made PROVE reply = "done before"
    BY <1>0, <1>3, <2>2 DEF Known
  <2>3. ASSUME ~Creates(call), reply = "done before" PROVE call \in Made
    <3>1. PICK c \in Known : Key(c) = Key(call) /\ Payload(c) = Payload(call)
      BY <1>0, <1>3, <2>3
    <3>2. c \in Made \cup Retried
      BY <1>3 DEF Known
    <3>3. c = call
      BY <3>1, <3>2, OpeningAssumption DEF OpeningAssumption
    <3> QED
      BY <1>1, <3>3 DEF Known
  <2>4. ASSUME ~Creates(call), reply = "conflict"
        PROVE  \E c \in Known : c # call /\ Key(c) = Key(call)
    BY <1>0, <1>3, <2>4
  <2>5. ASSUME NEW c \in DOMAIN replies
        PROVE  IF Creates(c)
               THEN /\ replies'[c] # "done"
                    /\ c \in Made => (replies'[c] = "conflict" <=> Grown(c.delegation))
               ELSE /\ c \in Made <=> replies'[c] = "done before"
                    /\ replies'[c] = "conflict" => \E d \in Known' : d # c /\ Key(d) = Key(c)
    BY <1>4, <1>5 DEF RepliesTell
  <2>6. IF Creates(call)
        THEN /\ reply # "done"
             /\ call \in Made => (reply = "conflict" <=> Grown(call.delegation))
        ELSE /\ call \in Made <=> reply = "done before"
             /\ reply = "conflict" => \E d \in Known' : d # call /\ Key(d) = Key(call)
    BY <1>0, <1>5, <2>1, <2>2, <2>3, <2>4
  <2> QED
    BY <1>4, <2>5, <2>6 DEF RepliesTell
<1> QED
  BY <1>7, <1>8, <1>9

LEMMA OpeningStep ==
  ASSUME OpeningInv, [OpenNext]_openVars
  PROVE  OpeningInv'
<1>1. CASE UNCHANGED openVars
  BY <1>1 DEF openVars, OpeningInv, OpeningShape, OpenersFollow, Excused, CallsFollow, RepliesTell, Known
<1>2. ASSUME NEW p \in Openers, StartOpening(p) \/ AlterFails(p) \/ Alter(p) \/ AllAdded(p)
      PROVE  OpeningInv'
  BY <1>2, ColumnsAreAdded
<1>3. ASSUME NEW p \in Openers, Migrate(p) PROVE OpeningInv'
  BY <1>3, MigrationKeepsCalls
<1>4. ASSUME NEW p \in Openers, MigrateFails(p) \/ Kill(p) \/ Restart(p) PROVE OpeningInv'
  BY <1>4, ClosedIsKept
<1>5. ASSUME NEW p \in Openers, NEW call \in Retried, Call(p, call) PROVE OpeningInv'
  BY <1>5, CallsAreKnown
<1> QED
  BY <1>1, <1>2, <1>3, <1>4, <1>5 DEF OpenNext

(***************************************************************************)
(* Whoever opened next to it and whoever was killed on the way, a process  *)
(* that has opened a store finds every column in it, unless an error was   *)
(* ignored; and a migrated authority knows every call it knew before, and  *)
(* refuses only a key that another call has, or a root or a reservation    *)
(* that a grant has raised (_migrate, _check_event, create_root, reserve). *)
(***************************************************************************)
THEOREM OpenStaysReady == OpenSpec => []OpenIsReady
<1>1. OpenInit => OpeningInv
  <2>1. SUFFICES ASSUME OpenInit PROVE OpeningInv
    OBVIOUS
  <2>2. OpeningShape /\ OpenersFollow
    BY <2>1, OpeningAssumption DEF OpenInit, OpeningShape, OpenersFollow, Openings, OpeningAssumption
  <2>3. CallsFollow /\ RepliesTell
    BY <2>1 DEF OpenInit, CallsFollow, RepliesTell
  <2> QED
    BY <2>2, <2>3 DEF OpeningInv
<1>2. OpeningInv => OpenIsReady
  BY DEF OpeningInv, OpenersFollow, Excused, CallsFollow, RepliesTell, Known, OpenIsReady
<1> QED
  BY <1>1, <1>2, OpeningStep, PTL DEF OpenSpec

-----------------------------------------------------------------------------
(***************************************************************************)
(* A call through the gateway: what it costs.  A cost is a sum of products *)
(* that is rounded; with fewer tokens, of which those from the cache are   *)
(* no dearer, no term of it grows.                                         *)
(***************************************************************************)
UsageBlocks == [input : Counts, output : Counts, cache : Caches]

LEMMA ProductsGrow ==
  ASSUME NEW a \in Nat, NEW b \in Nat, NEW r \in Nat, NEW q \in Nat, a <= b, r <= q
  PROVE  a * r \in Nat /\ b * q \in Nat /\ a * r <= b * q
<1>1. a * r \in Nat /\ a * q \in Nat /\ a * r <= a * q
  BY ProductGrows
<1>2. q * a \in Nat /\ q * b \in Nat /\ q * a <= q * b
  BY ProductGrows
<1>3. q * a = a * q /\ q * b = b * q
  OBVIOUS
<1> QED
  BY <1>1, <1>2, <1>3

LEMMA RoundingGrows ==
  ASSUME NEW n \in Nat, NEW m \in Nat, n <= m
  PROVE  RoundHalfUp(n) <= RoundHalfUp(m)
<1>1. Million \in Nat \ {0}
  BY ExchangeAssumption DEF ExchangeAssumption
<1>2. /\ 2 * n + Million \in Nat /\ 2 * m + Million \in Nat /\ 2 * n + Million <= 2 * m + Million
      /\ 2 * Million \in Nat \ {0}
  BY <1>1
<1> DEFINE a == 2 * n + Million
           b == 2 * m + Million
           d == 2 * Million
<1> HIDE DEF a, b, d
<1>3. a \in Nat /\ b \in Nat /\ a <= b /\ d \in Nat \ {0}
  BY <1>2 DEF a, b, d
<1>4. a \div d <= b \div d
  BY <1>3, DivisionGrows
<1> QED
  BY <1>4 DEF RoundHalfUp, a, b, d

\* The price of a request that a longer one bounds.
LEMMA TierGrows ==
  ASSUME NEW price \in Prices, PriceIsOrdered(price), NEW few \in Nat, NEW many \in Nat, few <= many
  PROVE  LET at == ForInputTokens(price, few)
             bound == ForInputTokens(price, many)
         IN  /\ at.input \in Nat /\ bound.input \in Nat /\ at.input <= bound.input
             /\ at.output \in Nat /\ bound.output \in Nat /\ at.output <= bound.output
             /\ at.read \in Counts /\ at.read <= at.input
             /\ at.w5 \in Counts /\ at.w1 \in Counts
<1> DEFINE long == [price EXCEPT !.input = price.longInput, !.output = price.longOutput,
                                 !.read = price.longRead]
<1>1. /\ price.input \in Nat /\ price.output \in Nat /\ price.read \in Counts
      /\ price.above \in Counts /\ price.longInput \in Counts /\ price.longOutput \in Counts
      /\ price.longRead \in Counts /\ price.w5 \in Counts /\ price.w1 \in Counts
  BY DEF Prices
<1>2. /\ long.input = price.longInput /\ long.output = price.longOutput /\ long.read = price.longRead
      /\ long.w5 = price.w5 /\ long.w1 = price.w1
  BY DEF Prices
<1>3. /\ ForInputTokens(price, few) = IF price.above = Unknown \/ few <= price.above THEN price ELSE long
      /\ ForInputTokens(price, many) = IF price.above = Unknown \/ many <= price.above THEN price ELSE long
  BY DEF ForInputTokens
<1> HIDE DEF long
<1>4. CASE price.above = Unknown
  BY <1>1, <1>3, <1>4 DEF PriceIsOrdered
<1>5. CASE price.above # Unknown
  <2>1. /\ price.longInput \in Nat /\ price.longOutput \in Nat
        /\ price.longInput >= price.input /\ price.longOutput >= price.output
        /\ price.longRead <= price.longInput /\ price.read <= price.input
    BY <1>1, <1>5 DEF PriceIsOrdered, Counts, Unknown
  <2>2. price.above \in Nat
    BY <1>1, <1>5 DEF Counts
  <2>3. CASE many <= price.above
    BY <1>1, <1>3, <2>1, <2>2, <2>3
  <2>4. CASE few > price.above
    BY <1>1, <1>2, <1>3, <1>5, <2>1, <2>2, <2>4
  <2>5. CASE few <= price.above /\ many > price.above
    BY <1>1, <1>2, <1>3, <1>5, <2>1, <2>2, <2>5
  <2> QED
    BY <2>2, <2>3, <2>4, <2>5
<1> QED
  BY <1>4, <1>5

LEMMA CostIsBounded ==
  ASSUME NEW price \in Prices, PriceIsOrdered(price),
         NEW input \in Nat, NEW output \in Nat, NEW c \in Caches, c.written = 0,
         NEW many \in Nat, input <= many, NEW most \in Nat, output <= most,
         Cost(price, input, output, c) # Unknown
  PROVE  Cost(price, input, output, c) <=
           RoundHalfUp(many * ForInputTokens(price, many).input + most * ForInputTokens(price, many).output)
<1> DEFINE at == ForInputTokens(price, input)
           bound == ForInputTokens(price, many)
           parts == Parts(at, input, output, c)
           of(i) == parts[i][1] * parts[i][2]
           fresh == input - c.read
<1>1. /\ at.input \in Nat /\ bound.input \in Nat /\ at.input <= bound.input
      /\ at.output \in Nat /\ bound.output \in Nat /\ at.output <= bound.output
      /\ at.read \in Counts /\ at.read <= at.input
      /\ at.w5 \in Counts /\ at.w1 \in Counts
  BY TierGrows
<1>2. c.read \in Nat /\ c.written = 0
  BY DEF Caches
<1> HIDE DEF at, bound
<1>3. /\ parts[1] = <<input - c.written - c.read, at.input>> /\ parts[2] = <<output, at.output>>
      /\ parts[3] = <<c.read, at.read>> /\ parts[4] = <<0, at.w5>> /\ parts[5] = <<0, at.w1>>
      /\ DOMAIN parts = 1 .. 5
  BY <1>2 DEF Parts
<1>4. input - c.written - c.read = fresh /\ fresh \in Int
  BY <1>2
<1> HIDE DEF fresh
<1>5. /\ of(1) = fresh * at.input /\ of(2) = output * at.output /\ of(3) = c.read * at.read
      /\ of(4) = 0 * at.w5 /\ of(5) = 0 * at.w1
  BY <1>3, <1>4
<1>6. /\ \A i \in DOMAIN parts : parts[i][1] >= 0 /\ (parts[i][1] > 0 => parts[i][2] # Unknown)
      /\ Cost(price, input, output, c) = RoundHalfUp(of(1) + of(2) + of(3) + of(4) + of(5))
  BY DEF Cost, at
<1>7. fresh \in Nat /\ (c.read > 0 => at.read # Unknown)
  <2>1. parts[1][1] >= 0 /\ (parts[3][1] > 0 => parts[3][2] # Unknown)
    BY <1>3, <1>6
  <2> QED
    BY <1>3, <1>4, <2>1
<1> HIDE DEF parts
<1>8. fresh * at.input + c.read * at.read <= input * at.input /\ c.read * at.read \in Nat
  <2>1. c.read * at.read \in Nat /\ c.read * at.read <= c.read * at.input /\ c.read * at.input \in Nat
    <3>1. CASE c.read = 0
      BY <1>1, <3>1 DEF Counts, Unknown
    <3>2. CASE c.read # 0
      <4>1. at.read \in Nat
        BY <1>1, <1>2, <1>7, <3>2 DEF Counts
      <4> QED
        BY <1>1, <1>2, <4>1, ProductsGrow
    <3> QED
      BY <3>1, <3>2
  <2>2. input * at.input = fresh * at.input + c.read * at.input /\ fresh * at.input \in Nat
    <3>1. input = fresh + c.read
      BY <1>2, <1>4
    <3> QED
      BY <1>1, <1>2, <1>7, <3>1
  <2> QED
    BY <2>1, <2>2
<1>9. /\ input * at.input \in Nat /\ many * bound.input \in Nat /\ input * at.input <= many * bound.input
      /\ output * at.output \in Nat /\ most * bound.output \in Nat
      /\ output * at.output <= most * bound.output
  BY <1>1, ProductsGrow
<1>10. 0 * at.w5 = 0 /\ 0 * at.w1 = 0 /\ fresh * at.input \in Nat
  BY <1>1, <1>7 DEF Counts, Unknown
<1> DEFINE n == of(1) + of(2) + of(3) + of(4) + of(5)
           m == many * bound.input + most * bound.output
<1>11. n \in Nat /\ m \in Nat /\ n <= m
  BY <1>5, <1>8, <1>9, <1>10
<1> HIDE DEF n, m, of
<1>12. RoundHalfUp(n) <= RoundHalfUp(m)
  BY <1>11, RoundingGrows
<1> QED
  BY <1>6, <1>12 DEF n, m, bound

(***************************************************************************)
(* The estimate assumes as many tokens as a call within it has, so it      *)
(* bounds the cost on any receipt (estimate_upper_bound_usd).              *)
(***************************************************************************)
LEMMA ReceiptIsCovered ==
  ASSUME PricesAreOrdered, ask \in Asks, NEW status, NEW usage \in UsageBlocks,
         Receipt(status, usage).cost # Unknown,
         TotalInput(ask.shape, usage) * 3 <= ask.chars + 2,
         usage.output <= ask.maxOut, usage.cache.written = 0
  PROVE  Receipt(status, usage).cost <= EstimateUpperBound(Resolve(ask.provider), ask)
<1> DEFINE price == Resolve(ask.provider)
           input == TotalInput(ask.shape, usage)
           c == PricedCache(ask.shape, price, usage.cache)
           many == TokensAtMost(ask.chars)
<1>1. /\ ask.chars \in Nat /\ ask.maxOut \in Nat
      /\ usage.input \in Counts /\ usage.output \in Counts /\ usage.cache \in Caches
  BY ExchangeAssumption DEF ExchangeAssumption, UsageBlocks
<1>2. /\ Receipt(status, usage).cost = Cost(price, input, usage.output, c)
      /\ input # Unknown /\ usage.output # Unknown /\ price # NoPrice
  BY DEF Receipt
<1>3. price \in Prices /\ PriceIsOrdered(price)
  BY <1>2, ExchangeAssumption DEF Resolve, ExchangeAssumption, PricesAreOrdered
<1>4. input \in Nat /\ usage.output \in Nat
  BY <1>1, <1>2 DEF TotalInput, Counts, Caches
<1>5. c \in Caches /\ c.written = 0
  BY <1>1 DEF PricedCache, NoCache, Caches, Counts
<1>6. many \in Nat /\ input <= many
  <2> HIDE DEF input
  <2> QED
    BY <1>1, <1>4 DEF TokensAtMost, input
<1> HIDE DEF price, input, c, many
<1>7. Cost(price, input, usage.output, c) <=
        RoundHalfUp(many * ForInputTokens(price, many).input + ask.maxOut * ForInputTokens(price, many).output)
  BY <1>1, <1>2, <1>3, <1>4, <1>5, <1>6, CostIsBounded
<1> QED
  BY <1>2, <1>7 DEF EstimateUpperBound, price, many

-----------------------------------------------------------------------------
(***************************************************************************)
(* A call through the gateway: the usage read from a stream.  Usage is     *)
(* what the last events tell, so reading on from what was read is reading  *)
(* it all, and line ends between the events change nothing.                *)
(***************************************************************************)
Bytes   == DOMAIN Carries \cup {"CR", "LF"}
Symbols == Bytes \cup {"dropped"}

Telling(shape, symbols, field) == {i \in DOMAIN symbols : Tells(shape, symbols[i], field)}

LEMMA MaxIs ==
  ASSUME NEW n \in Nat, NEW S \in SUBSET (1 .. n), S # {}
  PROVE  Max(S) \in S /\ \A i \in S : i <= Max(S)
<1> DEFINE below == {n - i : i \in S}
<1>1. PICK i \in S : TRUE
  OBVIOUS
<1>2. below \in SUBSET Nat /\ n - i \in below
  OBVIOUS
<1>3. PICK m \in below : \A k \in below : m <= k
  <2> HIDE DEF below
  <2> QED
    BY <1>2, LeastNatural
<1>4. PICK a \in S : m = n - a
  OBVIOUS
<1>5. \A b \in S : a >= b
  <2>1. \A b \in S : m <= n - b
    BY <1>3
  <2> QED
    BY <1>4, <2>1
<1>6. Max(S) \in S /\ \A b \in S : Max(S) >= b
  BY <1>5 DEF Max
<1>7. \A b \in S : b \in Nat
  OBVIOUS
<1> QED
  BY <1>6, <1>7

LEMMA GreatestIs ==
  ASSUME NEW n \in Nat, NEW S \in SUBSET (1 .. n), NEW m \in S, \A i \in S : i <= m
  PROVE  Max(S) = m
<1>1. PICK g \in S : g = Max(S) /\ \A i \in S : i <= g
  BY MaxIs
<1>2. g \in Nat /\ m \in Nat /\ g <= m /\ m <= g
  BY <1>1
<1> QED
  BY <1>1, <1>2

LEMMA FieldsAre == DOMAIN Unread = {"input", "output", "cache"}
BY DEF Unread

LEMMA UsageIs ==
  ASSUME NEW shape, NEW usage, NEW symbols, NEW field \in DOMAIN Unread
  PROVE  UsageOf(shape, usage, symbols)[field] =
           IF Telling(shape, symbols, field) = {} THEN usage[field]
           ELSE Told(symbols[Max(Telling(shape, symbols, field))], field)
BY DEF UsageOf, Telling

\* Who tells a field is an event.
LEMMA TellersAreEvents ==
  ASSUME NEW shape, NEW symbols \in Seq(Symbols), NEW field
  PROVE  /\ Telling(shape, symbols, field) \in SUBSET (1 .. Len(symbols))
         /\ \A i \in Telling(shape, symbols, field) : IsEvent(symbols[i]) /\ symbols[i] \in DOMAIN Carries
BY DEF Telling, Tells, IsEvent, Symbols, Bytes

LEMMA UnreadIs == Unread \in UsageBlocks
BY DEF Unread, UsageBlocks, Counts, Caches, NoCache, Unknown

LEMMA UsageTyped ==
  ASSUME NEW shape, NEW usage \in UsageBlocks, NEW symbols \in Seq(Symbols)
  PROVE  UsageOf(shape, usage, symbols) \in UsageBlocks
<1> DEFINE Kind(f) == IF f = "cache" THEN Caches ELSE Counts
           u == UsageOf(shape, usage, symbols)
<1>1. \A f \in DOMAIN Unread : usage[f] \in Kind(f) /\ Unread[f] \in Kind(f)
  BY FieldsAre, UnreadIs DEF UsageBlocks
<1>2. ASSUME NEW f \in DOMAIN Unread PROVE u[f] \in Kind(f)
  <2>1. CASE Telling(shape, symbols, f) = {}
    BY <1>1, <2>1, UsageIs
  <2>2. CASE Telling(shape, symbols, f) # {}
    <3>1. /\ Telling(shape, symbols, f) \in SUBSET (1 .. Len(symbols)) /\ Len(symbols) \in Nat
          /\ \A i \in Telling(shape, symbols, f) : symbols[i] \in DOMAIN Carries
      BY TellersAreEvents
    <3>2. Max(Telling(shape, symbols, f)) \in Telling(shape, symbols, f)
      BY <2>2, <3>1, MaxIs
    <3>3. \A e \in DOMAIN Carries : Told(e, f) \in Kind(f)
      BY <1>1, ExchangeAssumption DEF Told, ExchangeAssumption
    <3> QED
      BY <2>2, <3>1, <3>2, <3>3, UsageIs
  <2> QED
    BY <2>1, <2>2
<1>3. u = [f \in DOMAIN Unread |-> u[f]]
  BY DEF UsageOf
<1> HIDE DEF u
<1>4. u["input"] \in Counts /\ u["output"] \in Counts /\ u["cache"] \in Caches
  BY <1>2, FieldsAre
<1>5. u \in UsageBlocks
  BY <1>3, <1>4, FieldsAre DEF UsageBlocks
<1> QED
  BY <1>5 DEF u

LEMMA UsageGoesOn ==
  ASSUME NEW shape, NEW usage \in UsageBlocks, NEW a \in Seq(Symbols), NEW b \in Seq(Symbols)
  PROVE  UsageOf(shape, UsageOf(shape, usage, a), b) = UsageOf(shape, usage, a \o b)
<1> DEFINE first == UsageOf(shape, usage, a)
           both == UsageOf(shape, usage, a \o b)
           on == UsageOf(shape, first, b)
           T(s, f) == Telling(shape, s, f)
<1>1. /\ a \o b \in Seq(Symbols) /\ Len(a) \in Nat /\ Len(b) \in Nat
      /\ Len(a \o b) = Len(a) + Len(b)
      /\ DOMAIN (a \o b) = 1 .. Len(a) + Len(b) /\ DOMAIN a = 1 .. Len(a) /\ DOMAIN b = 1 .. Len(b)
      /\ \A i \in 1 .. Len(a) + Len(b) : (a \o b)[i] = IF i <= Len(a) THEN a[i] ELSE b[i - Len(a)]
  BY ConcatProperties, LenProperties
<1>2. ASSUME NEW f \in DOMAIN Unread PROVE on[f] = both[f]
  <2> DEFINE A == T(a, f)
             B == T(b, f)
             AB == T(a \o b, f)
  <2>1. /\ A \in SUBSET (1 .. Len(a)) /\ B \in SUBSET (1 .. Len(b)) /\ AB \in SUBSET (1 .. Len(a) + Len(b))
        /\ \A i \in A : i \in 1 .. Len(a)
        /\ \A i \in B : i \in 1 .. Len(b)
        /\ \A i \in AB : i \in 1 .. Len(a) + Len(b)
        /\ \A i \in 1 .. Len(a) : i \in AB <=> i \in A
        /\ \A i \in 1 .. Len(b) : Len(a) + i \in AB <=> i \in B
    BY <1>1 DEF Telling
  <2>2. /\ first[f] = IF A = {} THEN usage[f] ELSE Told(a[Max(A)], f)
        /\ on[f] = IF B = {} THEN first[f] ELSE Told(b[Max(B)], f)
        /\ both[f] = IF AB = {} THEN usage[f] ELSE Told((a \o b)[Max(AB)], f)
    BY UsageIs
  <2> HIDE DEF A, B, AB, first, on, both
  <2>3. CASE B # {}
    <3>1. PICK g \in B : g = Max(B) /\ \A i \in B : i <= g
      BY <1>1, <2>1, <2>3, MaxIs
    <3>2. /\ Len(a) + g \in AB /\ \A i \in AB : i <= Len(a) + g
      <4>1. Len(a) + g \in AB
        BY <2>1, <3>1
      <4>2. ASSUME NEW i \in AB, i > Len(a) PROVE i - Len(a) \in B
        <5>1. i - Len(a) \in 1 .. Len(b) /\ Len(a) + (i - Len(a)) = i
          BY <1>1, <2>1, <4>2
        <5> QED
          BY <2>1, <5>1
      <4>3. ASSUME NEW i \in AB PROVE i <= Len(a) + g
        <5>1. i \in Nat /\ g \in Nat
          BY <1>1, <2>1, <3>1
        <5> QED
          BY <1>1, <3>1, <4>2, <5>1
      <4> QED
        BY <4>1, <4>3
    <3>3. Max(AB) = Len(a) + g /\ Len(a) + g \in 1 .. Len(a) + Len(b)
      <4>1. Len(a) + Len(b) \in Nat
        BY <1>1
      <4> QED
        BY <2>1, <3>2, <4>1, GreatestIs
    <3>4. (a \o b)[Max(AB)] = b[Max(B)]
      BY <1>1, <2>1, <3>1, <3>3
    <3> QED
      BY <2>2, <2>3, <3>2, <3>4
  <2>4. CASE B = {}
    <3>1. AB = A
      <4>1. ASSUME NEW i \in AB PROVE i <= Len(a)
        <5>1. SUFFICES ASSUME i > Len(a) PROVE FALSE
          BY <1>1, <2>1
        <5>2. i - Len(a) \in 1 .. Len(b) /\ Len(a) + (i - Len(a)) = i
          BY <1>1, <2>1, <5>1
        <5> QED
          BY <2>1, <2>4, <5>2
      <4>2. \A i \in AB : i \in 1 .. Len(a)
        BY <1>1, <2>1, <4>1
      <4> QED
        BY <2>1, <4>2
    <3>2. ASSUME A # {} PROVE (a \o b)[Max(A)] = a[Max(A)]
      <4>1. PICK g \in A : g = Max(A)
        BY <1>1, <2>1, <3>2, MaxIs
      <4> QED
        BY <1>1, <2>1, <4>1
    <3> QED
      BY <2>2, <2>4, <3>1, <3>2
  <2> QED
    BY <2>3, <2>4
<1>3. on = [f \in DOMAIN Unread |-> on[f]] /\ both = [f \in DOMAIN Unread |-> both[f]]
  BY DEF UsageOf
<1> HIDE DEF on, both, first
<1>4. on = both
  BY <1>2, <1>3
<1> QED
  BY <1>4 DEF on, both, first

(***************************************************************************)
(* Two sequences with the same events, at places "at" in the longer one,   *)
(* tell the same.                                                          *)
(***************************************************************************)
LEMMA SameEventsSameUsage ==
  ASSUME NEW shape, NEW usage, NEW long \in Seq(Symbols), NEW short \in Seq(Symbols),
         NEW at \in [DOMAIN short -> DOMAIN long],
         \A i, j \in DOMAIN short : i <= j => at[i] <= at[j],
         \A j \in DOMAIN short : \/ long[at[j]] = short[j]
                                 \/ ~IsEvent(long[at[j]]) /\ ~IsEvent(short[j]),
         \A i \in DOMAIN long : IsEvent(long[i]) => \E j \in DOMAIN short : at[j] = i
  PROVE  UsageOf(shape, usage, long) = UsageOf(shape, usage, short)
<1> DEFINE u == UsageOf(shape, usage, long)
           v == UsageOf(shape, usage, short)
<1>1. /\ Len(long) \in Nat /\ Len(short) \in Nat
      /\ DOMAIN long = 1 .. Len(long) /\ DOMAIN short = 1 .. Len(short)
  BY LenProperties
<1>2. ASSUME NEW f \in DOMAIN Unread PROVE u[f] = v[f]
  <2> DEFINE L == Telling(shape, long, f)
             S == Telling(shape, short, f)
  <2>1. /\ L \in SUBSET (1 .. Len(long)) /\ S \in SUBSET (1 .. Len(short))
        /\ \A i \in L : IsEvent(long[i])
        /\ \A j \in S : IsEvent(short[j])
    BY TellersAreEvents
  <2>2. /\ \A j \in S : at[j] \in L /\ long[at[j]] = short[j]
        /\ \A i \in L : \E j \in S : at[j] = i
    <3>1. \A j \in S : at[j] \in L /\ long[at[j]] = short[j]
      BY <2>1 DEF Telling
    <3>2. ASSUME NEW i \in L PROVE \E j \in S : at[j] = i
      <4>1. PICK j \in DOMAIN short : at[j] = i
        BY <2>1, <1>1
      <4>2. long[i] = short[j]
        BY <2>1, <4>1
      <4> QED
        BY <4>1, <4>2 DEF Telling
    <3> QED
      BY <3>1, <3>2
  <2>3. /\ u[f] = IF L = {} THEN usage[f] ELSE Told(long[Max(L)], f)
        /\ v[f] = IF S = {} THEN usage[f] ELSE Told(short[Max(S)], f)
    BY UsageIs
  <2> HIDE DEF L, S, u, v
  <2>4. CASE S = {}
    BY <2>2, <2>3, <2>4
  <2>5. CASE S # {}
    <3>1. Max(S) \in S /\ \A j \in S : j <= Max(S)
      BY <1>1, <2>1, <2>5, MaxIs
    <3>2. at[Max(S)] \in L /\ \A i \in L : i <= at[Max(S)]
      <4>1. \A j \in S : j \in DOMAIN short
        BY <1>1, <2>1
      <4>2. \A j \in S : at[j] <= at[Max(S)]
        BY <3>1, <4>1
      <4> QED
        BY <2>2, <3>1, <4>2
    <3>3. Max(L) = at[Max(S)]
      BY <1>1, <2>1, <3>2, GreatestIs
    <3> QED
      BY <2>2, <2>3, <2>5, <3>1, <3>2, <3>3
  <2> QED
    BY <2>4, <2>5
<1>3. u = [f \in DOMAIN Unread |-> u[f]] /\ v = [f \in DOMAIN Unread |-> v[f]]
  BY DEF UsageOf
<1> HIDE DEF u, v
<1>4. u = v
  BY <1>2, <1>3
<1> QED
  BY <1>4 DEF u, v

(***************************************************************************)
(* What is on the wire: every event, and after it the line ends of a blank *)
(* line, so that a blank line in the bytes is the end of an event.         *)
(***************************************************************************)
LEMMA WidthIs ==
  ASSUME NEW kind \in {"LF", "CRLF"}
  PROVE  /\ kind = "LF" => Width(kind) = 3 /\ Eol(kind) = <<"LF">>
         /\ kind = "CRLF" => Width(kind) = 5 /\ Eol(kind) = <<"CR", "LF">>
BY DEF Width, Eol

LEMMA WireWithLf ==
  ASSUME NEW stream \in Seq(DOMAIN Carries)
  PROVE  LET W == Wire(stream, "LF")
         IN  /\ W \in Seq(Bytes) /\ Len(W) = 3 * Len(stream)
             /\ \A j \in 1 .. Len(W) :
                  /\ (j - 1) % 3 = 0 => 1 + ((j - 1) \div 3) \in DOMAIN stream /\ W[j] = stream[1 + ((j - 1) \div 3)]
                  /\ (j - 1) % 3 # 0 => W[j] = "LF"
<1> DEFINE W == Wire(stream, "LF")
<1>1. /\ Len(stream) \in Nat /\ DOMAIN stream = 1 .. Len(stream)
      /\ \A i \in 1 .. Len(stream) : stream[i] \in DOMAIN Carries
  BY LenProperties
<1>2. W = [j \in 1 .. 3 * Len(stream) |->
             IF (j - 1) % 3 = 0 THEN stream[1 + ((j - 1) \div 3)]
             ELSE Eol("LF")[1 + ((((j - 1) % 3) - 1) % 1)]]
  BY WidthIs DEF Wire
<1>3. ASSUME NEW j \in 1 .. 3 * Len(stream)
      PROVE  /\ (j - 1) % 3 = 0 => 1 + ((j - 1) \div 3) \in DOMAIN stream /\ W[j] = stream[1 + ((j - 1) \div 3)]
             /\ (j - 1) % 3 # 0 => W[j] = "LF"
             /\ W[j] \in Bytes
  <2>1. /\ (j - 1) % 3 \in 0 .. 2 /\ (j - 1) \div 3 \in Nat /\ 1 + ((j - 1) \div 3) \in 1 .. Len(stream)
    BY <1>1
  <2>2. CASE (j - 1) % 3 = 0
    BY <1>1, <1>2, <2>1, <2>2 DEF Bytes
  <2>3. CASE (j - 1) % 3 # 0
    <3>1. 1 + ((((j - 1) % 3) - 1) % 1) = 1
      BY <2>1, <2>3
    <3>2. W[j] = Eol("LF")[1]
      BY <1>2, <2>3, <3>1
    <3> QED
      BY <2>3, <3>2, WidthIs DEF Bytes
  <2> QED
    BY <2>2, <2>3
<1>4. 3 * Len(stream) \in Nat
  BY <1>1
<1> HIDE DEF W
<1>5. W \in Seq(Bytes) /\ Len(W) = 3 * Len(stream)
  BY <1>2, <1>3, <1>4
<1> QED
  BY <1>3, <1>5 DEF W

LEMMA WireWithCrLf ==
  ASSUME NEW stream \in Seq(DOMAIN Carries)
  PROVE  LET W == Wire(stream, "CRLF")
         IN  /\ W \in Seq(Bytes) /\ Len(W) = 5 * Len(stream)
             /\ \A j \in 1 .. Len(W) :
                  /\ (j - 1) % 5 = 0 => 1 + ((j - 1) \div 5) \in DOMAIN stream /\ W[j] = stream[1 + ((j - 1) \div 5)]
                  /\ (j - 1) % 5 \in {1, 3} => W[j] = "CR"
                  /\ (j - 1) % 5 \in {2, 4} => W[j] = "LF"
<1> DEFINE W == Wire(stream, "CRLF")
<1>1. /\ Len(stream) \in Nat /\ DOMAIN stream = 1 .. Len(stream)
      /\ \A i \in 1 .. Len(stream) : stream[i] \in DOMAIN Carries
  BY LenProperties
<1>2. W = [j \in 1 .. 5 * Len(stream) |->
             IF (j - 1) % 5 = 0 THEN stream[1 + ((j - 1) \div 5)]
             ELSE Eol("CRLF")[1 + ((((j - 1) % 5) - 1) % 2)]]
  BY WidthIs DEF Wire
<1>3. ASSUME NEW j \in 1 .. 5 * Len(stream)
      PROVE  /\ (j - 1) % 5 = 0 => 1 + ((j - 1) \div 5) \in DOMAIN stream /\ W[j] = stream[1 + ((j - 1) \div 5)]
             /\ (j - 1) % 5 \in {1, 3} => W[j] = "CR"
             /\ (j - 1) % 5 \in {2, 4} => W[j] = "LF"
             /\ W[j] \in Bytes
  <2>1. /\ (j - 1) % 5 \in 0 .. 4 /\ (j - 1) \div 5 \in Nat /\ 1 + ((j - 1) \div 5) \in 1 .. Len(stream)
    BY <1>1
  <2>2. CASE (j - 1) % 5 = 0
    BY <1>1, <1>2, <2>1, <2>2 DEF Bytes
  <2>3. CASE (j - 1) % 5 \in {1, 3}
    <3>0. (j - 1) % 5 # 0 /\ (j - 1) % 5 \notin {2, 4}
      BY <2>3
    <3>1. 1 + ((((j - 1) % 5) - 1) % 2) = 1
      BY <2>3
    <3>2. W[j] = Eol("CRLF")[1 + ((((j - 1) % 5) - 1) % 2)]
      BY <1>2, <3>0
    <3>3. W[j] = Eol("CRLF")[1]
      BY <3>1, <3>2
    <3>4. W[j] = "CR" /\ W[j] \in Bytes
      BY <3>3, WidthIs DEF Bytes
    <3> QED
      BY <3>4, <3>0
  <2>4. CASE (j - 1) % 5 \in {2, 4}
    <3>0. (j - 1) % 5 # 0 /\ (j - 1) % 5 \notin {1, 3}
      BY <2>4
    <3>1. 1 + ((((j - 1) % 5) - 1) % 2) = 2
      BY <2>4
    <3>2. W[j] = Eol("CRLF")[1 + ((((j - 1) % 5) - 1) % 2)]
      BY <1>2, <3>0
    <3>3. W[j] = Eol("CRLF")[2]
      BY <3>1, <3>2
    <3>4. W[j] = "LF" /\ W[j] \in Bytes
      BY <3>3, WidthIs DEF Bytes
    <3> QED
      BY <3>4, <3>0
  <2> QED
    BY <2>1, <2>2, <2>3, <2>4
<1>4. 5 * Len(stream) \in Nat
  BY <1>1
<1> HIDE DEF W
<1>5. W \in Seq(Bytes) /\ Len(W) = 5 * Len(stream)
  BY <1>2, <1>3, <1>4
<1> QED
  BY <1>3, <1>5 DEF W

LEMMA WireIs ==
  ASSUME NEW stream \in Seq(DOMAIN Carries), NEW kind \in {"LF", "CRLF"}
  PROVE  LET W == Wire(stream, kind)
             w == Width(kind)
         IN  /\ w \in {3, 5} /\ W \in Seq(Bytes) /\ Len(W) = w * Len(stream)
             /\ \A j \in 1 .. Len(W) :
                  /\ (j - 1) % w = 0 => 1 + ((j - 1) \div w) \in DOMAIN stream /\ W[j] = stream[1 + ((j - 1) \div w)]
                  /\ (j - 1) % w # 0 => ~IsEvent(W[j])
<1>1. CASE kind = "LF"
  <2>1. Width(kind) = 3
    BY <1>1, WidthIs
  <2>2. \A j \in 1 .. Len(Wire(stream, "LF")) :
          (j - 1) % 3 # 0 => ~IsEvent(Wire(stream, "LF")[j])
    BY WireWithLf DEF IsEvent
  <2> QED
    BY <1>1, <2>1, <2>2, WireWithLf
<1>2. CASE kind = "CRLF"
  <2>1. Width(kind) = 5
    BY <1>2, WidthIs
  <2>2. ASSUME NEW j \in 1 .. Len(Wire(stream, "CRLF")), (j - 1) % 5 # 0
        PROVE  ~IsEvent(Wire(stream, "CRLF")[j])
    <3>1. Len(Wire(stream, "CRLF")) \in Nat
      BY WireWithCrLf, LenProperties
    <3>2. (j - 1) % 5 \in {1, 3} \/ (j - 1) % 5 \in {2, 4}
      BY <2>2, <3>1
    <3> QED
      BY <3>2, WireWithCrLf DEF IsEvent
  <2> QED
    BY <1>2, <2>1, <2>2, WireWithCrLf
<1> QED
  BY <1>1, <1>2

\* What a blank line ends is a number of whole events.
LEMMA BlankLineEndsEvent ==
  ASSUME NEW stream \in Seq(DOMAIN Carries), NEW kind \in {"LF", "CRLF"},
         NEW j \in 1 .. Len(Wire(stream, kind)), Wire(stream, kind)[j] = "LF",
         \/ j > 1 /\ Wire(stream, kind)[j - 1] = "LF"
         \/ j > 2 /\ Wire(stream, kind)[j - 1] = "CR" /\ Wire(stream, kind)[j - 2] = "LF"
  PROVE  j % Width(kind) = 0
<1> DEFINE W == Wire(stream, kind)
<1>1. \A e \in DOMAIN Carries : e # "LF" /\ e # "CR"
  BY ExchangeAssumption DEF ExchangeAssumption, IsEvent
<1>2. \A i \in DOMAIN stream : stream[i] \in DOMAIN Carries
  OBVIOUS
<1>3. CASE kind = "LF"
  <2>1. /\ W \in Seq(Bytes)
        /\ \A i \in 1 .. Len(W) : /\ (i - 1) % 3 = 0 => W[i] # "LF" /\ W[i] # "CR"
                                  /\ (i - 1) % 3 # 0 => W[i] = "LF"
    BY <1>1, <1>2, <1>3, WireWithLf
  <2> HIDE DEF W
  <2>2. Len(W) \in Nat /\ j \in 1 .. Len(W)
    BY <2>1, LenProperties DEF W
  <2>3. (j - 1) % 3 # 0 /\ W[j] = "LF"
    BY <2>1, <2>2 DEF W
  <2>4. CASE j > 1 /\ W[j - 1] = "LF"
    <3>1. j - 1 \in 1 .. Len(W)
      BY <2>2, <2>4
    <3>2. (j - 1 - 1) % 3 # 0
      BY <2>1, <2>4, <3>1
    <3>3. j % 3 = 0
      BY <2>2, <2>3, <3>2
    <3> QED
      BY <1>3, <3>3, WidthIs
  <2>5. CASE j > 2 /\ W[j - 1] = "CR"
    <3>1. j - 1 \in 1 .. Len(W)
      BY <2>2, <2>5
    <3> QED
      BY <2>1, <2>5, <3>1
  <2> QED
    BY <2>4, <2>5 DEF W
<1>4. CASE kind = "CRLF"
  <2>1. /\ W \in Seq(Bytes)
        /\ \A i \in 1 .. Len(W) : /\ (i - 1) % 5 = 0 => W[i] # "LF" /\ W[i] # "CR"
                                  /\ (i - 1) % 5 \in {1, 3} => W[i] = "CR"
                                  /\ (i - 1) % 5 \in {2, 4} => W[i] = "LF"
    BY <1>1, <1>2, <1>4, WireWithCrLf
  <2> HIDE DEF W
  <2>2. Len(W) \in Nat /\ j \in 1 .. Len(W)
    BY <2>1, LenProperties DEF W
  <2>3. \A i \in 1 .. Len(W) : W[i] = "LF" => (i - 1) % 5 \in {2, 4}
    <3>1. \A i \in 1 .. Len(W) : (i - 1) % 5 = 0 \/ (i - 1) % 5 \in {1, 3} \/ (i - 1) % 5 \in {2, 4}
      BY <2>2
    <3> QED
      BY <2>1, <3>1
  <2>4. (j - 1) % 5 \in {2, 4}
    BY <2>2, <2>3 DEF W
  <2>5. CASE j > 1 /\ W[j - 1] = "LF"
    <3>1. j - 1 \in 1 .. Len(W)
      BY <2>2, <2>5
    <3>2. (j - 1 - 1) % 5 \in {2, 4}
      BY <2>3, <2>5, <3>1
    <3> QED
      BY <2>2, <2>4, <3>2
  <2>6. CASE j > 2 /\ W[j - 1] = "CR" /\ W[j - 2] = "LF"
    <3>1. j - 2 \in 1 .. Len(W)
      BY <2>2, <2>6
    <3>2. (j - 2 - 1) % 5 \in {2, 4}
      BY <2>3, <2>6, <3>1
    <3>3. j % 5 = 0
      BY <2>2, <2>4, <3>2
    <3> QED
      BY <1>4, <3>3, WidthIs
  <2> QED
    BY <2>5, <2>6 DEF W
<1> QED
  BY <1>3, <1>4

\* The usage of whole events on the wire is that of the events.
LEMMA UsageOfWire ==
  ASSUME NEW stream \in Seq(DOMAIN Carries), NEW kind \in {"LF", "CRLF"}, NEW shape, NEW usage,
         NEW c \in 0 .. Len(Wire(stream, kind)), c % Width(kind) = 0
  PROVE  /\ UsageOf(shape, usage, SubSeq(Wire(stream, kind), 1, c)) =
              UsageOf(shape, usage, SubSeq(stream, 1, c \div Width(kind)))
         /\ c \div Width(kind) \in 0 .. Len(stream)
<1> DEFINE W == Wire(stream, kind)
           w == Width(kind)
           n == c \div w
           long == SubSeq(W, 1, c)
           short == SubSeq(stream, 1, n)
           at == [j \in 1 .. n |-> 1 + (j - 1) * w]
<1>1. /\ w \in {3, 5} /\ W \in Seq(Bytes) /\ Len(W) = w * Len(stream) /\ Len(stream) \in Nat
      /\ \A j \in 1 .. Len(W) :
           /\ (j - 1) % w = 0 => 1 + ((j - 1) \div w) \in DOMAIN stream /\ W[j] = stream[1 + ((j - 1) \div w)]
           /\ (j - 1) % w # 0 => ~IsEvent(W[j])
  BY WireIs, LenProperties
<1> HIDE DEF W, w
<1>2. c \in 0 .. Len(W) /\ c % w = 0
  BY DEF W, w
<1>3. n \in 0 .. Len(stream) /\ c = n * w /\ Len(W) \in Nat
  <2>1. CASE w = 3
    BY <1>1, <1>2, <2>1
  <2>2. CASE w = 5
    BY <1>1, <1>2, <2>2
  <2> QED
    BY <1>1, <2>1, <2>2
<1>4. \A j \in 1 .. n : /\ at[j] \in 1 .. c /\ (at[j] - 1) % w = 0 /\ (at[j] - 1) \div w = j - 1
                        /\ \A i \in 1 .. j : at[i] <= at[j]
  <2>1. CASE w = 3
    BY <1>3, <2>1
  <2>2. CASE w = 5
    BY <1>3, <2>2
  <2> QED
    BY <1>1, <2>1, <2>2
<1>5. \A i \in 1 .. c : (i - 1) % w = 0 => 1 + ((i - 1) \div w) \in 1 .. n /\ at[1 + ((i - 1) \div w)] = i
  <2>1. CASE w = 3
    BY <1>3, <2>1
  <2>2. CASE w = 5
    BY <1>3, <2>2
  <2> QED
    BY <1>1, <2>1, <2>2
<1> DEFINE places == at
<1>6. places \in [1 .. n -> 1 .. c]
  BY <1>4
<1> HIDE DEF n, places
<1>7. /\ long \in Seq(Symbols) /\ Len(long) = c /\ DOMAIN long = 1 .. c
      /\ \A i \in 1 .. c : long[i] = W[i]
  <2>1. /\ c \in Nat /\ \A i \in 1 .. c : W[i] \in Symbols /\ i \in 1 .. Len(W)
    BY <1>1, <1>2, <1>3 DEF Symbols
  <2> QED
    BY <2>1
<1>8. /\ short \in Seq(Symbols) /\ Len(short) = n /\ DOMAIN short = 1 .. n
      /\ \A i \in 1 .. n : short[i] = stream[i]
  <2>1. /\ n \in Nat /\ \A i \in 1 .. n : stream[i] \in Symbols /\ i \in 1 .. Len(stream)
    BY <1>1, <1>3 DEF Symbols, Bytes
  <2> QED
    BY <2>1
<1> HIDE DEF long, short
<1>9. /\ \A i, j \in 1 .. n : i <= j => places[i] <= places[j]
      /\ \A j \in 1 .. n : long[places[j]] = short[j]
      /\ \A i \in 1 .. c : IsEvent(long[i]) => \E j \in 1 .. n : places[j] = i
  <2>1. \A i, j \in 1 .. n : i <= j => places[i] <= places[j]
    <3>1. ASSUME NEW i \in 1 .. n, NEW j \in 1 .. n, i <= j PROVE i \in 1 .. j
      BY <1>3, <3>1
    <3> QED
      BY <1>4, <3>1 DEF places
  <2>2. ASSUME NEW j \in 1 .. n PROVE long[places[j]] = short[j]
    <3>1. places[j] \in 1 .. c /\ (places[j] - 1) % w = 0 /\ (places[j] - 1) \div w = j - 1 /\ j \in Nat
      BY <1>3, <1>4 DEF places
    <3>2. places[j] \in 1 .. Len(W) /\ 1 + (j - 1) = j
      BY <1>2, <1>3, <3>1
    <3>3. W[places[j]] = stream[1 + ((places[j] - 1) \div w)]
      BY <1>1, <3>1, <3>2
    <3>4. W[places[j]] = stream[j]
      BY <3>1, <3>2, <3>3
    <3> QED
      BY <1>7, <1>8, <3>1, <3>4
  <2>3. ASSUME NEW i \in 1 .. c, IsEvent(long[i]) PROVE \E j \in 1 .. n : places[j] = i
    <3>1. i \in 1 .. Len(W)
      BY <1>2, <1>3
    <3> QED
      BY <1>1, <1>5, <1>7, <2>3, <3>1 DEF places
  <2> QED
    BY <2>1, <2>2, <2>3
<1>10. UsageOf(shape, usage, long) = UsageOf(shape, usage, short)
  <2>1. /\ places \in [DOMAIN short -> DOMAIN long]
        /\ \A i, j \in DOMAIN short : i <= j => places[i] <= places[j]
        /\ \A j \in DOMAIN short : long[places[j]] = short[j]
        /\ \A i \in DOMAIN long : IsEvent(long[i]) => \E j \in DOMAIN short : places[j] = i
    BY <1>6, <1>7, <1>8, <1>9
  <2> QED
    BY <1>7, <1>8, <2>1, SameEventsSameUsage
<1> QED
  BY <1>3, <1>10 DEF W, w, n, long, short

(***************************************************************************)
(* The first g bytes have passed: the buffer holds the last of them, none  *)
(* of which completes a blank line, and the usage is that of all before.   *)
(***************************************************************************)
SameOrDropped(symbol, byte) == symbol = byte \/ (symbol = "dropped" /\ byte = "CR")

HasRead(stream, kind, shape, g, waiting, usage) ==
  LET W == Wire(stream, kind)
      c == g - Len(waiting)
  IN  /\ waiting \in Seq(Symbols) /\ c \in Nat
      /\ \A i \in 1 .. Len(waiting) : SameOrDropped(waiting[i], W[c + i]) /\ ~EndsBlankLine(waiting, i)
      /\ c % Width(kind) = 0
      /\ usage = UsageOf(shape, Unread, SubSeq(W, 1, c))

LEMMA PieceIs ==
  ASSUME NEW S, NEW w \in Seq(S), NEW g \in Nat, NEW h \in Nat, g <= h, h <= Len(w)
  PROVE  /\ SubSeq(w, g + 1, h) \in Seq(S) /\ Len(SubSeq(w, g + 1, h)) = h - g
         /\ DOMAIN SubSeq(w, g + 1, h) = 1 .. h - g
         /\ \A i \in 1 .. h - g : SubSeq(w, g + 1, h)[i] = w[g + i]
<1>1. \A i \in g + 1 .. h : w[i] \in S
  OBVIOUS
<1>2. /\ SubSeq(w, g + 1, h) \in Seq(S)
      /\ Len(SubSeq(w, g + 1, h)) = IF g + 1 <= h THEN h - (g + 1) + 1 ELSE 0
      /\ \A i \in 1 .. h - (g + 1) + 1 : SubSeq(w, g + 1, h)[i] = w[g + 1 + i - 1]
  BY <1>1, SubSeqProperties
<1>3. Len(SubSeq(w, g + 1, h)) = h - g /\ h - (g + 1) + 1 = h - g
  BY <1>2
<1>4. \A i \in 1 .. h - g : SubSeq(w, g + 1, h)[i] = w[g + i]
  BY <1>2, <1>3
<1> QED
  BY <1>2, <1>3, <1>4, LenProperties

LEMMA SplitIs ==
  ASSUME NEW bytes \in Seq(Symbols)
  PROVE  \E p \in 0 .. Len(bytes) :
           /\ Split(bytes).complete = SubSeq(bytes, 1, p)
           /\ Split(bytes).rest = SubSeq(bytes, p + 1, Len(bytes))
           /\ p > 0 => EndsBlankLine(bytes, p)
           /\ \A i \in p + 1 .. Len(bytes) : ~EndsBlankLine(bytes, i)
<1> DEFINE ends == {i \in DOMAIN bytes : EndsBlankLine(bytes, i)}
           last == IF ends = {} THEN 0 ELSE Max(ends)
<1>1. Len(bytes) \in Nat /\ DOMAIN bytes = 1 .. Len(bytes)
  BY LenProperties
<1>2. Split(bytes).complete = SubSeq(bytes, 1, last) /\ Split(bytes).rest = SubSeq(bytes, last + 1, Len(bytes))
  BY DEF Split
<1>3. ends \in SUBSET (1 .. Len(bytes)) /\ \A i \in 1 .. Len(bytes) : i \in ends <=> EndsBlankLine(bytes, i)
  BY <1>1
<1> HIDE DEF ends
<1>4. CASE ends = {}
  <2>1. last = 0 /\ \A i \in 0 + 1 .. Len(bytes) : ~EndsBlankLine(bytes, i)
    BY <1>1, <1>3, <1>4
  <2> HIDE DEF last
  <2> QED
    BY <1>1, <1>2, <2>1
<1>5. CASE ends # {}
  <2>1. PICK m \in ends : m = last /\ \A i \in ends : i <= m
    BY <1>1, <1>3, <1>5, MaxIs
  <2>2. m \in 1 .. Len(bytes) /\ EndsBlankLine(bytes, m)
    BY <1>3, <2>1
  <2>3. ASSUME NEW i \in m + 1 .. Len(bytes) PROVE ~EndsBlankLine(bytes, i)
    <3>1. i \in 1 .. Len(bytes) /\ ~(i <= m)
      BY <1>1, <2>2
    <3> QED
      BY <1>3, <2>1, <3>1
  <2> HIDE DEF last
  <2> QED
    BY <1>1, <1>2, <2>1, <2>2, <2>3
<1> QED
  BY <1>4, <1>5

\* A chunk is appended with its pairs of CR and LF made one.
LEMMA BytesAre ==
  ASSUME NEW stream \in Seq(DOMAIN Carries), NEW kind \in {"LF", "CRLF"}, NEW shape,
         NEW g \in Nat, NEW h \in Nat, g <= h, h <= Len(Wire(stream, kind)),
         NEW waiting, NEW usage, HasRead(stream, kind, shape, g, waiting, usage)
  PROVE  LET W == Wire(stream, kind)
             c == g - Len(waiting)
             bytes == waiting \o Normalised(SubSeq(W, g + 1, h))
         IN  /\ bytes \in Seq(Symbols) /\ Len(bytes) = h - c
             /\ \A i \in 1 .. Len(bytes) : SameOrDropped(bytes[i], W[c + i])
<1> DEFINE W == Wire(stream, kind)
           chunk == SubSeq(W, g + 1, h)
           new == Normalised(chunk)
           c == g - Len(waiting)
           bytes == waiting \o new
<1>1. W \in Seq(Bytes)
  BY WireIs
<1>2. /\ waiting \in Seq(Symbols) /\ c \in Nat /\ Len(waiting) \in Nat
      /\ \A i \in 1 .. Len(waiting) : SameOrDropped(waiting[i], W[c + i])
  BY LenProperties DEF HasRead
<1> HIDE DEF W
<1>3. h <= Len(W)
  BY DEF W
<1>4. /\ chunk \in Seq(Bytes) /\ Len(chunk) = h - g /\ DOMAIN chunk = 1 .. h - g /\ h - g \in Nat
      /\ \A i \in 1 .. h - g : chunk[i] = W[g + i] /\ chunk[i] \in Bytes
  BY <1>1, <1>3, PieceIs
<1> HIDE DEF chunk
<1>5. new = [i \in 1 .. h - g |->
               IF chunk[i] = "CR" /\ i < Len(chunk) /\ chunk[i + 1] = "LF" THEN "dropped" ELSE chunk[i]]
  BY <1>4 DEF Normalised
<1> HIDE DEF new
<1>6. /\ new \in Seq(Symbols) /\ Len(new) = h - g
      /\ \A i \in 1 .. h - g : SameOrDropped(new[i], W[g + i])
  <2>1. \A i \in 1 .. h - g : new[i] \in Symbols /\ SameOrDropped(new[i], W[g + i])
    BY <1>4, <1>5 DEF Symbols, SameOrDropped
  <2> QED
    BY <1>4, <1>5, <2>1
<1>7. /\ bytes \in Seq(Symbols) /\ Len(bytes) = Len(waiting) + (h - g)
      /\ \A i \in 1 .. Len(waiting) + (h - g) :
           bytes[i] = IF i <= Len(waiting) THEN waiting[i] ELSE new[i - Len(waiting)]
  <2>1. /\ bytes \in Seq(Symbols) /\ Len(bytes) = Len(waiting) + Len(new)
        /\ \A i \in 1 .. Len(waiting) + Len(new) :
             bytes[i] = IF i <= Len(waiting) THEN waiting[i] ELSE new[i - Len(waiting)]
    BY <1>2, <1>6, ConcatProperties
  <2>2. Len(new) = h - g
    BY <1>6
  <2> HIDE DEF bytes
  <2> QED
    BY <2>1, <2>2
<1>8. Len(bytes) = h - c /\ Len(waiting) + (h - g) = h - c
  BY <1>2, <1>7
<1> HIDE DEF bytes
<1>9. ASSUME NEW i \in 1 .. Len(bytes) PROVE SameOrDropped(bytes[i], W[c + i])
  <2>1. CASE i <= Len(waiting)
    <3>1. i \in 1 .. Len(waiting) /\ i \in 1 .. Len(waiting) + (h - g)
      BY <1>2, <1>4, <1>7, <2>1
    <3> QED
      BY <1>2, <1>7, <2>1, <3>1
  <2>2. CASE ~(i <= Len(waiting))
    <3>1. /\ i - Len(waiting) \in 1 .. h - g /\ i \in 1 .. Len(waiting) + (h - g)
          /\ g + (i - Len(waiting)) = c + i
      <4> DEFINE l == Len(waiting)
      <4>1. i \in 1 .. l + (h - g) /\ l \in Nat /\ h - g \in Nat /\ ~(i <= l)
        BY <1>2, <1>4, <1>7, <2>2
      <4>2. c = g - l
        OBVIOUS
      <4> HIDE DEF l, c
      <4>3. i - l \in 1 .. h - g /\ g + (i - l) = c + i
        BY <4>1, <4>2
      <4> QED
        BY <4>1, <4>3 DEF l
    <3>2. bytes[i] = new[i - Len(waiting)]
      BY <1>7, <2>2, <3>1
    <3>3. SameOrDropped(new[i - Len(waiting)], W[g + (i - Len(waiting))])
      BY <1>6, <3>1
    <3> QED
      BY <3>1, <3>2, <3>3
  <2> QED
    BY <2>1, <2>2
<1> QED
  BY <1>7, <1>8, <1>9 DEF W, bytes, new, chunk

LEMMA ReadsOn ==
  ASSUME NEW stream \in Seq(DOMAIN Carries), NEW kind \in {"LF", "CRLF"}, NEW shape,
         NEW g \in Nat, NEW h \in Nat, g <= h, h <= Len(Wire(stream, kind)),
         NEW waiting, NEW usage, HasRead(stream, kind, shape, g, waiting, usage)
  PROVE  LET fed == Split(waiting \o Normalised(SubSeq(Wire(stream, kind), g + 1, h)))
         IN  HasRead(stream, kind, shape, h, fed.rest, UsageOf(shape, usage, fed.complete))
<1> DEFINE W == Wire(stream, kind)
           w == Width(kind)
           c == g - Len(waiting)
           bytes == waiting \o Normalised(SubSeq(W, g + 1, h))
           n == Len(bytes)
<1>1. /\ W \in Seq(Bytes) /\ w \in {3, 5} /\ Len(W) \in Nat /\ h <= Len(W)
      /\ \A i \in 1 .. Len(W) : W[i] \in Bytes
  BY WireIs, LenProperties
<1>2. /\ bytes \in Seq(Symbols) /\ n = h - c
      /\ \A i \in 1 .. n : SameOrDropped(bytes[i], W[c + i])
  BY BytesAre
<1>3. c \in Nat /\ c % w = 0 /\ usage = UsageOf(shape, Unread, SubSeq(W, 1, c))
  BY DEF HasRead
<1>4. PICK p \in 0 .. Len(bytes) :
        /\ Split(bytes).complete = SubSeq(bytes, 1, p)
        /\ Split(bytes).rest = SubSeq(bytes, p + 1, Len(bytes))
        /\ p > 0 => EndsBlankLine(bytes, p)
        /\ \A i \in p + 1 .. Len(bytes) : ~EndsBlankLine(bytes, i)
  BY <1>2, SplitIs
<1> DEFINE rest == SubSeq(bytes, p + 1, n)
           complete == SubSeq(bytes, 1, p)
<1>5. \A j \in 1 .. Len(W) :
        W[j] = "LF" /\ (\/ j > 1 /\ W[j - 1] = "LF"
                        \/ j > 2 /\ W[j - 1] = "CR" /\ W[j - 2] = "LF") => j % w = 0
  BY BlankLineEndsEvent
<1> HIDE DEF W, w, c, bytes
<1>6. /\ n \in Nat /\ c + n = h /\ p \in Nat /\ p <= n /\ c + p <= h /\ DOMAIN bytes = 1 .. n
      /\ \A i \in 1 .. n : c + i \in 1 .. Len(W)
  BY <1>1, <1>2, <1>3, LenProperties
<1>7. \A i \in 1 .. n : /\ bytes[i] = "LF" => W[c + i] = "LF"
                        /\ bytes[i] = "dropped" => W[c + i] = "CR"
  <2>1. "dropped" \notin Bytes
    BY ExchangeAssumption DEF Bytes, ExchangeAssumption, IsEvent
  <2> QED
    BY <1>1, <1>2, <1>6, <2>1 DEF SameOrDropped
<1>8. (c + p) % w = 0
  <2>1. CASE p = 0
    BY <1>3, <2>1
  <2>2. CASE p > 0
    <3> DEFINE j == c + p
    <3>1. bytes[p] = "LF" /\ p \in 1 .. n /\ j \in 1 .. Len(W) /\ W[j] = "LF"
      BY <1>4, <1>6, <1>7, <2>2 DEF EndsBlankLine
    <3>2. CASE p > 1 /\ bytes[p - 1] = "LF"
      <4>1. p - 1 \in 1 .. n /\ c + (p - 1) = j - 1 /\ j > 1
        BY <1>3, <1>6, <3>2
      <4>2. W[j - 1] = "LF"
        BY <1>7, <3>2, <4>1
      <4> QED
        BY <1>5, <3>1, <4>1, <4>2
    <3>3. CASE p > 2 /\ bytes[p - 1] = "dropped" /\ bytes[p - 2] = "LF"
      <4>1. /\ p - 1 \in 1 .. n /\ c + (p - 1) = j - 1 /\ j > 2
            /\ p - 2 \in 1 .. n /\ c + (p - 2) = j - 2
        BY <1>3, <1>6, <3>3
      <4>2. W[j - 1] = "CR" /\ W[j - 2] = "LF"
        BY <1>7, <3>3, <4>1
      <4> QED
        BY <1>5, <3>1, <4>1, <4>2
    <3> QED
      BY <1>4, <2>2, <3>2, <3>3 DEF EndsBlankLine
  <2> QED
    BY <1>6, <2>1, <2>2
<1>9. /\ rest \in Seq(Symbols) /\ Len(rest) = n - p /\ h - Len(rest) = c + p
      /\ \A i \in 1 .. n - p : rest[i] = bytes[p + i]
  <2>1. /\ rest \in Seq(Symbols) /\ Len(rest) = n - p
        /\ \A i \in 1 .. n - p : rest[i] = bytes[p + i]
    BY <1>2, <1>6, PieceIs
  <2>2. h - (n - p) = c + p
    <3>1. c \in Nat
      BY <1>3
    <3>2. n \in Nat /\ p \in Nat /\ c + n = h
      BY <1>6
    <3> HIDE DEF n
    <3> QED
      BY <3>1, <3>2
  <2> HIDE DEF rest
  <2> QED
    BY <2>1, <2>2
<1>10. /\ complete \in Seq(Symbols) /\ Len(complete) = p /\ DOMAIN complete = 1 .. p
       /\ \A i \in 1 .. p : complete[i] = bytes[i]
  <2>1. /\ SubSeq(bytes, 0 + 1, p) \in Seq(Symbols) /\ Len(SubSeq(bytes, 0 + 1, p)) = p - 0
        /\ DOMAIN SubSeq(bytes, 0 + 1, p) = 1 .. p - 0
        /\ \A i \in 1 .. p - 0 : SubSeq(bytes, 0 + 1, p)[i] = bytes[0 + i]
    BY <1>2, <1>6, PieceIs
  <2>2. 0 + 1 = 1 /\ p - 0 = p /\ \A i \in 1 .. p : 0 + i = i
    BY <1>6
  <2> QED
    BY <2>1, <2>2
<1> HIDE DEF rest, complete
<1>11. \A i \in 1 .. n - p : SameOrDropped(rest[i], W[c + p + i]) /\ ~EndsBlankLine(rest, i)
  <2> TAKE i \in 1 .. n - p
  <2>1. /\ p + i \in 1 .. n /\ p + i \in p + 1 .. n /\ c + (p + i) = c + p + i
        /\ rest[i] = bytes[p + i] /\ ~EndsBlankLine(bytes, p + i)
    BY <1>3, <1>4, <1>6, <1>9
  <2>2. SameOrDropped(rest[i], W[c + p + i])
    BY <1>2, <2>1
  <2>3. ASSUME EndsBlankLine(rest, i) PROVE FALSE
    <3>1. CASE i > 1 /\ rest[i - 1] = "LF"
      <4>1. i - 1 \in 1 .. n - p /\ p + (i - 1) = p + i - 1 /\ p + i > 1
        BY <1>6, <3>1
      <4>2. bytes[p + i - 1] = "LF" /\ bytes[p + i] = "LF"
        BY <1>9, <2>1, <2>3, <3>1, <4>1 DEF EndsBlankLine
      <4> QED
        BY <2>1, <4>1, <4>2 DEF EndsBlankLine
    <3>2. CASE i > 2 /\ rest[i - 1] = "dropped" /\ rest[i - 2] = "LF"
      <4>1. /\ i - 1 \in 1 .. n - p /\ p + (i - 1) = p + i - 1 /\ p + i > 2
            /\ i - 2 \in 1 .. n - p /\ p + (i - 2) = p + i - 2
        BY <1>6, <3>2
      <4>2. bytes[p + i - 1] = "dropped" /\ bytes[p + i - 2] = "LF" /\ bytes[p + i] = "LF"
        BY <1>9, <2>1, <2>3, <3>2, <4>1 DEF EndsBlankLine
      <4> QED
        BY <2>1, <4>1, <4>2 DEF EndsBlankLine
    <3> QED
      BY <2>3, <3>1, <3>2 DEF EndsBlankLine
  <2> QED
    BY <2>2, <2>3
<1>12. UsageOf(shape, usage, complete) = UsageOf(shape, Unread, SubSeq(W, 1, c + p))
  <2> DEFINE before == SubSeq(W, 1, c)
             sent == SubSeq(W, c + 1, c + p)
  <2>1. /\ sent \in Seq(Bytes) /\ Len(sent) = p /\ DOMAIN sent = 1 .. p
        /\ \A i \in 1 .. p : sent[i] = W[c + i]
    <3>1. c \in Nat /\ c + p \in Nat /\ c <= c + p /\ c + p <= Len(W) /\ (c + p) - c = p
      BY <1>1, <1>3, <1>6
    <3>2. /\ SubSeq(W, c + 1, c + p) \in Seq(Bytes) /\ Len(SubSeq(W, c + 1, c + p)) = (c + p) - c
          /\ DOMAIN SubSeq(W, c + 1, c + p) = 1 .. (c + p) - c
          /\ \A i \in 1 .. (c + p) - c : SubSeq(W, c + 1, c + p)[i] = W[c + i]
      BY <1>1, <3>1, PieceIs
    <3> QED
      BY <3>1, <3>2
  <2>2. before \in Seq(Bytes) /\ before \o sent = SubSeq(W, 1, c + p)
    <3>1. /\ 1 \in 1 .. Len(W) + 1 /\ c \in 1 - 1 .. Len(W) /\ c + p \in c .. Len(W)
          /\ \A i \in 1 .. c : W[i] \in Bytes
      BY <1>1, <1>3, <1>6
    <3>2. before \o sent = SubSeq(W, 1, c + p)
      BY <1>1, <3>1, ConcatAdjacentSubSeq
    <3>3. before \in Seq(Bytes)
      BY <1>3, <3>1, SubSeqProperties
    <3> QED
      BY <3>2, <3>3
  <2> HIDE DEF before, sent
  <2>3. before \in Seq(Symbols) /\ sent \in Seq(Symbols)
    BY <2>1, <2>2, SeqMonotonic DEF Symbols
  <2>4. UsageOf(shape, usage, complete) = UsageOf(shape, usage, sent)
    <3> DEFINE at == [i \in 1 .. p |-> i]
    <3>1. \A i \in 1 .. p : i \in 1 .. n /\ SameOrDropped(complete[i], sent[i])
      <4> TAKE i \in 1 .. p
      <4>1. i \in 1 .. n
        BY <1>6
      <4> QED
        BY <1>2, <1>10, <2>1, <4>1
    <3>2. /\ at \in [DOMAIN sent -> DOMAIN complete]
          /\ \A i, j \in DOMAIN sent : i <= j => at[i] <= at[j]
          /\ \A j \in DOMAIN sent : \/ complete[at[j]] = sent[j]
                                    \/ ~IsEvent(complete[at[j]]) /\ ~IsEvent(sent[j])
          /\ \A i \in DOMAIN complete : IsEvent(complete[i]) => \E j \in DOMAIN sent : at[j] = i
      BY <1>10, <2>1, <3>1 DEF SameOrDropped, IsEvent
    <3> HIDE DEF at
    <3> QED
      BY <1>10, <2>3, <3>2, SameEventsSameUsage
  <2>5. UsageOf(shape, usage, sent) = UsageOf(shape, Unread, before \o sent)
    BY <1>3, <2>3, UnreadIs, UsageGoesOn DEF before
  <2> QED
    BY <2>2, <2>4, <2>5
<1>13. HasRead(stream, kind, shape, h, rest, UsageOf(shape, usage, complete))
  <2>1. c + p \in Nat
    BY <1>3, <1>6
  <2> QED
    BY <1>8, <1>9, <1>11, <1>12, <2>1 DEF HasRead, W, w
<1> QED
  BY <1>4, <1>13 DEF W, bytes, rest, complete

LEMMA PrefixIs ==
  ASSUME NEW S, NEW w \in Seq(S), NEW n \in 0 .. Len(w)
  PROVE  /\ SubSeq(w, 1, n) \in Seq(S) /\ Len(SubSeq(w, 1, n)) = n
         /\ \A i \in 1 .. n : SubSeq(w, 1, n)[i] = w[i]
<1>1. \A i \in 1 .. n : w[i] \in S
  OBVIOUS
<1>2. /\ SubSeq(w, 1, n) \in Seq(S)
      /\ Len(SubSeq(w, 1, n)) = IF 1 <= n THEN n - 1 + 1 ELSE 0
      /\ \A i \in 1 .. n - 1 + 1 : SubSeq(w, 1, n)[i] = w[1 + i - 1]
  BY <1>1, SubSeqProperties
<1>3. n \in Nat
  BY LenProperties
<1>4. Len(SubSeq(w, 1, n)) = n
  BY <1>2, <1>3
<1>5. \A i \in 1 .. n : SubSeq(w, 1, n)[i] = w[i]
  BY <1>2, <1>3
<1> QED
  BY <1>2, <1>4, <1>5

IsOfEvents(arrived, kind, shape, usage) ==
  /\ usage \in UsageBlocks
  /\ \E n \in 0 .. Len(arrived) :
       /\ usage = UsageOf(shape, Unread, SubSeq(arrived, 1, n))
       /\ kind = "LF" => n = Len(arrived)

\* What was read arrived whole; with LF line ends it is all that arrived whole.
LEMMA ReadIsArrived ==
  ASSUME NEW stream \in Seq(DOMAIN Carries), NEW kind \in {"LF", "CRLF"}, NEW shape,
         NEW g \in 0 .. Len(Wire(stream, kind)),
         NEW waiting, NEW usage, HasRead(stream, kind, shape, g, waiting, usage)
  PROVE  IsOfEvents(SubSeq(stream, 1, g \div Width(kind)), kind, shape, usage)
<1> DEFINE W == Wire(stream, kind)
           w == Width(kind)
           c == g - Len(waiting)
           k == g \div w
           n == c \div w
           arrived == SubSeq(stream, 1, k)
<1>1. /\ w \in {3, 5} /\ W \in Seq(Bytes) /\ Len(W) = w * Len(stream) /\ Len(stream) \in Nat
  BY WireIs, LenProperties
<1>2. /\ c \in Nat /\ Len(waiting) \in Nat /\ c + Len(waiting) = g /\ g \in Nat /\ c <= g
  BY <1>1, LenProperties DEF HasRead
<1>3. /\ c % w = 0 /\ usage = UsageOf(shape, Unread, SubSeq(W, 1, c))
      /\ \A i \in 1 .. Len(waiting) : SameOrDropped(waiting[i], W[c + i]) /\ ~EndsBlankLine(waiting, i)
  BY DEF HasRead
<1>4. c \in 0 .. Len(W) /\ g <= Len(W)
  BY <1>1, <1>2
<1>5. usage = UsageOf(shape, Unread, SubSeq(stream, 1, n))
  BY <1>3, <1>4, UsageOfWire
<1>6. usage \in UsageBlocks
  <2>1. SubSeq(W, 1, c) \in Seq(Bytes)
    BY <1>1, <1>4, PrefixIs
  <2>2. SubSeq(W, 1, c) \in Seq(Symbols)
    BY <2>1, SeqMonotonic DEF Symbols
  <2> QED
    BY <1>3, <2>2, UnreadIs, UsageTyped
<1>7. kind = "LF" => Len(waiting) < 3
  <2> SUFFICES ASSUME kind = "LF", Len(waiting) >= 3 PROVE FALSE
    BY <1>2
  <2>1. w = 3 /\ \A j \in 1 .. Len(W) : (j - 1) % 3 # 0 => W[j] = "LF"
    BY WidthIs, WireWithLf
  <2> HIDE DEF c, W, w
  <2>2. /\ c + 2 \in 1 .. Len(W) /\ c + 3 \in 1 .. Len(W) /\ c % 3 = 0
        /\ ((c + 2) - 1) % 3 # 0 /\ ((c + 3) - 1) % 3 # 0
        /\ 2 \in 1 .. Len(waiting) /\ 3 \in 1 .. Len(waiting)
    <3>1. c \in Nat /\ c % 3 = 0 /\ c + 3 <= Len(W) /\ Len(W) \in Nat
      BY <1>1, <1>2, <1>3, <1>4, <2>1
    <3> QED
      BY <1>2, <3>1
  <2>3. W[c + 2] = "LF" /\ W[c + 3] = "LF"
    <3> DEFINE second == c + 2
               third == c + 3
    <3>1. /\ second \in 1 .. Len(W) /\ third \in 1 .. Len(W)
          /\ (second - 1) % 3 # 0 /\ (third - 1) % 3 # 0
      BY <2>2
    <3> HIDE DEF second, third
    <3>2. W[second] = "LF" /\ W[third] = "LF"
      BY <2>1, <3>1
    <3> QED
      BY <3>2 DEF second, third
  <2>4. waiting[2] = "LF" /\ waiting[3] = "LF" /\ ~EndsBlankLine(waiting, 3)
    BY <1>3, <2>2, <2>3 DEF SameOrDropped
  <2> QED
    BY <2>4 DEF EndsBlankLine
<1>8. /\ n \in Nat /\ k \in Nat /\ n <= k /\ k <= Len(stream)
      /\ kind = "LF" => n = k
  <2>1. kind = "LF" => w = 3
    BY <1>1, WidthIs
  <2> HIDE DEF c, w, W
  <2>2. c \in Nat /\ g \in Nat /\ c <= g /\ g <= Len(W) /\ Len(stream) \in Nat
    BY <1>1, <1>2, <1>4
  <2>3. CASE w = 3
    <3>1. /\ c % 3 = 0 /\ Len(W) = 3 * Len(stream) /\ (kind = "LF" => g < c + 3)
      BY <1>1, <1>2, <1>3, <1>7, <2>3
    <3>2. /\ c \div 3 \in Nat /\ g \div 3 \in Nat /\ c \div 3 <= g \div 3 /\ g \div 3 <= Len(stream)
          /\ kind = "LF" => c \div 3 = g \div 3
      BY <2>2, <3>1
    <3> QED
      BY <2>3, <3>2
  <2>4. CASE w = 5
    <3>1. Len(W) = 5 * Len(stream)
      BY <1>1, <2>4
    <3>2. /\ c \div 5 \in Nat /\ g \div 5 \in Nat /\ c \div 5 <= g \div 5 /\ g \div 5 <= Len(stream)
      BY <2>2, <3>1
    <3> QED
      BY <2>1, <2>4, <3>2
  <2> QED
    BY <1>1, <2>3, <2>4
<1> HIDE DEF n, k, c, W, w
<1>9. /\ arrived \in Seq(DOMAIN Carries) /\ Len(arrived) = k
      /\ \A i \in 1 .. k : arrived[i] = stream[i]
  BY <1>1, <1>8, PrefixIs
<1>10. SubSeq(arrived, 1, n) = SubSeq(stream, 1, n)
  <2> DEFINE few == SubSeq(arrived, 1, n)
             all == SubSeq(stream, 1, n)
  <2>1. /\ few \in Seq(DOMAIN Carries) /\ Len(few) = n
        /\ \A i \in 1 .. n : few[i] = arrived[i]
    BY <1>8, <1>9, PrefixIs
  <2>2. /\ all \in Seq(DOMAIN Carries) /\ Len(all) = n
        /\ \A i \in 1 .. n : all[i] = stream[i]
    BY <1>1, <1>8, PrefixIs
  <2>3. \A i \in 1 .. n : few[i] = all[i]
    BY <1>8, <1>9, <2>1, <2>2
  <2> HIDE DEF few, all
  <2>4. few = all
    BY <2>1, <2>2, <2>3, SeqEqual
  <2> QED
    BY <2>4 DEF few, all
<1> QED
  <2>1. n \in 0 .. Len(arrived) /\ (kind = "LF" => n = Len(arrived))
    BY <1>8, <1>9
  <2> HIDE DEF arrived
  <2>2. IsOfEvents(arrived, kind, shape, usage)
    BY <1>5, <1>6, <1>10, <2>1 DEF IsOfEvents
  <2> QED
    BY <2>2 DEF arrived, k, w

(***************************************************************************)
(* A call through the gateway, step by step: what the client was handed is *)
(* a prefix of what was sent, the rest is on the wire or in the first      *)
(* chunk, and what was read of it is as HasRead says.  Nothing is handed   *)
(* over before the answer is opened, so an attempt begins from nothing.    *)
(***************************************************************************)
Sent == Wire(script, ending)

ExchangeShape ==
  /\ ask \in Asks /\ script \in Seq(DOMAIN Carries) /\ ending \in {"LF", "CRLF"}
  /\ stage \in {"admit", "calling", "backoff", "opened", "forward", "done"}

PassesInOrder ==
  /\ got \in Seq(Bytes) /\ Len(got) <= Len(Sent) /\ got = SubSeq(Sent, 1, Len(got))
  /\ stage \in {"admit", "calling", "backoff", "opened"} => got = <<>> /\ buffer = <<>> /\ book = Unread
  /\ stage = "calling" => wire = Sent
  /\ stage = "opened" =>
       /\ Len(taken) \in Nat /\ Len(taken) <= Len(Sent) /\ taken = SubSeq(Sent, 0 + 1, Len(taken))
       /\ wire = SubSeq(Sent, Len(taken) + 1, Len(Sent))
  /\ stage = "forward" =>
       /\ wire = SubSeq(Sent, Len(got) + 1, Len(Sent))
       /\ HasRead(script, ending, ask.shape, Len(got), buffer, book)

IsFiled(status, usage) ==
  /\ filed = <<Receipt(status, usage)>>
  /\ status = "success" /\ learnt = "ended" => got = Sent
  /\ status = "partial" => got # <<>>

FilesOnce ==
  /\ stage # "done" => filed = <<>>
  /\ stage = "done" =>
       filed = <<>> \/ \E status \in {"success", "partial", "error"}, usage \in UsageBlocks : IsFiled(status, usage)

ExchangeInv == ExchangeShape /\ PassesInOrder /\ FilesOnce

LEMMA SentIs ==
  ASSUME ExchangeShape
  PROVE  Sent \in Seq(Bytes) /\ Len(Sent) \in Nat
BY WireIs, LenProperties DEF Sent, ExchangeShape

LEMMA NothingHasRead ==
  ASSUME NEW stream \in Seq(DOMAIN Carries), NEW kind \in {"LF", "CRLF"}, NEW shape
  PROVE  HasRead(stream, kind, shape, 0, <<>>, Unread)
<1> DEFINE W == Wire(stream, kind)
<1>1. 0 % Width(kind) = 0
  BY WireIs
<1>2. SubSeq(W, 1, 0) = <<>>
  BY SubSeqEmpty
<1>3. UsageOf(shape, Unread, <<>>) = Unread
  <2>1. /\ <<>> \in Seq(Symbols) /\ Len(<<>>) = 0
    OBVIOUS
  <2>2. ASSUME NEW f \in DOMAIN Unread PROVE UsageOf(shape, Unread, <<>>)[f] = Unread[f]
    <3>1. Telling(shape, <<>>, f) = {}
      BY DEF Telling
    <3> QED
      BY <3>1, UsageIs
  <2>3. /\ UsageOf(shape, Unread, <<>>) = [f \in DOMAIN Unread |-> UsageOf(shape, Unread, <<>>)[f]]
        /\ Unread = [f \in DOMAIN Unread |-> Unread[f]]
    BY DEF UsageOf, Unread
  <2> QED
    BY <2>2, <2>3
<1>4. /\ <<>> \in Seq(Symbols) /\ 0 - Len(<<>>) = 0
      /\ \A i \in 1 .. Len(<<>>) : FALSE
  <2>1. <<>> \in Seq(Symbols) /\ Len(<<>>) = 0
    OBVIOUS
  <2>2. 0 - 0 = 0 /\ \A i \in 1 .. 0 : FALSE
    OBVIOUS
  <2> QED
    BY <2>1, <2>2
<1> QED
  BY <1>1, <1>2, <1>3, <1>4 DEF HasRead

\* What is filed is the first receipt, of usage that is complete in its kind.
LEMMA ClosesOnce ==
  ASSUME ExchangeInv, NEW status \in {"success", "partial", "error"}, NEW usage \in UsageBlocks, NEW outcome,
         stage # "done", Close(status, usage, outcome),
         ask' = ask, script' = script, ending' = ending, got' = got,
         status = "success" /\ outcome = "ended" => got = Sent,
         status = "partial" => got # <<>>
  PROVE  FilesOnce'
<1>1. filed = <<>> /\ filed' = Append(filed, Receipt(status, usage)) /\ learnt' = outcome /\ stage' = "done"
  BY DEF ExchangeInv, FilesOnce, Close
<1>2. filed' = <<Receipt(status, usage)>>
  BY <1>1
<1>3. Receipt(status, usage)' = Receipt(status, usage)
  BY DEF Receipt
<1>4. Sent' = Sent
  BY DEF Sent
<1>5. IsFiled(status, usage)'
  BY <1>1, <1>2, <1>3, <1>4 DEF IsFiled
<1> QED
  BY <1>1, <1>5 DEF FilesOnce

\* A chunk is the next bytes of what was sent.
LEMMA ForwardsOn ==
  ASSUME ExchangeShape, got \in Seq(Bytes), got = SubSeq(Sent, 1, Len(got)),
         NEW h \in Nat, Len(got) <= h, h <= Len(Sent),
         HasRead(script, ending, ask.shape, Len(got), buffer, book),
         Forwards(SubSeq(Sent, Len(got) + 1, h)), ask' = ask, script' = script, ending' = ending
  PROVE  /\ got' \in Seq(Bytes) /\ Len(got') = h /\ got' = SubSeq(Sent, 1, h)
         /\ HasRead(script, ending, ask.shape, h, buffer', book')
<1> DEFINE g == Len(got)
           chunk == SubSeq(Sent, g + 1, h)
           fed == Split(buffer \o Normalised(chunk))
<1>1. /\ buffer' = fed.rest /\ book' = UsageOf(ask.shape, book, fed.complete) /\ got' = got \o chunk
  BY DEF Forwards, Feeds
<1>2. g \in Nat /\ Sent \in Seq(Bytes) /\ Len(Sent) \in Nat
  BY SentIs, LenProperties
<1>3. HasRead(script, ending, ask.shape, h, fed.rest, UsageOf(ask.shape, book, fed.complete))
  BY <1>2, ReadsOn DEF ExchangeShape, Sent
<1>4. SubSeq(Sent, 1, g) \o SubSeq(Sent, g + 1, h) = SubSeq(Sent, 1, h)
  <2>1. 1 \in 1 .. Len(Sent) + 1 /\ g \in 1 - 1 .. Len(Sent) /\ h \in g .. Len(Sent)
    BY <1>2
  <2> QED
    BY <1>2, <2>1, ConcatAdjacentSubSeq
<1>5. got' = SubSeq(Sent, 1, h)
  BY <1>1, <1>4
<1>6. SubSeq(Sent, 1, h) \in Seq(Bytes) /\ Len(SubSeq(Sent, 1, h)) = h
  BY <1>2, PrefixIs
<1> QED
  BY <1>1, <1>3, <1>5, <1>6

LEMMA PiecesOfRest ==
  ASSUME NEW S, NEW w \in Seq(S), NEW g \in Nat, g <= Len(w), NEW k \in 0 .. Len(SubSeq(w, g + 1, Len(w)))
  PROVE  LET rest == SubSeq(w, g + 1, Len(w))
         IN  /\ g + k <= Len(w)
             /\ SubSeq(rest, 1, k) = SubSeq(w, g + 1, g + k)
             /\ SubSeq(rest, k + 1, Len(rest)) = SubSeq(w, g + k + 1, Len(w))
             /\ Len(SubSeq(rest, 1, k)) = k
<1> DEFINE rest == SubSeq(w, g + 1, Len(w))
           a == SubSeq(rest, 1, k)
           b == SubSeq(w, g + 1, g + k)
           c == SubSeq(rest, k + 1, Len(rest))
           d == SubSeq(w, g + k + 1, Len(w))
<1>1. Len(w) \in Nat
  BY LenProperties
<1>2. /\ rest \in Seq(S) /\ Len(rest) = Len(w) - g
      /\ \A i \in 1 .. Len(w) - g : rest[i] = w[g + i]
  BY <1>1, PieceIs
<1> HIDE DEF rest
<1>3. k \in Nat /\ k <= Len(rest) /\ g + k <= Len(w) /\ g + k \in Nat
  BY <1>1, <1>2 DEF rest
<1>4. /\ a \in Seq(S) /\ Len(a) = k /\ \A i \in 1 .. k : a[i] = rest[i]
  BY <1>2, <1>3, PrefixIs
<1>5. /\ b \in Seq(S) /\ Len(b) = k /\ \A i \in 1 .. k : b[i] = w[g + i]
  <2>1. (g + k) - g = k /\ g <= g + k
    BY <1>3
  <2>2. /\ b \in Seq(S) /\ Len(b) = (g + k) - g /\ \A i \in 1 .. (g + k) - g : b[i] = w[g + i]
    BY <1>3, <2>1, PieceIs
  <2> QED
    BY <2>1, <2>2
<1>6. /\ c \in Seq(S) /\ Len(c) = Len(rest) - k /\ \A i \in 1 .. Len(rest) - k : c[i] = rest[k + i]
  <2> DEFINE n == Len(rest)
  <2>1. n \in Nat /\ k <= n /\ n <= Len(rest)
    BY <1>1, <1>2, <1>3
  <2> HIDE DEF n
  <2>2. /\ SubSeq(rest, k + 1, n) \in Seq(S) /\ Len(SubSeq(rest, k + 1, n)) = n - k
        /\ \A i \in 1 .. n - k : SubSeq(rest, k + 1, n)[i] = rest[k + i]
    BY <1>2, <1>3, <2>1, PieceIs
  <2> QED
    BY <2>2 DEF n
<1>7. /\ d \in Seq(S) /\ Len(d) = Len(w) - (g + k)
      /\ \A i \in 1 .. Len(w) - (g + k) : d[i] = w[(g + k) + i]
  <2> DEFINE e == g + k
             n == Len(w)
  <2>1. e \in Nat /\ n \in Nat /\ e <= n /\ n <= Len(w)
    BY <1>1, <1>3
  <2> HIDE DEF e, n
  <2>2. /\ SubSeq(w, e + 1, n) \in Seq(S) /\ Len(SubSeq(w, e + 1, n)) = n - e
        /\ \A i \in 1 .. n - e : SubSeq(w, e + 1, n)[i] = w[e + i]
    BY <2>1, PieceIs
  <2>3. g + k + 1 = e + 1
    BY DEF e
  <2> QED
    BY <2>2, <2>3 DEF e, n
<1>8. Len(rest) - k = Len(w) - (g + k)
  BY <1>1, <1>2, <1>3
<1> HIDE DEF a, b, c, d
<1>9. a = b
  <2>1. \A i \in 1 .. k : i \in 1 .. Len(w) - g
    BY <1>1, <1>3
  <2>2. \A i \in 1 .. k : a[i] = b[i]
    BY <1>2, <1>4, <1>5, <2>1
  <2> QED
    BY <1>4, <1>5, <2>2, SeqEqual
<1>10. c = d
  <2>1. \A i \in 1 .. Len(d) : k + i \in 1 .. Len(w) - g /\ g + (k + i) = (g + k) + i
    BY <1>1, <1>3, <1>7
  <2>2. \A i \in 1 .. Len(d) : c[i] = d[i]
    <3> TAKE i \in 1 .. Len(d)
    <3>1. c[i] = rest[k + i] /\ d[i] = w[(g + k) + i]
      BY <1>6, <1>7, <1>8
    <3>2. rest[k + i] = w[g + (k + i)]
      BY <1>2, <2>1
    <3> QED
      BY <2>1, <3>1, <3>2
  <2>3. Len(c) = Len(d)
    BY <1>6, <1>7, <1>8
  <2> QED
    BY <1>6, <1>7, <2>2, <2>3, SeqEqual
<1> QED
  BY <1>3, <1>4, <1>9, <1>10 DEF a, b, c, d, rest

LEMMA ExchangeBegins == ExchangeInit => ExchangeInv
<1> SUFFICES ASSUME ExchangeInit PROVE ExchangeInv
  OBVIOUS
<1>1. ExchangeShape
  <2>1. <<>> \in Seq(DOMAIN Carries)
    OBVIOUS
  <2> QED
    BY <2>1 DEF ExchangeInit, ExchangeShape
<1>2. got = <<>> /\ buffer = <<>> /\ book = Unread /\ filed = <<>> /\ stage = "admit"
  BY DEF ExchangeInit
<1>3. got \in Seq(Bytes) /\ Len(got) = 0 /\ SubSeq(Sent, 1, 0) = <<>>
  BY <1>2, SubSeqEmpty
<1> QED
  BY <1>1, <1>2, <1>3, SentIs DEF ExchangeInv, PassesInOrder, FilesOnce

LEMMA TurningAwayKeeps == ExchangeInv /\ TurnAway => ExchangeInv'
<1> SUFFICES ASSUME ExchangeInv, TurnAway PROVE ExchangeInv'
  OBVIOUS
<1>1. /\ stage = "admit" /\ stage' = "done" /\ Close("error", Unread, "error")
      /\ UNCHANGED <<ask, script, ending, wire, taken, buffer, book, got>>
  BY DEF TurnAway, Close
<1>2. FilesOnce'
  BY <1>1, UnreadIs, ClosesOnce
<1>3. ExchangeShape' /\ PassesInOrder'
  BY <1>1 DEF ExchangeInv, ExchangeShape, PassesInOrder, Sent
<1> QED
  BY <1>2, <1>3 DEF ExchangeInv

LEMMA SendingKeeps == ExchangeInv /\ Send => ExchangeInv'
<1> SUFFICES ASSUME ExchangeInv, Send PROVE ExchangeInv'
  OBVIOUS
<1>1. PICK s \in Scripts[ask.shape], e \in Endings : script' = s /\ ending' = e /\ wire' = Wire(s, e)
  BY DEF Send
<1>2. /\ stage = "admit" /\ stage' = "calling"
      /\ UNCHANGED <<ask, taken, buffer, book, got, filed, learnt>>
  BY DEF Send
<1>3. /\ ask \in Asks /\ got = <<>> /\ buffer = <<>> /\ book = Unread /\ filed = <<>>
  BY <1>2 DEF ExchangeInv, ExchangeShape, PassesInOrder, FilesOnce
<1>4. s \in Seq(DOMAIN Carries) /\ e \in {"LF", "CRLF"}
  BY <1>3, ExchangeAssumption DEF ExchangeAssumption
<1>5. ExchangeShape'
  BY <1>1, <1>2, <1>3, <1>4 DEF ExchangeShape
<1>6. Sent' = Wire(s, e) /\ Len(Sent') \in Nat
  BY <1>1, <1>4, WireIs, LenProperties DEF Sent
<1>7. got' \in Seq(Bytes) /\ Len(got') = 0 /\ SubSeq(Sent', 1, 0) = <<>>
  BY <1>2, <1>3, SubSeqEmpty
<1>8. PassesInOrder' /\ FilesOnce'
  BY <1>1, <1>2, <1>3, <1>6, <1>7 DEF PassesInOrder, FilesOnce
<1> QED
  BY <1>5, <1>8 DEF ExchangeInv

LEMMA FailingKeeps ==
  ASSUME ExchangeInv, NEW f \in CallFailures, Fail(f)
  PROVE  ExchangeInv'
<1>1. /\ stage = "calling"
      /\ \/ stage' = "backoff" /\ UNCHANGED <<filed, learnt>>
         \/ Close("error", Unread, "error") /\ stage' = "done"
      /\ UNCHANGED <<ask, script, ending, wire, taken, buffer, book, got>>
  BY DEF Fail, Close
<1>2. ExchangeShape' /\ PassesInOrder'
  BY <1>1 DEF ExchangeInv, ExchangeShape, PassesInOrder, Sent
<1>3. CASE stage' = "backoff" /\ UNCHANGED <<filed, learnt>>
  BY <1>1, <1>2, <1>3 DEF ExchangeInv, FilesOnce
<1>4. CASE Close("error", Unread, "error")
  <2>1. FilesOnce'
    BY <1>1, <1>4, UnreadIs, ClosesOnce
  <2> QED
    BY <1>2, <2>1 DEF ExchangeInv
<1> QED
  BY <1>1, <1>3, <1>4

LEMMA BackingOffKeeps == ExchangeInv /\ BackOff => ExchangeInv'
<1> SUFFICES ASSUME ExchangeInv, BackOff PROVE ExchangeInv'
  OBVIOUS
<1>1. /\ stage = "backoff" /\ stage' = "admit"
      /\ UNCHANGED <<ask, script, ending, wire, taken, buffer, book, got, filed, learnt>>
  BY DEF BackOff
<1> QED
  BY <1>1 DEF ExchangeInv, ExchangeShape, PassesInOrder, FilesOnce, Sent

LEMMA AnsweringKeeps == ExchangeInv /\ Answer => ExchangeInv'
<1> SUFFICES ASSUME ExchangeInv, Answer PROVE ExchangeInv'
  OBVIOUS
<1> DEFINE usage == UsageOf(ask.shape, Unread, script)
<1>1. /\ stage = "calling" /\ stage' = "done" /\ Close("success", usage, "response")
      /\ UNCHANGED <<ask, script, ending, wire, taken, buffer, book, got>>
  BY DEF Answer, Close
<1>2. script \in Seq(DOMAIN Carries)
  BY DEF ExchangeInv, ExchangeShape
<1>3. script \in Seq(Symbols)
  BY <1>2, SeqMonotonic DEF Symbols, Bytes
<1>4. usage \in UsageBlocks
  BY <1>3, UnreadIs, UsageTyped
<1> HIDE DEF usage
<1>5. FilesOnce'
  BY <1>1, <1>4, ClosesOnce
<1>6. ExchangeShape' /\ PassesInOrder'
  BY <1>1 DEF ExchangeInv, ExchangeShape, PassesInOrder, Sent
<1> QED
  BY <1>5, <1>6 DEF ExchangeInv

LEMMA OpeningKeeps == ExchangeInv /\ Open => ExchangeInv'
<1> SUFFICES ASSUME ExchangeInv, Open PROVE ExchangeInv'
  OBVIOUS
<1>1. PICK k \in 0 .. Len(wire) :
        taken' = SubSeq(wire, 1, k) /\ wire' = SubSeq(wire, k + 1, Len(wire))
  BY DEF Open
<1>2. /\ stage = "calling" /\ stage' = "opened"
      /\ UNCHANGED <<ask, script, ending, buffer, book, got, filed, learnt>>
  BY DEF Open
<1>3. ExchangeShape' /\ FilesOnce' /\ Sent' = Sent
  BY <1>2 DEF ExchangeInv, ExchangeShape, FilesOnce, Sent
<1>4. wire = Sent /\ Sent \in Seq(Bytes) /\ Len(Sent) \in Nat
  BY <1>2, SentIs DEF ExchangeInv, PassesInOrder
<1>5. taken' = SubSeq(Sent, 1, k) /\ Len(taken') = k /\ k \in Nat /\ k <= Len(Sent)
  BY <1>1, <1>4, PrefixIs
<1>6. /\ Len(taken') \in Nat /\ Len(taken') <= Len(Sent) /\ taken' = SubSeq(Sent, 0 + 1, Len(taken'))
      /\ wire' = SubSeq(Sent, Len(taken') + 1, Len(Sent))
  BY <1>1, <1>4, <1>5
<1>7. PassesInOrder'
  BY <1>2, <1>3, <1>6 DEF ExchangeInv, PassesInOrder
<1> QED
  BY <1>3, <1>7 DEF ExchangeInv

LEMMA StartingKeeps == ExchangeInv /\ Start => ExchangeInv'
<1> SUFFICES ASSUME ExchangeInv, Start PROVE ExchangeInv'
  OBVIOUS
<1>1. /\ stage = "opened" /\ stage' = "forward" /\ Forwards(taken)
      /\ UNCHANGED <<ask, script, ending, wire, filed, learnt>>
  BY DEF Start
<1>2. ExchangeShape' /\ FilesOnce' /\ Sent' = Sent
  BY <1>1 DEF ExchangeInv, ExchangeShape, FilesOnce, Sent
<1> DEFINE h == Len(taken)
<1>3. /\ got = <<>> /\ buffer = <<>> /\ book = Unread /\ got \in Seq(Bytes) /\ got = SubSeq(Sent, 1, Len(got))
      /\ h \in Nat /\ h <= Len(Sent) /\ taken = SubSeq(Sent, 0 + 1, h)
      /\ wire = SubSeq(Sent, h + 1, Len(Sent))
  BY <1>1 DEF ExchangeInv, PassesInOrder
<1> HIDE DEF h
<1>4. Len(got) = 0
  BY <1>3
<1>5. HasRead(script, ending, ask.shape, Len(got), buffer, book)
  BY <1>3, <1>4, NothingHasRead DEF ExchangeInv, ExchangeShape
<1>6. Forwards(SubSeq(Sent, Len(got) + 1, h)) /\ Len(got) <= h
  BY <1>1, <1>3, <1>4
<1>7. /\ got' \in Seq(Bytes) /\ Len(got') = h /\ got' = SubSeq(Sent, 1, h)
      /\ HasRead(script, ending, ask.shape, h, buffer', book')
  BY <1>1, <1>3, <1>5, <1>6, ForwardsOn DEF ExchangeInv
<1>8. PassesInOrder'
  BY <1>1, <1>2, <1>3, <1>7 DEF PassesInOrder
<1> QED
  BY <1>2, <1>8 DEF ExchangeInv

LEMMA ForwardingKeeps == ExchangeInv /\ Forward => ExchangeInv'
<1> SUFFICES ASSUME ExchangeInv, Forward PROVE ExchangeInv'
  OBVIOUS
<1>1. PICK k \in 1 .. Len(wire) :
        Forwards(SubSeq(wire, 1, k)) /\ wire' = SubSeq(wire, k + 1, Len(wire))
  BY DEF Forward
<1>2. /\ stage = "forward" /\ stage' = "forward"
      /\ UNCHANGED <<ask, script, ending, taken, filed, learnt>>
  BY DEF Forward
<1>3. ExchangeShape' /\ FilesOnce' /\ Sent' = Sent
  BY <1>2 DEF ExchangeInv, ExchangeShape, FilesOnce, Sent
<1> DEFINE g == Len(got)
           h == g + k
<1>4. /\ got \in Seq(Bytes) /\ g <= Len(Sent) /\ got = SubSeq(Sent, 1, g) /\ g \in Nat
      /\ wire = SubSeq(Sent, g + 1, Len(Sent))
      /\ HasRead(script, ending, ask.shape, g, buffer, book)
  BY <1>2, LenProperties DEF ExchangeInv, PassesInOrder
<1>5. Sent \in Seq(Bytes) /\ k \in 0 .. Len(wire) /\ k \in Nat
  BY SentIs DEF ExchangeInv
<1>6. /\ h <= Len(Sent) /\ SubSeq(wire, 1, k) = SubSeq(Sent, g + 1, h)
      /\ wire' = SubSeq(Sent, h + 1, Len(Sent))
  BY <1>1, <1>4, <1>5, PiecesOfRest
<1>7. h \in Nat /\ g <= h
  BY <1>4, <1>5
<1> HIDE DEF h
<1>8. /\ got' \in Seq(Bytes) /\ Len(got') = h /\ got' = SubSeq(Sent, 1, h)
      /\ HasRead(script, ending, ask.shape, h, buffer', book')
  BY <1>1, <1>2, <1>4, <1>6, <1>7, ForwardsOn DEF ExchangeInv
<1>9. PassesInOrder'
  BY <1>2, <1>3, <1>6, <1>8 DEF PassesInOrder
<1> QED
  BY <1>3, <1>9 DEF ExchangeInv

\* However a stream ends, the usage it files is what was read by then.
LEMMA BookIsUsage ==
  ASSUME ExchangeInv, stage = "forward"
  PROVE  /\ book \in UsageBlocks
         /\ \E n \in 0 .. Len(ArrivedWhole) :
              /\ book = UsageOf(ask.shape, Unread, SubSeq(ArrivedWhole, 1, n))
              /\ ending = "LF" => n = Len(ArrivedWhole)
<1>1. /\ script \in Seq(DOMAIN Carries) /\ ending \in {"LF", "CRLF"}
      /\ HasRead(script, ending, ask.shape, Len(got), buffer, book)
      /\ Len(got) \in 0 .. Len(Wire(script, ending))
  BY SentIs, LenProperties DEF ExchangeInv, ExchangeShape, PassesInOrder, Sent
<1>2. IsOfEvents(ArrivedWhole, ending, ask.shape, book)
  BY <1>1, ReadIsArrived DEF ArrivedWhole
<1> QED
  BY <1>2 DEF IsOfEvents

LEMMA EndingKeeps == ExchangeInv /\ (End \/ Break \/ Leave) => ExchangeInv'
<1> SUFFICES ASSUME ExchangeInv, End \/ Break \/ Leave PROVE ExchangeInv'
  OBVIOUS
<1>1. PICK status \in {"success", "partial", "error"}, outcome \in {"ended", "left"} :
        /\ Close(status, book, outcome)
        /\ status = "success" => wire = <<>>
        /\ status = "partial" => got # <<>>
  BY DEF End, Break, Leave, Interrupted
<1>2. /\ stage = "forward" /\ stage' = "done"
      /\ UNCHANGED <<ask, script, ending, wire, taken, buffer, book, got>>
  BY DEF End, Break, Leave, Close
<1>3. status = "success" => got = Sent
  <2> SUFFICES ASSUME wire = <<>> PROVE got = Sent
    BY <1>1
  <2> DEFINE g == Len(got)
             n == Len(Sent)
  <2>1. /\ got = SubSeq(Sent, 1, g) /\ g <= n /\ g \in Nat
        /\ wire = SubSeq(Sent, g + 1, n) /\ Sent \in Seq(Bytes) /\ n \in Nat
    BY <1>2, SentIs, LenProperties DEF ExchangeInv, PassesInOrder
  <2>2. Len(wire) = n - g
    <3>1. n <= Len(Sent)
      BY <2>1
    <3> HIDE DEF g, n
    <3>2. Len(SubSeq(Sent, g + 1, n)) = n - g
      BY <2>1, <3>1, PieceIs
    <3> QED
      BY <2>1, <3>2
  <2>3. g = n
    <3> HIDE DEF g, n
    <3>1. Len(wire) = 0
      OBVIOUS
    <3> QED
      BY <2>1, <2>2, <3>1
  <2> QED
    BY <2>1, <2>3, SubSeqFull
<1>4. FilesOnce'
  BY <1>1, <1>2, <1>3, BookIsUsage, ClosesOnce
<1>5. ExchangeShape' /\ PassesInOrder'
  BY <1>2 DEF ExchangeInv, ExchangeShape, PassesInOrder, Sent
<1> QED
  BY <1>4, <1>5 DEF ExchangeInv

LEMMA CancellingKeeps == ExchangeInv /\ Cancel => ExchangeInv'
<1> SUFFICES ASSUME ExchangeInv, Cancel PROVE ExchangeInv'
  OBVIOUS
<1>1. /\ stage \in {"calling", "backoff", "opened", "forward"} /\ stage' = "done"
      /\ UNCHANGED <<ask, script, ending, wire, taken, buffer, book, got>>
      /\ \/ stage = "forward" /\ Close("success", book, "cancelled")
         \/ stage # "forward" /\ learnt' = "cancelled" /\ UNCHANGED filed
  BY DEF Cancel, Close
<1>2. ExchangeShape' /\ PassesInOrder'
  BY <1>1 DEF ExchangeInv, ExchangeShape, PassesInOrder, Sent
<1>3. CASE stage = "forward" /\ Close("success", book, "cancelled")
  <2>1. FilesOnce'
    BY <1>1, <1>3, BookIsUsage, ClosesOnce
  <2> QED
    BY <1>2, <2>1 DEF ExchangeInv
<1>4. CASE stage # "forward" /\ UNCHANGED filed
  BY <1>1, <1>2, <1>4 DEF ExchangeInv, FilesOnce
<1> QED
  BY <1>1, <1>3, <1>4

LEMMA ExchangeGoesOn == ExchangeInv /\ [ExchangeNext]_exchangeVars => ExchangeInv'
<1>1. ASSUME ExchangeInv, UNCHANGED exchangeVars PROVE ExchangeInv'
  <2>1. UNCHANGED <<ask, stage, script, ending, wire, taken, buffer, book, got, filed, learnt>>
    BY <1>1 DEF exchangeVars
  <2>2. ExchangeShape' /\ PassesInOrder'
    BY <1>1, <2>1 DEF ExchangeInv, ExchangeShape, PassesInOrder, Sent
  <2>3. \A status, usage : Receipt(status, usage)' = Receipt(status, usage)
    BY <2>1 DEF Receipt
  <2>4. FilesOnce'
    BY <1>1, <2>1, <2>3 DEF ExchangeInv, FilesOnce, IsFiled, Sent
  <2> QED
    BY <2>2, <2>4 DEF ExchangeInv
<1> QED
  BY <1>1, TurningAwayKeeps, SendingKeeps, FailingKeeps, BackingOffKeeps, AnsweringKeeps, OpeningKeeps,
     StartingKeeps, ForwardingKeeps, EndingKeeps, CancellingKeeps DEF ExchangeNext

LEMMA ReceiptIs ==
  ASSUME ExchangeInv, NEW i \in DOMAIN filed
  PROVE  \E status \in {"success", "partial", "error"}, usage \in UsageBlocks :
           /\ IsFiled(status, usage) /\ filed[i] = Receipt(status, usage)
           /\ filed[i].status = status /\ filed[i].usage = usage
<1>1. PICK status \in {"success", "partial", "error"}, usage \in UsageBlocks : IsFiled(status, usage)
  BY DEF ExchangeInv, FilesOnce
<1>2. filed[i] = Receipt(status, usage)
  BY <1>1 DEF IsFiled
<1>3. Receipt(status, usage).status = status /\ Receipt(status, usage).usage = usage
  BY DEF Receipt
<1> QED
  BY <1>1, <1>2, <1>3

LEMMA RecordsAreOfWhatArrived == ExchangeInv => UsageIsOfWhatArrived
<1> SUFFICES ASSUME ExchangeInv PROVE UsageIsOfWhatArrived
  OBVIOUS
<1>1. IsPrefix(got, Wire(script, ending))
  <2>1. got \in Seq(Bytes) /\ Len(got) <= Len(Sent) /\ got = SubSeq(Sent, 1, Len(got))
    BY DEF ExchangeInv, PassesInOrder
  <2>2. SubSeq(got, 1, Len(got)) = got
    BY <2>1, SubSeqFull
  <2> QED
    BY <2>1, <2>2 DEF IsPrefix, Sent
<1>2. ASSUME NEW i \in DOMAIN filed
      PROVE  /\ filed[i].status = "success" /\ learnt = "ended" => got = Wire(script, ending)
             /\ filed[i].status = "partial" => got # <<>>
  BY ReceiptIs DEF IsFiled, Sent
<1> QED
  BY <1>1, <1>2, BookIsUsage DEF UsageIsOfWhatArrived

LEMMA ReceiptsAreCovered == PricesAreOrdered /\ ExchangeInv => ReservationCovers
<1> SUFFICES ASSUME PricesAreOrdered, ExchangeInv, NEW i \in DOMAIN filed,
                    filed[i].cost # Unknown,
                    TotalInput(ask.shape, filed[i].usage) * 3 <= ask.chars + 2,
                    filed[i].usage.output <= ask.maxOut,
                    filed[i].usage.cache.written = 0
             PROVE  filed[i].cost <= EstimateUpperBound(Resolve(ask.provider), ask)
  BY DEF ReservationCovers
<1>1. PICK status \in {"success", "partial", "error"}, usage \in UsageBlocks :
        filed[i] = Receipt(status, usage) /\ filed[i].usage = usage
  BY ReceiptIs
<1>2. ask \in Asks
  BY DEF ExchangeInv, ExchangeShape
<1> QED
  BY <1>1, <1>2, ReceiptIsCovered

(***************************************************************************)
(* However a stream is cut and wherever it stops, what the client was      *)
(* handed is of one answer, in its order, and the usage on its receipt is  *)
(* that of the whole events in it (_SseBookkeeper, _AnthropicSseBookkeeper *)
(* and the streams of both engines).                                       *)
(***************************************************************************)
THEOREM UsageStaysOfWhatArrived == ExchangeSpec => []UsageIsOfWhatArrived
BY RecordsAreOfWhatArrived, ExchangeBegins, ExchangeGoesOn, PTL DEF ExchangeSpec

(***************************************************************************)
(* Its reservation covers it as well, when the operator's prices are in    *)
(* the order that list prices have: nothing checks that of a price the     *)
(* operator gives (estimate_upper_bound_usd, PriceEntry).                  *)
(***************************************************************************)
THEOREM CallsStayMetered == PricesAreOrdered /\ ExchangeSpec => []CallIsMetered
<1>1. PricesAreOrdered /\ ExchangeInv => CallIsMetered
  BY RecordsAreOfWhatArrived, ReceiptsAreCovered DEF CallIsMetered
<1>2. PricesAreOrdered => PricesAreOrdered'
  BY DEF PricesAreOrdered, PriceIsOrdered
<1> QED
  BY <1>1, <1>2, ExchangeBegins, ExchangeGoesOn, PTL DEF ExchangeSpec

-----------------------------------------------------------------------------
(***************************************************************************)
(* The readers of the receipts: a query.  The rows it keeps are listed by  *)
(* their places, which are numbered without a gap.                         *)
(***************************************************************************)
Earlier(R, T, i, j) == \/ T[R[i]] < T[R[j]]
                       \/ T[R[i]] = T[R[j]] /\ i < j

PlaceIn(R, T, i, at) == 1 + Cardinality({j \in at : Earlier(R, T, j, i)})

Kept(R, kept) == {i \in DOMAIN R : R[i] \in kept}

RowAt(R, T, at, k) == CHOOSE i \in at : PlaceIn(R, T, i, at) = k

Listing(R, T, kept) ==
  [k \in 1 .. Cardinality(Kept(R, kept)) |-> R[RowAt(R, T, Kept(R, kept), k)]]

LEMMA OrderedIsListing == \A kept : Ordered(kept) = Listing(rows, stamp, kept)
BY DEF Ordered, Listing, RowAt, Kept, PlaceIn, Place, Earlier, ComesBefore

LEMMA KeptIs ==
  ASSUME NEW R \in Seq(AllReceipts), NEW kept
  PROVE  /\ Kept(R, kept) \in SUBSET (1 .. Len(R)) /\ IsFiniteSet(Kept(R, kept))
         /\ Cardinality(Kept(R, kept)) \in Nat
         /\ \A i \in Kept(R, kept) : i \in 1 .. Len(R) /\ R[i] \in AllReceipts
<1>1. Len(R) \in Nat /\ DOMAIN R = 1 .. Len(R) /\ \A i \in 1 .. Len(R) : R[i] \in AllReceipts
  BY LenProperties
<1>2. Kept(R, kept) \in SUBSET (1 .. Len(R))
  BY <1>1 DEF Kept
<1>3. IsFiniteSet(1 .. Len(R))
  BY <1>1, FS_Interval
<1>4. IsFiniteSet(Kept(R, kept))
  BY <1>2, <1>3, FS_Subset
<1> QED
  BY <1>1, <1>2, <1>4, FS_CardinalityType

\* Of two rows one is earlier, and it has the lower place.
LEMMA PlacesOrder ==
  ASSUME NEW R \in Seq(AllReceipts), NEW T \in [AllReceipts -> Nat], NEW at \in SUBSET (1 .. Len(R)),
         NEW i \in at, NEW j \in at, Earlier(R, T, i, j)
  PROVE  PlaceIn(R, T, i, at) < PlaceIn(R, T, j, at)
<1> DEFINE B(m) == {l \in at : Earlier(R, T, l, m)}
<1>1. Len(R) \in Nat /\ \A m \in at : m \in Nat /\ T[R[m]] \in Nat
  BY LenProperties
<1>2. IsFiniteSet(at)
  <2>1. IsFiniteSet(1 .. Len(R))
    BY <1>1, FS_Interval
  <2> QED
    BY <2>1, FS_Subset
<1>3. IsFiniteSet(B(i)) /\ IsFiniteSet(B(j))
  BY <1>2, FS_Subset
<1>4. B(i) \in SUBSET B(j) /\ i \in B(j) /\ i \notin B(i)
  <2>1. ASSUME NEW l \in at, Earlier(R, T, l, i) PROVE Earlier(R, T, l, j)
    BY <1>1, <2>1 DEF Earlier
  <2>2. ~Earlier(R, T, i, i)
    BY <1>1 DEF Earlier
  <2> QED
    BY <2>1, <2>2
<1>5. Cardinality(B(i)) \in Nat /\ Cardinality(B(j)) \in Nat
  BY <1>3, FS_CardinalityType
<1>6. Cardinality(B(i)) <= Cardinality(B(j)) /\ Cardinality(B(i)) # Cardinality(B(j))
  BY <1>3, <1>4, FS_Subset
<1> QED
  BY <1>5, <1>6 DEF PlaceIn

LEMMA PlacesAre ==
  ASSUME NEW R \in Seq(AllReceipts), NEW T \in [AllReceipts -> Nat], NEW at \in SUBSET (1 .. Len(R))
  PROVE  /\ \A i \in at : PlaceIn(R, T, i, at) \in 1 .. Cardinality(at)
         /\ \A i, j \in at : PlaceIn(R, T, i, at) = PlaceIn(R, T, j, at) => i = j
         /\ \A k \in 1 .. Cardinality(at) : \E i \in at : PlaceIn(R, T, i, at) = k
<1> DEFINE n == Cardinality(at)
           place == [i \in at |-> PlaceIn(R, T, i, at)]
<1>1. Len(R) \in Nat /\ \A m \in at : m \in Nat /\ T[R[m]] \in Nat
  BY LenProperties
<1>2. IsFiniteSet(at) /\ n \in Nat
  <2>1. IsFiniteSet(1 .. Len(R))
    BY <1>1, FS_Interval
  <2> QED
    BY <2>1, FS_Subset, FS_CardinalityType
<1>3. ASSUME NEW i \in at PROVE PlaceIn(R, T, i, at) \in 1 .. n
  <2> DEFINE B == {l \in at : Earlier(R, T, l, i)}
  <2>1. B \in SUBSET (at \ {i})
    BY <1>1 DEF Earlier
  <2>2. IsFiniteSet(at \ {i}) /\ Cardinality(at \ {i}) = n - 1
    BY <1>2, FS_RemoveElement
  <2>3. IsFiniteSet(B) /\ Cardinality(B) <= n - 1
    BY <2>1, <2>2, FS_Subset
  <2>4. Cardinality(B) \in Nat
    BY <2>3, FS_CardinalityType
  <2>5. PlaceIn(R, T, i, at) = 1 + Cardinality(B)
    BY DEF PlaceIn
  <2> HIDE DEF B, n
  <2> QED
    BY <1>2, <2>3, <2>4, <2>5
<1>4. ASSUME NEW i \in at, NEW j \in at, PlaceIn(R, T, i, at) = PlaceIn(R, T, j, at) PROVE i = j
  <2>1. PlaceIn(R, T, i, at) \in Nat /\ PlaceIn(R, T, j, at) \in Nat
    BY <1>2, <1>3
  <2>2. ~Earlier(R, T, i, j) /\ ~Earlier(R, T, j, i)
    BY <1>4, <2>1, PlacesOrder
  <2> QED
    BY <1>1, <2>2 DEF Earlier
<1> HIDE DEF n
<1>5. place \in [at -> 1 .. n] /\ DOMAIN place = at /\ \A i, j \in at : place[i] = place[j] => i = j
  BY <1>3, <1>4
<1> HIDE DEF place
<1>6. place \in Injection(at, 1 .. n)
  BY <1>5 DEF Injection, IsInjective
<1>7. IsFiniteSet(1 .. n) /\ Cardinality(1 .. n) = n
  <2>1. IsFiniteSet(1 .. n) /\ Cardinality(1 .. n) = IF 1 > n THEN 0 ELSE n - 1 + 1
    BY <1>2, FS_Interval
  <2> QED
    BY <1>2, <2>1
<1>8. place \in Surjection(at, 1 .. n)
  BY <1>6, <1>7, FS_Injection DEF n
<1>9. \A k \in 1 .. n : \E i \in at : place[i] = k
  BY <1>8 DEF Surjection
<1>10. \A k \in 1 .. n : \E i \in at : PlaceIn(R, T, i, at) = k
  BY <1>9 DEF place
<1> QED
  BY <1>3, <1>4, <1>10 DEF n

LEMMA RowAtIs ==
  ASSUME NEW R \in Seq(AllReceipts), NEW T \in [AllReceipts -> Nat], NEW at \in SUBSET (1 .. Len(R))
  PROVE  /\ \A k \in 1 .. Cardinality(at) : RowAt(R, T, at, k) \in at /\ PlaceIn(R, T, RowAt(R, T, at, k), at) = k
         /\ \A i \in at : PlaceIn(R, T, i, at) \in 1 .. Cardinality(at) /\ RowAt(R, T, at, PlaceIn(R, T, i, at)) = i
<1>1. ASSUME NEW k \in 1 .. Cardinality(at)
      PROVE  RowAt(R, T, at, k) \in at /\ PlaceIn(R, T, RowAt(R, T, at, k), at) = k
  <2>1. \E i \in at : PlaceIn(R, T, i, at) = k
    BY PlacesAre
  <2> QED
    BY <2>1 DEF RowAt
<1>2. ASSUME NEW i \in at
      PROVE  PlaceIn(R, T, i, at) \in 1 .. Cardinality(at) /\ RowAt(R, T, at, PlaceIn(R, T, i, at)) = i
  <2>1. PlaceIn(R, T, i, at) \in 1 .. Cardinality(at)
    BY PlacesAre
  <2>2. /\ RowAt(R, T, at, PlaceIn(R, T, i, at)) \in at
        /\ PlaceIn(R, T, RowAt(R, T, at, PlaceIn(R, T, i, at)), at) = PlaceIn(R, T, i, at)
    BY <1>1, <2>1
  <2>3. \A l, m \in at : PlaceIn(R, T, l, at) = PlaceIn(R, T, m, at) => l = m
    BY PlacesAre
  <2> QED
    BY <2>1, <2>2, <2>3
<1> QED
  BY <1>1, <1>2

Distinct(s) == \A i, j \in DOMAIN s : s[i] = s[j] => i = j

InOrder(s, T) == \A i, j \in DOMAIN s : i < j => T[s[i]] <= T[s[j]]

\* A listing has every row that is kept, once each, in the order of the stamps.
LEMMA ListingIs ==
  ASSUME NEW R \in Seq(AllReceipts), NEW T \in [AllReceipts -> Nat], NEW kept
  PROVE  LET q == Listing(R, T, kept)
         IN  /\ q \in Seq(AllReceipts) /\ Len(q) = Cardinality(Kept(R, kept))
             /\ ToSet(q) = ToSet(R) \cap kept
             /\ InOrder(q, T)
             /\ Distinct(R) => Distinct(q)
<1> DEFINE q == Listing(R, T, kept)
           at == Kept(R, kept)
           n == Cardinality(at)
           row(k) == RowAt(R, T, at, k)
<1>1. /\ at \in SUBSET (1 .. Len(R)) /\ n \in Nat
      /\ \A i \in at : i \in 1 .. Len(R) /\ R[i] \in AllReceipts /\ i \in DOMAIN R /\ R[i] \in kept
      /\ \A i \in DOMAIN R : R[i] \in kept => i \in at
  <2>1. \A i \in at : i \in DOMAIN R /\ R[i] \in kept
    BY DEF Kept
  <2>2. \A i \in DOMAIN R : R[i] \in kept => i \in at
    BY DEF Kept
  <2> QED
    BY <2>1, <2>2, KeptIs
<1>2. /\ \A k \in 1 .. n : row(k) \in at /\ PlaceIn(R, T, row(k), at) = k
      /\ \A i \in at : PlaceIn(R, T, i, at) \in 1 .. n /\ row(PlaceIn(R, T, i, at)) = i
  BY <1>1, RowAtIs
<1>3. q = [k \in 1 .. n |-> R[row(k)]]
  BY DEF Listing
<1> HIDE DEF at, n, row, q
<1>4. q \in Seq(AllReceipts) /\ Len(q) = n /\ DOMAIN q = 1 .. n /\ \A k \in 1 .. n : q[k] = R[row(k)]
  <2>1. \A k \in 1 .. n : R[row(k)] \in AllReceipts
    BY <1>1, <1>2
  <2>2. q \in [1 .. n -> AllReceipts] /\ DOMAIN q = 1 .. n /\ \A k \in 1 .. n : q[k] = R[row(k)]
    BY <1>3, <2>1
  <2> QED
    BY <1>1, <2>2
<1>5. ToSet(q) = ToSet(R) \cap kept
  <2>1. \A k \in 1 .. n : q[k] \in kept /\ \E i \in DOMAIN R : R[i] = q[k]
    BY <1>1, <1>2, <1>4
  <2>2. \A i \in DOMAIN R : R[i] \in kept => \E k \in 1 .. n : q[k] = R[i]
    BY <1>1, <1>2, <1>4
  <2>3. \A x : x \in ToSet(q) <=> \E k \in 1 .. n : q[k] = x
    BY <1>4 DEF ToSet
  <2>4. \A x : x \in ToSet(R) <=> \E i \in DOMAIN R : R[i] = x
    BY DEF ToSet
  <2>5. ASSUME NEW x \in ToSet(q) PROVE x \in ToSet(R) /\ x \in kept
    BY <2>1, <2>3, <2>4
  <2>6. ASSUME NEW x \in ToSet(R), x \in kept PROVE x \in ToSet(q)
    BY <2>2, <2>3, <2>4, <2>6
  <2> QED
    BY <2>5, <2>6
<1>6. InOrder(q, T)
  <2> SUFFICES ASSUME NEW k \in 1 .. n, NEW l \in 1 .. n, k < l PROVE T[q[k]] <= T[q[l]]
    BY <1>4 DEF InOrder
  <2>1. ~Earlier(R, T, row(l), row(k))
    <3> SUFFICES ASSUME Earlier(R, T, row(l), row(k)) PROVE FALSE
      OBVIOUS
    <3>1. PlaceIn(R, T, row(l), at) < PlaceIn(R, T, row(k), at)
      BY <1>1, <1>2, PlacesOrder
    <3>2. PlaceIn(R, T, row(l), at) = l /\ PlaceIn(R, T, row(k), at) = k /\ k \in Nat /\ l \in Nat
      BY <1>1, <1>2
    <3> QED
      BY <3>1, <3>2
  <2>2. T[R[row(k)]] \in Nat /\ T[R[row(l)]] \in Nat
    BY <1>1, <1>2
  <2> QED
    BY <1>4, <2>1, <2>2 DEF Earlier
<1>7. ASSUME Distinct(R) PROVE Distinct(q)
  <2> SUFFICES ASSUME NEW k \in 1 .. n, NEW l \in 1 .. n, q[k] = q[l] PROVE k = l
    BY <1>4 DEF Distinct
  <2>1. row(k) = row(l)
    BY <1>1, <1>2, <1>4, <1>7 DEF Distinct
  <2> QED
    BY <1>2, <2>1
<1> QED
  BY <1>4, <1>5, <1>6, <1>7 DEF q, n, at

\* A listing knows only the stamps of the rows.
LEMMA ListingReadsItsRows ==
  ASSUME NEW R \in Seq(AllReceipts), NEW T \in [AllReceipts -> Nat], NEW U \in [AllReceipts -> Nat], NEW kept,
         \A r \in ToSet(R) : U[r] = T[r]
  PROVE  Listing(R, U, kept) = Listing(R, T, kept)
<1> DEFINE at == Kept(R, kept)
           n == Cardinality(at)
<1>1. /\ at \in SUBSET (1 .. Len(R)) /\ n \in Nat
      /\ \A i \in at : i \in DOMAIN R
  BY KeptIs DEF Kept
<1>2. \A i \in at : U[R[i]] = T[R[i]]
  BY <1>1 DEF ToSet
<1>3. ASSUME NEW i \in at PROVE PlaceIn(R, U, i, at) = PlaceIn(R, T, i, at)
  <2>1. \A j \in at : Earlier(R, U, j, i) <=> Earlier(R, T, j, i)
    BY <1>2 DEF Earlier
  <2>2. {j \in at : Earlier(R, U, j, i)} = {j \in at : Earlier(R, T, j, i)}
    BY <2>1
  <2>3. PlaceIn(R, U, i, at) = 1 + Cardinality({j \in at : Earlier(R, U, j, i)})
    BY DEF PlaceIn
  <2>4. PlaceIn(R, T, i, at) = 1 + Cardinality({j \in at : Earlier(R, T, j, i)})
    BY DEF PlaceIn
  <2> QED
    BY <2>2, <2>3, <2>4
<1>4. ASSUME NEW k \in 1 .. n PROVE RowAt(R, U, at, k) = RowAt(R, T, at, k)
  <2>1. RowAt(R, U, at, k) \in at /\ PlaceIn(R, U, RowAt(R, U, at, k), at) = k
    BY <1>1, RowAtIs
  <2>2. PlaceIn(R, T, RowAt(R, U, at, k), at) = k
    BY <1>3, <2>1
  <2>3. \A i \in at : PlaceIn(R, T, i, at) \in 1 .. Cardinality(at) /\ RowAt(R, T, at, PlaceIn(R, T, i, at)) = i
    BY <1>1, RowAtIs
  <2> QED
    BY <2>1, <2>2, <2>3
<1> QED
  BY <1>4 DEF Listing

\* A row that no other row comes after is the last of the listing.
LEMMA ListingGrows ==
  ASSUME NEW R \in Seq(AllReceipts), NEW T \in [AllReceipts -> Nat], NEW r \in AllReceipts,
         \A s \in ToSet(R) : T[s] <= T[r]
  PROVE  Listing(Append(R, r), T, AllReceipts) = Append(Listing(R, T, AllReceipts), r)
<1> DEFINE A == Append(R, r)
           m == Len(R) + 1
           at == Kept(R, AllReceipts)
           n == Cardinality(at)
           more == Kept(A, AllReceipts)
           q == Listing(R, T, AllReceipts)
           p == Listing(A, T, AllReceipts)
<1>1. /\ A \in Seq(AllReceipts) /\ Len(A) = m /\ m \in Nat /\ DOMAIN R = 1 .. Len(R) /\ DOMAIN A = 1 .. m
      /\ A[m] = r /\ \A i \in 1 .. Len(R) : A[i] = R[i] /\ R[i] \in AllReceipts /\ T[R[i]] <= T[r]
  <2>1. \A i \in 1 .. Len(R) : R[i] \in AllReceipts /\ R[i] \in ToSet(R)
    BY LenProperties DEF ToSet
  <2> QED
    BY <2>1, AppendProperties, LenProperties
<1>2. at = 1 .. Len(R) /\ more = at \cup {m} /\ m \notin at /\ IsFiniteSet(at) /\ n \in Nat
  <2>1. at = 1 .. Len(R)
    BY <1>1 DEF Kept
  <2>2. more = 1 .. m
    <3>1. \A i \in 1 .. m : A[i] \in AllReceipts
      BY <1>1, LenProperties
    <3> QED
      BY <1>1, <3>1 DEF Kept
  <2> QED
    BY <1>1, <2>1, <2>2, KeptIs, LenProperties
<1>3. Cardinality(more) = n + 1
  BY <1>2, FS_AddElement
<1> HIDE DEF A, m, at, n, more
<1>4. at \in SUBSET (1 .. Len(R)) /\ more \in SUBSET (1 .. Len(A))
  BY <1>1, <1>2, LenProperties DEF m
<1>14. A \in Seq(AllReceipts) /\ more \in SUBSET (1 .. Len(A))
  BY <1>1, <1>4
<1>15. /\ \A k \in 1 .. Cardinality(more) : RowAt(A, T, more, k) \in more /\ PlaceIn(A, T, RowAt(A, T, more, k), more) = k
       /\ \A i \in more : PlaceIn(A, T, i, more) \in 1 .. Cardinality(more) /\ RowAt(A, T, more, PlaceIn(A, T, i, more)) = i
  BY <1>14, RowAtIs
<1>5. ASSUME NEW i \in at PROVE PlaceIn(A, T, i, more) = PlaceIn(R, T, i, at)
  <2>1. i \in 1 .. Len(R) /\ i \in Nat /\ T[R[i]] \in Nat /\ T[r] \in Nat /\ T[R[i]] <= T[r] /\ A[i] = R[i] /\ i < m
    BY <1>1, <1>2, LenProperties DEF m
  <2>2. ~Earlier(A, T, m, i)
    BY <1>1, <2>1 DEF Earlier
  <2>3. \A j \in at : Earlier(A, T, j, i) <=> Earlier(R, T, j, i)
    BY <1>1, <1>2, <2>1 DEF Earlier
  <2>4. {j \in more : Earlier(A, T, j, i)} = {j \in at : Earlier(R, T, j, i)}
    BY <1>2, <2>2, <2>3
  <2> QED
    BY <2>4 DEF PlaceIn
<1>6. PlaceIn(A, T, m, more) = n + 1
  <2>1. ~Earlier(A, T, m, m)
    BY <1>1 DEF Earlier
  <2>2. ASSUME NEW j \in at PROVE Earlier(A, T, j, m)
    <3>1. j \in 1 .. Len(R) /\ j < m /\ T[R[j]] \in Nat /\ T[r] \in Nat /\ T[R[j]] <= T[r] /\ A[j] = R[j]
      BY <1>1, <1>2, LenProperties DEF m
    <3> QED
      BY <1>1, <3>1 DEF Earlier
  <2> DEFINE B == {j \in more : Earlier(A, T, j, m)}
  <2>3. B = at
    BY <1>2, <2>1, <2>2
  <2>4. PlaceIn(A, T, m, more) = 1 + Cardinality(B)
    BY DEF PlaceIn
  <2>5. Cardinality(B) = n
    BY <2>3 DEF n
  <2> HIDE DEF B
  <2> QED
    BY <1>2, <2>4, <2>5
<1>7. ASSUME NEW k \in 1 .. n PROVE RowAt(A, T, more, k) = RowAt(R, T, at, k)
  <2>1. RowAt(R, T, at, k) \in at /\ PlaceIn(R, T, RowAt(R, T, at, k), at) = k
    BY <1>4, RowAtIs DEF n
  <2>2. RowAt(R, T, at, k) \in more /\ PlaceIn(A, T, RowAt(R, T, at, k), more) = k
    BY <1>2, <1>5, <2>1
  <2> QED
    BY <1>15, <2>2
<1>8. RowAt(A, T, more, n + 1) = m
  BY <1>2, <1>6, <1>15
<1>9. q = [k \in 1 .. n |-> R[RowAt(R, T, at, k)]] /\ p = [k \in 1 .. n + 1 |-> A[RowAt(A, T, more, k)]]
  BY <1>3 DEF Listing, at, more, n
<1>10. \A k \in 1 .. n : RowAt(R, T, at, k) \in 1 .. Len(R)
  BY <1>2, <1>4, RowAtIs DEF n
<1>11. p = [k \in 1 .. n + 1 |-> IF k = n + 1 THEN r ELSE q[k]]
  <2>1. ASSUME NEW k \in 1 .. n + 1 PROVE A[RowAt(A, T, more, k)] = IF k = n + 1 THEN r ELSE q[k]
    <3>1. CASE k = n + 1
      BY <1>1, <1>8, <3>1
    <3>2. CASE k # n + 1
      <4>1. k \in 1 .. n
        BY <1>2, <3>2
      <4>2. q[k] = R[RowAt(R, T, at, k)]
        BY <1>9, <4>1
      <4>3. A[RowAt(A, T, more, k)] = R[RowAt(R, T, at, k)]
        BY <1>1, <1>7, <1>10, <4>1
      <4> QED
        BY <3>2, <4>2, <4>3
    <3> QED
      BY <3>1, <3>2
  <2> QED
    BY <1>9, <2>1
<1>12. q \in Seq(AllReceipts) /\ Len(q) = n
  BY ListingIs DEF n, at
<1> HIDE DEF q, p
<1>13. Append(q, r) = [k \in 1 .. n + 1 |-> IF k = n + 1 THEN r ELSE q[k]]
  <2>1. /\ Append(q, r) \in Seq(AllReceipts) /\ Len(Append(q, r)) = n + 1 /\ Append(q, r)[n + 1] = r
        /\ \A k \in 1 .. n : Append(q, r)[k] = q[k]
    BY <1>2, <1>12, AppendProperties
  <2>2. Append(q, r) = [k \in 1 .. n + 1 |-> Append(q, r)[k]]
    BY <2>1, LenProperties
  <2>3. \A k \in 1 .. n + 1 : Append(q, r)[k] = IF k = n + 1 THEN r ELSE q[k]
    BY <1>2, <2>1
  <2> QED
    BY <2>2, <2>3
<1> QED
  BY <1>11, <1>13 DEF p, q, A

\* What is listed without repetition is counted by its length.
LEMMA DistinctCounts ==
  ASSUME NEW s \in Seq(AllReceipts), Distinct(s)
  PROVE  NoRepeats(s)
<1>1. s \in [1 .. Len(s) -> ToSet(s)] /\ DOMAIN s = 1 .. Len(s) /\ Len(s) \in Nat
  <2>1. DOMAIN s = 1 .. Len(s) /\ Len(s) \in Nat
    BY LenProperties
  <2>2. \A i \in 1 .. Len(s) : s[i] \in ToSet(s)
    BY <2>1 DEF ToSet
  <2> QED
    BY <2>1, <2>2
<1>2. s \in Injection(1 .. Len(s), ToSet(s))
  BY <1>1 DEF Injection, IsInjective, Distinct
<1>3. s \in Surjection(1 .. Len(s), ToSet(s))
  BY <1>1 DEF Surjection, ToSet
<1>4. s \in Bijection(1 .. Len(s), ToSet(s))
  BY <1>2, <1>3 DEF Bijection
<1>5. IsFiniteSet(1 .. Len(s)) /\ Cardinality(1 .. Len(s)) = IF 1 > Len(s) THEN 0 ELSE Len(s) - 1 + 1
  BY <1>1, FS_Interval
<1>6. Cardinality(ToSet(s)) = Cardinality(1 .. Len(s))
  BY <1>4, <1>5, FS_Bijection DEF ExistsBijection
<1> QED
  BY <1>1, <1>5, <1>6 DEF NoRepeats

(***************************************************************************)
(* The invariant.  What is stored has been stamped, and once each.         *)
(***************************************************************************)
Tails == [on : BOOLEAN, since : Nat, from : Nat, sent : Seq(AllReceipts), found : Seq(AllReceipts),
          polled : SUBSET AllReceipts]

Pagers == [on : BOOLEAN, offset : Nat, seen : Seq(AllReceipts), began : SUBSET AllReceipts, shifted : BOOLEAN]

BookShape ==
  /\ now \in Nat \ {0} /\ stamp \in [AllReceipts -> Nat]
  /\ rows \in Seq(AllReceipts) /\ Distinct(rows)
  /\ importing \in Seq(ToSet(Exported))
  /\ \A r \in ToSet(rows) \cup ToSet(Exported) : stamp[r] # 0
  /\ tail \in Tails /\ pager \in Pagers

\* The tail has sent and holds what its queries found, in order; its bound is
\* the stamp of a receipt that was there, and whatever was stored under one
\* that it has seen is late.
TailFollows ==
  /\ ~tail.on => tail.sent = <<>> /\ tail.found = <<>> /\ tail.polled = {}
  /\ Distinct(tail.sent) /\ InOrder(tail.sent, stamp)
  /\ Distinct(tail.found) /\ InOrder(tail.found, stamp)
  /\ \A r \in ToSet(tail.sent) : r \notin ToSet(tail.found) /\ stamp[r] <= tail.since
  /\ \A r \in ToSet(tail.sent), s \in ToSet(tail.found) : stamp[r] <= stamp[s]
  /\ ToSet(tail.sent) \subseteq tail.polled /\ ToSet(tail.found) \subseteq tail.polled
  /\ tail.polled \subseteq ToSet(rows)
  /\ tail.since = tail.from \/ \E r \in tail.polled : stamp[r] = tail.since
  /\ \A r \in tail.polled : stamp[r] > tail.from => r \in ToSet(tail.sent) \cup ToSet(tail.found) \cup late
  /\ \A r \in ToSet(rows) \ tail.polled, s \in tail.polled : stamp[s] >= stamp[r] => r \in late

Book == Listing(rows, stamp, AllReceipts)

\* The pages seen are the beginning of the listing, unless it was shifted; the
\* last of them ends it.
PagesFollow ==
  /\ pager.began \subseteq ToSet(rows)
  /\ ~pager.shifted =>
       /\ Len(pager.seen) <= Len(Book) /\ \A i \in 1 .. Len(pager.seen) : pager.seen[i] = Book[i]
       /\ pager.on => pager.offset = Len(pager.seen)
       /\ ~pager.on /\ pager.seen # <<>> => pager.began \subseteq ToSet(pager.seen)

BookInv == BookShape /\ TailFollows /\ PagesFollow

LEMMA BookIs ==
  ASSUME NEW R \in Seq(AllReceipts), NEW T \in [AllReceipts -> Nat], Distinct(R)
  PROVE  LET q == Listing(R, T, AllReceipts)
         IN  q \in Seq(AllReceipts) /\ Len(q) = Len(R) /\ ToSet(q) = ToSet(R) /\ Distinct(q)
<1>1. LET q == Listing(R, T, AllReceipts)
      IN  q \in Seq(AllReceipts) /\ Len(q) = Cardinality(Kept(R, AllReceipts)) /\ Distinct(q)
          /\ ToSet(q) = ToSet(R) \cap AllReceipts
  BY ListingIs
<1>2. Kept(R, AllReceipts) = 1 .. Len(R) /\ Len(R) \in Nat
  BY LenProperties DEF Kept
<1>3. Cardinality(Kept(R, AllReceipts)) = Len(R)
  <2>1. Cardinality(1 .. Len(R)) = IF 1 > Len(R) THEN 0 ELSE Len(R) - 1 + 1
    BY <1>2, FS_Interval
  <2> QED
    BY <1>2, <2>1
<1>4. ToSet(R) \subseteq AllReceipts
  BY LenProperties DEF ToSet
<1> QED
  BY <1>1, <1>3, <1>4

LEMMA AppendedIs ==
  ASSUME NEW S, NEW s \in Seq(S), NEW r \in S
  PROVE  /\ Append(s, r) \in Seq(S) /\ ToSet(Append(s, r)) = ToSet(s) \cup {r}
         /\ Distinct(s) /\ r \notin ToSet(s) => Distinct(Append(s, r))
<1> DEFINE a == Append(s, r)
           n == Len(s)
<1>1. /\ a \in Seq(S) /\ Len(a) = n + 1 /\ n \in Nat /\ DOMAIN s = 1 .. n /\ DOMAIN a = 1 .. n + 1
      /\ a[n + 1] = r /\ \A i \in 1 .. n : a[i] = s[i]
  BY AppendProperties, LenProperties
<1> HIDE DEF a, n
<1>2. \A x : x \in ToSet(s) <=> \E i \in 1 .. n : s[i] = x
  BY <1>1 DEF ToSet
<1>3. \A x : x \in ToSet(a) <=> \E i \in 1 .. n + 1 : a[i] = x
  BY <1>1 DEF ToSet
<1>4. ToSet(a) = ToSet(s) \cup {r}
  <2>1. ASSUME NEW x \in ToSet(a) PROVE x \in ToSet(s) \cup {r}
    <3>1. PICK i \in 1 .. n + 1 : a[i] = x
      BY <1>3
    <3>2. CASE i = n + 1
      BY <1>1, <3>1, <3>2
    <3>3. CASE i \in 1 .. n
      BY <1>1, <1>2, <3>1, <3>3
    <3> QED
      BY <1>1, <3>2, <3>3
  <2>2. r \in ToSet(a)
    BY <1>1, <1>3
  <2>3. ASSUME NEW x \in ToSet(s) PROVE x \in ToSet(a)
    <3>1. PICK i \in 1 .. n : s[i] = x
      BY <1>2
    <3>2. i \in 1 .. n + 1 /\ a[i] = x
      BY <1>1, <3>1
    <3> QED
      BY <1>3, <3>2
  <2> QED
    BY <2>1, <2>2, <2>3
<1>5. ASSUME Distinct(s), r \notin ToSet(s) PROVE Distinct(a)
  <2> SUFFICES ASSUME NEW i \in 1 .. n + 1, NEW j \in 1 .. n + 1, a[i] = a[j] PROVE i = j
    BY <1>1 DEF Distinct
  <2>1. CASE i \in 1 .. n /\ j \in 1 .. n
    BY <1>1, <1>5, <2>1 DEF Distinct
  <2>2. CASE i = n + 1 /\ j \in 1 .. n
    BY <1>1, <1>2, <1>5, <2>2
  <2>3. CASE i \in 1 .. n /\ j = n + 1
    BY <1>1, <1>2, <1>5, <2>3
  <2> QED
    BY <1>1, <2>1, <2>2, <2>3
<1> QED
  BY <1>1, <1>4, <1>5 DEF a

LEMMA AppendedInOrder ==
  ASSUME NEW S, NEW s \in Seq(S), NEW r \in S, NEW T \in [S -> Nat],
         InOrder(s, T), \A x \in ToSet(s) : T[x] <= T[r]
  PROVE  InOrder(Append(s, r), T)
<1> DEFINE a == Append(s, r)
           n == Len(s)
<1>1. /\ a \in Seq(S) /\ Len(a) = n + 1 /\ n \in Nat /\ DOMAIN s = 1 .. n /\ DOMAIN a = 1 .. n + 1
      /\ a[n + 1] = r /\ \A i \in 1 .. n : a[i] = s[i]
  BY AppendProperties, LenProperties
<1> HIDE DEF a, n
<1>2. \A i \in 1 .. n : s[i] \in ToSet(s)
  BY <1>1 DEF ToSet
<1> SUFFICES ASSUME NEW i \in 1 .. n + 1, NEW j \in 1 .. n + 1, i < j PROVE T[a[i]] <= T[a[j]]
  BY <1>1 DEF InOrder, a
<1>3. CASE j \in 1 .. n
  <2>1. i \in 1 .. n
    BY <1>1, <1>3
  <2> QED
    BY <1>1, <1>3, <2>1 DEF InOrder
<1>4. CASE j = n + 1
  <2>1. i \in 1 .. n
    BY <1>1, <1>4
  <2> QED
    BY <1>1, <1>2, <1>4, <2>1
<1> QED
  BY <1>1, <1>3, <1>4

LEMMA TailIs ==
  ASSUME NEW S, NEW s \in Seq(S), s # <<>>
  PROVE  /\ Head(s) \in S /\ Tail(s) \in Seq(S) /\ Head(s) \in ToSet(s)
         /\ ToSet(s) = {Head(s)} \cup ToSet(Tail(s))
         /\ Distinct(s) => Distinct(Tail(s)) /\ Head(s) \notin ToSet(Tail(s))
<1> DEFINE t == Tail(s)
           n == Len(s)
<1>1. /\ n \in Nat \ {0} /\ DOMAIN s = 1 .. n /\ DOMAIN t = 1 .. n - 1 /\ t \in Seq(S)
      /\ Head(s) = s[1] /\ Head(s) \in S /\ \A i \in 1 .. n - 1 : t[i] = s[i + 1]
  <2>1. n \in Nat /\ n # 0
    BY LenProperties, EmptySeq
  <2>2. DOMAIN s = 1 .. n /\ Head(s) = s[1] /\ Head(s) \in S
    BY <2>1, HeadTailProperties, LenProperties
  <2>3. t \in Seq(S) /\ Len(t) = n - 1 /\ \A i \in 1 .. Len(t) : t[i] = s[i + 1]
    BY HeadTailProperties
  <2>4. DOMAIN t = 1 .. n - 1
    BY <2>3, LenProperties
  <2> QED
    BY <2>1, <2>2, <2>3, <2>4
<1> HIDE DEF t, n
<1>2. \A x : x \in ToSet(s) <=> \E i \in 1 .. n : s[i] = x
  BY <1>1 DEF ToSet
<1>3. \A x : x \in ToSet(t) <=> \E i \in 1 .. n - 1 : t[i] = x
  BY <1>1 DEF ToSet
<1>4. Head(s) \in ToSet(s)
  BY <1>1, <1>2
<1>5. ASSUME NEW x \in ToSet(s), x # Head(s) PROVE x \in ToSet(t)
  <2>1. PICK i \in 1 .. n : s[i] = x
    BY <1>2
  <2>2. i - 1 \in 1 .. n - 1 /\ (i - 1) + 1 = i
    BY <1>1, <1>5, <2>1
  <2>3. t[i - 1] = x
    BY <1>1, <2>1, <2>2
  <2> QED
    BY <1>3, <2>2, <2>3
<1>6. ASSUME NEW x \in ToSet(t) PROVE x \in ToSet(s) /\ (Distinct(s) => x # Head(s))
  <2>1. PICK i \in 1 .. n - 1 : t[i] = x
    BY <1>3
  <2>2. i + 1 \in 1 .. n /\ s[i + 1] = x /\ 1 \in 1 .. n /\ i + 1 # 1
    BY <1>1, <2>1
  <2> QED
    BY <1>1, <1>2, <2>2 DEF Distinct
<1>7. ASSUME Distinct(s) PROVE Distinct(t)
  <2> SUFFICES ASSUME NEW i \in 1 .. n - 1, NEW j \in 1 .. n - 1, t[i] = t[j] PROVE i = j
    BY <1>1 DEF Distinct
  <2>1. i + 1 \in 1 .. n /\ j + 1 \in 1 .. n /\ s[i + 1] = s[j + 1]
    BY <1>1
  <2>2. i + 1 = j + 1
    BY <1>1, <1>7, <2>1 DEF Distinct
  <2> QED
    BY <2>2
<1>8. ToSet(s) = {Head(s)} \cup ToSet(t)
  BY <1>4, <1>5, <1>6
<1> QED
  BY <1>1, <1>4, <1>6, <1>7, <1>8 DEF t

LEMMA TailInOrder ==
  ASSUME NEW S, NEW s \in Seq(S), s # <<>>, NEW T \in [S -> Nat], InOrder(s, T)
  PROVE  InOrder(Tail(s), T) /\ \A x \in ToSet(Tail(s)) : T[Head(s)] <= T[x]
<1> DEFINE t == Tail(s)
           n == Len(s)
<1>1. /\ n \in Nat \ {0} /\ DOMAIN s = 1 .. n /\ DOMAIN t = 1 .. n - 1
      /\ Head(s) = s[1] /\ \A i \in 1 .. n - 1 : t[i] = s[i + 1]
  <2>1. n \in Nat /\ n # 0
    BY LenProperties, EmptySeq
  <2>2. DOMAIN s = 1 .. n /\ Head(s) = s[1]
    BY <2>1, HeadTailProperties, LenProperties
  <2>3. t \in Seq(S) /\ Len(t) = n - 1 /\ \A i \in 1 .. Len(t) : t[i] = s[i + 1]
    BY HeadTailProperties
  <2>4. DOMAIN t = 1 .. n - 1
    BY <2>3, LenProperties
  <2> QED
    BY <2>1, <2>2, <2>3, <2>4
<1> HIDE DEF t, n
<1>2. \A i, j \in 1 .. n : i < j => T[s[i]] <= T[s[j]]
  BY <1>1 DEF InOrder
<1>3. \A i \in 1 .. n - 1 : i + 1 \in 1 .. n /\ 1 < i + 1 /\ 1 \in 1 .. n
  BY <1>1
<1>4. ASSUME NEW i \in 1 .. n - 1, NEW j \in 1 .. n - 1, i < j PROVE T[t[i]] <= T[t[j]]
  <2>1. i + 1 < j + 1
    BY <1>1, <1>4
  <2> QED
    BY <1>1, <1>2, <1>3, <2>1
<1>5. ASSUME NEW x \in ToSet(t) PROVE T[Head(s)] <= T[x]
  <2>1. PICK i \in 1 .. n - 1 : t[i] = x
    BY <1>1 DEF ToSet
  <2> QED
    BY <1>1, <1>2, <1>3, <2>1
<1> QED
  BY <1>1, <1>4, <1>5 DEF InOrder, t

-----------------------------------------------------------------------------
(* What each side keeps. *)

LEMMA BookBegins == BookAssumption /\ BookInit => BookInv
<1> SUFFICES ASSUME BookAssumption, BookInit PROVE BookInv
  OBVIOUS
<1>1. Exported \in Seq(AllReceipts) /\ Fresh \cap ToSet(Exported) = {} /\ ToSet(<<>>) = {} /\ Len(<<>>) = 0
  BY DEF BookAssumption, ToSet
<1>2. <<>> \in Seq(AllReceipts) /\ <<>> \in Seq(ToSet(Exported))
  OBVIOUS
<1>3. ToSet(Exported) \subseteq AllReceipts
  BY DEF AllReceipts
<1>4. \A r \in ToSet(Exported) : r \notin Fresh
  BY <1>1
<1>5. Distinct(<<>>) /\ InOrder(<<>>, stamp)
  BY DEF Distinct, InOrder
<1>6. BookShape
  <2>1. stamp \in [AllReceipts -> Nat] /\ \A r \in ToSet(rows) \cup ToSet(Exported) : stamp[r] # 0
    BY <1>1, <1>3, <1>4 DEF BookInit
  <2>2. tail \in Tails /\ pager \in Pagers
    BY <1>2 DEF BookInit, Tails, Pagers
  <2> QED
    BY <1>2, <1>5, <2>1, <2>2 DEF BookShape, BookInit
<1>7. TailFollows
  BY <1>1, <1>5 DEF TailFollows, BookInit
<1>8. PagesFollow
  <2>1. Book \in Seq(AllReceipts)
    BY <1>6, ListingIs DEF BookShape, Book
  <2>2. Len(Book) \in Nat
    BY <2>1, LenProperties
  <2> QED
    BY <1>1, <2>2 DEF PagesFollow, BookInit
<1> QED
  BY <1>6, <1>7, <1>8 DEF BookInv

\* The tail stands while rows are added, if those that are overtaken are late.
LEMMA TailStands ==
  ASSUME BookShape, TailFollows, tail' = tail, ToSet(rows) \subseteq ToSet(rows'),
         \A r \in ToSet(rows) : stamp'[r] = stamp[r], late \subseteq late',
         \A r \in ToSet(rows') \ ToSet(rows) :
           (\E s \in ToSet(rows) : stamp[s] >= stamp'[r]) => r \in late'
  PROVE  TailFollows'
<1>1. /\ tail.sent \in Seq(AllReceipts) /\ tail.found \in Seq(AllReceipts)
      /\ ToSet(tail.sent) \subseteq tail.polled /\ ToSet(tail.found) \subseteq tail.polled
      /\ tail.polled \subseteq ToSet(rows)
  BY DEF BookShape, Tails, TailFollows
<1>2. \A r \in tail.polled : r \in ToSet(rows) /\ r \in ToSet(rows') /\ stamp'[r] = stamp[r]
  BY <1>1
<1>3. ASSUME NEW q \in {tail.sent, tail.found}, InOrder(q, stamp) PROVE InOrder(q, stamp')
  <2>1. \A i \in DOMAIN q : stamp'[q[i]] = stamp[q[i]]
    BY <1>1, <1>2 DEF ToSet
  <2> QED
    BY <1>3, <2>1 DEF InOrder
<1>4. InOrder(tail.sent, stamp') /\ InOrder(tail.found, stamp')
  BY <1>3 DEF TailFollows
<1>5. \A r \in ToSet(tail.sent) : r \notin ToSet(tail.found) /\ stamp'[r] <= tail.since
  BY <1>1, <1>2 DEF TailFollows
<1>6. \A r \in ToSet(tail.sent), s \in ToSet(tail.found) : stamp'[r] <= stamp'[s]
  BY <1>1, <1>2 DEF TailFollows
<1>7. tail.since = tail.from \/ \E r \in tail.polled : stamp'[r] = tail.since
  BY <1>2 DEF TailFollows
<1>8. \A r \in tail.polled : stamp'[r] > tail.from => r \in ToSet(tail.sent) \cup ToSet(tail.found) \cup late'
  BY <1>2 DEF TailFollows
<1>9. ASSUME NEW r \in ToSet(rows') \ tail.polled, NEW s \in tail.polled, stamp'[s] >= stamp'[r]
      PROVE  r \in late'
  <2>1. s \in ToSet(rows) /\ stamp[s] >= stamp'[r]
    BY <1>2, <1>9
  <2>2. CASE r \in ToSet(rows)
    <3>1. r \in late
      BY <2>1, <2>2 DEF TailFollows
    <3> QED
      BY <3>1
  <2>3. CASE r \notin ToSet(rows)
    BY <2>1, <2>3
  <2> QED
    BY <2>2, <2>3
<1>10. /\ ~tail.on => tail.sent = <<>> /\ tail.found = <<>> /\ tail.polled = {}
       /\ Distinct(tail.sent) /\ Distinct(tail.found)
  BY DEF TailFollows
<1>11. tail.polled \subseteq ToSet(rows')
  BY <1>1
<1> QED
  BY <1>1, <1>4, <1>5, <1>6, <1>7, <1>8, <1>9, <1>10, <1>11 DEF TailFollows

\* The pages stand while the listing does.
LEMMA PagesStand ==
  ASSUME PagesFollow, pager' = pager, Book' = Book, ToSet(rows') = ToSet(rows)
  PROVE  PagesFollow'
BY DEF PagesFollow

\* A step that stores nothing and reads nothing.
LEMMA BookRests ==
  ASSUME BookInv, rows' = rows, tail' = tail, pager' = pager, late' = late, BookShape',
         \A r \in ToSet(rows) : stamp'[r] = stamp[r]
  PROVE  BookInv'
<1>1. TailFollows'
  BY TailStands DEF BookInv
<1>2. Book' = Book
  <2>1. rows \in Seq(AllReceipts) /\ stamp \in [AllReceipts -> Nat] /\ stamp' \in [AllReceipts -> Nat]
    BY DEF BookInv, BookShape
  <2>2. Listing(rows, stamp', AllReceipts) = Listing(rows, stamp, AllReceipts)
    BY <2>1, ListingReadsItsRows
  <2> QED
    BY <2>2 DEF Book
<1>3. PagesFollow'
  BY <1>2, PagesStand DEF BookInv
<1> QED
  BY <1>1, <1>3 DEF BookInv

LEMMA StampKeeps ==
  ASSUME BookInv, NEW r \in Fresh, Stamp(r)
  PROVE  BookInv'
<1>1. r \in AllReceipts
  BY DEF AllReceipts
<1>2. stamp' \in [AllReceipts -> Nat] /\ \A s \in AllReceipts : stamp[s] # 0 => stamp'[s] = stamp[s]
  BY <1>1 DEF BookInv, BookShape, Stamp
<1>3. \A s \in ToSet(rows) \cup ToSet(Exported) : s \in AllReceipts /\ stamp[s] # 0
  <2>1. ToSet(rows) \subseteq AllReceipts
    BY LenProperties DEF BookInv, BookShape, ToSet
  <2> QED
    BY <2>1 DEF BookInv, BookShape, AllReceipts
<1>4. BookShape'
  BY <1>2, <1>3 DEF BookInv, BookShape, Stamp
<1> QED
  BY <1>2, <1>3, <1>4, BookRests DEF Stamp

LEMMA StoreKeeps ==
  ASSUME BookInv, NEW r \in AllReceipts, stamp[r] # 0, Store(r), stamp' = stamp, now' = now, tail' = tail,
         importing' \in Seq(ToSet(Exported))
  PROVE  BookInv'
<1>1. CASE r \in ToSet(rows)
  <2>1. rows' = rows /\ late' = late
    BY <1>1 DEF Store, Inserts, Overtaken
  <2>2. pager' = pager
    <3>1. pager \in Pagers
      BY DEF BookInv, BookShape
    <3>2. pager' = [pager EXCEPT !.shifted = pager.shifted]
      <4>1. ~\E s \in ToSet(rows) : r \notin ToSet(rows) /\ stamp[s] > stamp[r]
        BY <1>1
      <4>2. pager.shifted \in BOOLEAN
        BY <3>1 DEF Pagers
      <4>3. (pager.shifted \/ \E s \in ToSet(rows) : r \notin ToSet(rows) /\ stamp[s] > stamp[r]) = pager.shifted
        BY <4>1, <4>2
      <4> QED
        BY <4>3 DEF Store
    <3> QED
      BY <3>1, <3>2 DEF Pagers
  <2>3. BookShape'
    BY <2>1, <2>2 DEF BookInv, BookShape
  <2> QED
    BY <2>1, <2>2, <2>3, BookRests
<1>2. CASE r \notin ToSet(rows)
  <2> DEFINE shift == \E s \in ToSet(rows) : stamp[s] > stamp[r]
  <2>1. /\ rows' = Append(rows, r)
        /\ late' = IF \E s \in ToSet(rows) : stamp[s] >= stamp[r] THEN late \cup {r} ELSE late
        /\ rows \in Seq(AllReceipts) /\ Distinct(rows) /\ stamp \in [AllReceipts -> Nat]
    BY <1>2 DEF Store, Inserts, Overtaken, BookInv, BookShape
  <2>2. rows' \in Seq(AllReceipts) /\ Distinct(rows') /\ ToSet(rows') = ToSet(rows) \cup {r}
    BY <1>2, <2>1, AppendedIs
  <2>3. pager \in Pagers /\ pager' = [pager EXCEPT !.shifted = pager.shifted \/ shift]
    BY <1>2 DEF Store, BookInv, BookShape
  <2>4. /\ pager' \in Pagers /\ pager'.on = pager.on /\ pager'.offset = pager.offset
        /\ pager'.seen = pager.seen /\ pager'.began = pager.began
        /\ pager'.shifted = (pager.shifted \/ shift)
    BY <2>3 DEF Pagers
  <2>5. BookShape'
    BY <2>2, <2>4 DEF BookInv, BookShape
  <2>6. TailFollows'
    BY <2>1, <2>2, TailStands DEF BookInv
  <2>7. ASSUME ~pager'.shifted
        PROVE  Book \in Seq(AllReceipts) /\ Book' = Append(Book, r)
    <3>1. \A s \in ToSet(rows) : s \in AllReceipts /\ stamp[s] <= stamp[r]
      <4>1. \A s \in ToSet(rows) : s \in AllReceipts
        BY <2>1, LenProperties DEF ToSet
      <4>2. \A s \in ToSet(rows) : ~(stamp[s] > stamp[r])
        BY <2>4, <2>7
      <4> HIDE DEF shift
      <4> QED
        BY <2>1, <4>1, <4>2
    <3>2. Listing(Append(rows, r), stamp, AllReceipts) = Append(Listing(rows, stamp, AllReceipts), r)
      BY <2>1, <3>1, ListingGrows
    <3> QED
      BY <2>1, <3>2, BookIs DEF Book
  <2>8. PagesFollow'
    <3>1. pager'.began \subseteq ToSet(rows')
      BY <2>2, <2>4 DEF BookInv, PagesFollow
    <3>2. ASSUME ~pager'.shifted
          PROVE  /\ Len(pager'.seen) <= Len(Book')
                 /\ \A i \in 1 .. Len(pager'.seen) : pager'.seen[i] = Book'[i]
                 /\ pager'.on => pager'.offset = Len(pager'.seen)
                 /\ ~pager'.on /\ pager'.seen # <<>> => pager'.began \subseteq ToSet(pager'.seen)
      <4>1. ~pager.shifted
        BY <2>4, <3>2
      <4>2. /\ Len(Book') = Len(Book) + 1 /\ Len(Book) \in Nat
            /\ \A i \in 1 .. Len(Book) : Book'[i] = Book[i]
        BY <2>7, <3>2, AppendProperties, LenProperties
      <4>3. pager.seen \in Seq(AllReceipts) /\ Len(pager.seen) \in Nat
        BY <2>3, LenProperties DEF Pagers
      <4>4. /\ Len(pager.seen) <= Len(Book) /\ \A i \in 1 .. Len(pager.seen) : pager.seen[i] = Book[i]
            /\ pager.on => pager.offset = Len(pager.seen)
            /\ ~pager.on /\ pager.seen # <<>> => pager.began \subseteq ToSet(pager.seen)
        BY <4>1 DEF BookInv, PagesFollow
      <4> HIDE DEF Book
      <4>5. /\ Len(pager.seen) <= Len(Book')
            /\ \A i \in 1 .. Len(pager.seen) : pager.seen[i] = Book'[i]
        BY <4>2, <4>3, <4>4
      <4> QED
        BY <2>4, <4>4, <4>5
    <3> QED
      BY <3>1, <3>2 DEF PagesFollow
  <2> QED
    BY <2>5, <2>6, <2>8 DEF BookInv
<1> QED
  BY <1>1, <1>2

-----------------------------------------------------------------------------
(* The tail. *)

LEMMA SubscribeKeeps ==
  ASSUME BookInv, Subscribe
  PROVE  BookInv'
<1>1. /\ tail \in Tails /\ tail.sent = <<>> /\ tail.found = <<>> /\ tail.polled = {} /\ now \in Nat
      /\ tail' = [tail EXCEPT !.on = TRUE, !.since = now, !.from = now]
  BY DEF BookInv, BookShape, TailFollows, Subscribe
<1>2. /\ tail' \in Tails /\ tail'.sent = <<>> /\ tail'.found = <<>> /\ tail'.polled = {}
      /\ tail'.on /\ tail'.since = tail'.from
  BY <1>1 DEF Tails
<1>3. BookShape'
  BY <1>2 DEF BookInv, BookShape, Subscribe
<1>4. TailFollows'
  <2>1. ToSet(<<>>) = {} /\ Distinct(<<>>) /\ InOrder(<<>>, stamp')
    BY DEF ToSet, Distinct, InOrder
  <2> QED
    BY <1>2, <2>1 DEF TailFollows
<1>5. PagesFollow'
  <2>1. pager' = pager /\ Book' = Book /\ ToSet(rows') = ToSet(rows)
    BY DEF Subscribe, Book
  <2> QED
    BY <2>1, PagesStand DEF BookInv
<1> QED
  BY <1>3, <1>4, <1>5 DEF BookInv

LEMMA PollKeeps ==
  ASSUME BookInv, Poll
  PROVE  BookInv'
<1> DEFINE q == Since(tail.since)
           newer == {r \in AllReceipts : NewerThan(r, tail.since)}
<1>1. /\ tail \in Tails /\ tail.on /\ tail.found = <<>> /\ tail.since \in Nat /\ tail.from \in Nat
      /\ rows \in Seq(AllReceipts) /\ Distinct(rows) /\ stamp \in [AllReceipts -> Nat]
      /\ tail' = [tail EXCEPT !.found = q, !.polled = ToSet(rows)]
      /\ rows' = rows /\ stamp' = stamp /\ late' = late
  BY DEF BookInv, BookShape, Poll, Tails
<1>2. ToSet(rows) \subseteq AllReceipts
  BY <1>1, LenProperties DEF ToSet
<1>3. q \in Seq(AllReceipts) /\ ToSet(q) = ToSet(rows) \cap newer /\ InOrder(q, stamp) /\ Distinct(q)
  <2>1. q = Listing(rows, stamp, newer)
    BY OrderedIsListing DEF Since
  <2> HIDE DEF q, newer
  <2> QED
    BY <1>1, <2>1, ListingIs
<1>4. \A r : r \in ToSet(q) <=> r \in ToSet(rows) /\ stamp[r] > tail.since
  BY <1>2, <1>3 DEF NewerThan
<1> HIDE DEF q, newer
<1>5. /\ tail' \in Tails /\ tail'.on = tail.on /\ tail'.since = tail.since /\ tail'.from = tail.from
      /\ tail'.sent = tail.sent /\ tail'.found = q /\ tail'.polled = ToSet(rows)
  BY <1>1, <1>2, <1>3 DEF Tails
<1>6. BookShape'
  BY <1>5 DEF BookInv, BookShape, Poll
<1>7. TailFollows'
  <2>1. /\ Distinct(tail.sent) /\ InOrder(tail.sent, stamp) /\ ToSet(tail.sent) \subseteq ToSet(rows)
        /\ \A r \in ToSet(tail.sent) : stamp[r] <= tail.since
        /\ tail.polled \subseteq ToSet(rows)
        /\ tail.since = tail.from \/ \E r \in tail.polled : stamp[r] = tail.since
    BY DEF BookInv, TailFollows
  <2>2. \A r \in ToSet(rows) : stamp[r] \in Nat
    BY <1>1, <1>2
  <2>3. \A r \in ToSet(tail.sent) : r \notin ToSet(q)
    BY <1>1, <1>4, <2>1, <2>2
  <2>4. \A r \in ToSet(tail.sent), s \in ToSet(q) : stamp[r] <= stamp[s]
    BY <1>1, <1>4, <2>1, <2>2
  <2>5. ASSUME NEW r \in ToSet(rows), stamp[r] > tail.from
        PROVE  r \in ToSet(tail.sent) \cup ToSet(q) \cup late
    <3>1. CASE stamp[r] > tail.since
      BY <1>4, <3>1
    <3>2. CASE ~(stamp[r] > tail.since) /\ r \in tail.polled
      <4>1. ToSet(tail.found) = {}
        BY <1>1 DEF ToSet
      <4> QED
        BY <2>5, <3>2, <4>1 DEF BookInv, TailFollows
    <3>3. CASE ~(stamp[r] > tail.since) /\ r \notin tail.polled
      <4>1. PICK s \in tail.polled : stamp[s] = tail.since
        BY <1>1, <2>1, <2>2, <2>5, <3>3
      <4>2. stamp[s] >= stamp[r]
        BY <1>1, <2>2, <3>3, <4>1
      <4> QED
        BY <3>3, <4>2 DEF BookInv, TailFollows
    <3> QED
      BY <3>1, <3>2, <3>3
  <2>6. ToSet(q) \subseteq ToSet(rows)
    BY <1>4
  <2>7. tail'.since = tail'.from \/ \E r \in tail'.polled : stamp'[r] = tail'.since
    BY <1>1, <1>5, <2>1
  <2>8. \A r \in ToSet(rows) \ ToSet(rows) : FALSE
    OBVIOUS
  <2> QED
    BY <1>1, <1>3, <1>5, <2>1, <2>3, <2>4, <2>5, <2>6, <2>7, <2>8 DEF TailFollows
<1>8. PagesFollow'
  <2>1. pager' = pager /\ Book' = Book /\ ToSet(rows') = ToSet(rows)
    BY DEF Poll, Book
  <2> QED
    BY <2>1, PagesStand DEF BookInv
<1> QED
  BY <1>6, <1>7, <1>8 DEF BookInv

LEMMA SendKeeps ==
  ASSUME BookInv, SendNext
  PROVE  BookInv'
<1> DEFINE r == Head(tail.found)
           rest == Tail(tail.found)
           sent == Append(tail.sent, r)
           bound == IF stamp[r] > tail.since THEN stamp[r] ELSE tail.since
<1>1. /\ tail \in Tails /\ tail.on /\ tail.found # <<>> /\ tail.since \in Nat /\ tail.from \in Nat
      /\ tail.found \in Seq(AllReceipts) /\ tail.sent \in Seq(AllReceipts) /\ stamp \in [AllReceipts -> Nat]
      /\ tail' = [tail EXCEPT !.sent = sent, !.found = rest, !.since = bound]
      /\ rows' = rows /\ stamp' = stamp /\ late' = late
  BY DEF BookInv, BookShape, SendNext, Tails
<1>2. /\ r \in AllReceipts /\ rest \in Seq(AllReceipts) /\ r \in ToSet(tail.found)
      /\ ToSet(tail.found) = {r} \cup ToSet(rest)
      /\ Distinct(tail.found) => Distinct(rest) /\ r \notin ToSet(rest)
  BY <1>1, TailIs
<1>3. Distinct(rest) /\ r \notin ToSet(rest)
  BY <1>2 DEF BookInv, TailFollows
<1>4. InOrder(rest, stamp) /\ \A s \in ToSet(rest) : stamp[r] <= stamp[s]
  BY <1>1, TailInOrder DEF BookInv, TailFollows
<1>5. r \notin ToSet(tail.sent) /\ \A s \in ToSet(tail.sent) : stamp[s] <= stamp[r]
  BY <1>2 DEF BookInv, TailFollows
<1>6. sent \in Seq(AllReceipts) /\ ToSet(sent) = ToSet(tail.sent) \cup {r} /\ Distinct(sent)
  BY <1>1, <1>2, <1>5, AppendedIs DEF BookInv, TailFollows
<1>7. InOrder(sent, stamp)
  BY <1>1, <1>2, <1>5, AppendedInOrder DEF BookInv, TailFollows
<1>8. bound \in Nat /\ stamp[r] \in Nat
  BY <1>1, <1>2
<1>9. stamp[r] <= bound /\ tail.since <= bound /\ (bound = tail.since \/ bound = stamp[r])
  BY <1>1, <1>8
<1> HIDE DEF r, rest, sent, bound
<1>10. /\ tail' \in Tails /\ tail'.on = tail.on /\ tail'.since = bound /\ tail'.from = tail.from
       /\ tail'.sent = sent /\ tail'.found = rest /\ tail'.polled = tail.polled
  BY <1>1, <1>2, <1>6, <1>8 DEF Tails
<1>11. BookShape'
  BY <1>10 DEF BookInv, BookShape, SendNext
<1>12. TailFollows'
  <2>1. /\ \A s \in ToSet(tail.sent) : s \notin ToSet(tail.found) /\ stamp[s] <= tail.since /\ s \in AllReceipts
        /\ \A s \in ToSet(tail.found) : s \in AllReceipts
        /\ \A s \in ToSet(tail.sent), v \in ToSet(tail.found) : stamp[s] <= stamp[v]
        /\ ToSet(tail.sent) \subseteq tail.polled /\ ToSet(tail.found) \subseteq tail.polled
        /\ tail.polled \subseteq ToSet(rows)
        /\ tail.since = tail.from \/ \E s \in tail.polled : stamp[s] = tail.since
        /\ \A s \in tail.polled : stamp[s] > tail.from => s \in ToSet(tail.sent) \cup ToSet(tail.found) \cup late
        /\ \A s \in ToSet(rows) \ tail.polled, v \in tail.polled : stamp[v] >= stamp[s] => s \in late
    <3>1. ToSet(tail.sent) \subseteq AllReceipts /\ ToSet(tail.found) \subseteq AllReceipts
      BY <1>1, LenProperties DEF ToSet
    <3> QED
      BY <3>1 DEF BookInv, TailFollows
  <2>2. ASSUME NEW s \in ToSet(sent) PROVE s \notin ToSet(rest) /\ stamp[s] <= bound
    <3>1. CASE s = r
      BY <1>3, <1>9, <3>1
    <3>2. CASE s \in ToSet(tail.sent)
      <4>1. stamp[s] <= tail.since /\ stamp[s] \in Nat /\ s \notin ToSet(tail.found)
        BY <1>1, <2>1, <3>2
      <4> QED
        BY <1>1, <1>2, <1>8, <1>9, <4>1
    <3> QED
      BY <1>6, <3>1, <3>2
  <2>3. ASSUME NEW s \in ToSet(sent), NEW v \in ToSet(rest) PROVE stamp[s] <= stamp[v]
    BY <1>2, <1>4, <1>6, <2>1
  <2>4. ToSet(sent) \subseteq tail.polled /\ ToSet(rest) \subseteq tail.polled
    BY <1>2, <1>6, <2>1
  <2>5. bound = tail.from \/ \E s \in tail.polled : stamp[s] = bound
    BY <1>2, <1>9, <2>1
  <2>6. \A s \in tail.polled : stamp[s] > tail.from => s \in ToSet(sent) \cup ToSet(rest) \cup late
    BY <1>2, <1>6, <2>1
  <2> QED
    BY <1>1, <1>3, <1>4, <1>6, <1>7, <1>10, <2>1, <2>2, <2>3, <2>4, <2>5, <2>6 DEF TailFollows
<1>13. PagesFollow'
  <2>1. pager' = pager /\ Book' = Book /\ ToSet(rows') = ToSet(rows)
    BY DEF SendNext, Book
  <2> QED
    BY <2>1, PagesStand DEF BookInv
<1> QED
  BY <1>11, <1>12, <1>13 DEF BookInv

-----------------------------------------------------------------------------
(* The pages. *)

LEMMA BeginPagesKeeps ==
  ASSUME BookInv, BeginPages
  PROVE  BookInv'
<1>1. /\ rows' = rows /\ stamp' = stamp /\ late' = late /\ tail' = tail
      /\ rows \in Seq(AllReceipts) /\ stamp \in [AllReceipts -> Nat]
      /\ pager' = [on |-> TRUE, offset |-> 0, seen |-> <<>>, began |-> ToSet(rows), shifted |-> FALSE]
  BY DEF BeginPages, BookInv, BookShape
<1>2. ToSet(rows) \subseteq AllReceipts
  BY <1>1, LenProperties DEF ToSet
<1>3. pager' \in Pagers
  BY <1>1, <1>2 DEF Pagers
<1>4. BookShape'
  BY <1>3 DEF BeginPages, BookInv, BookShape
<1>5. TailFollows'
  BY <1>1, TailStands DEF BookInv
<1>6. PagesFollow'
  <2>1. Book' \in Seq(AllReceipts)
    <3>1. Listing(rows, stamp, AllReceipts) \in Seq(AllReceipts)
      BY <1>1, ListingIs
    <3> QED
      BY <1>1, <3>1 DEF Book
  <2>2. Len(Book') \in Nat /\ Len(<<>>) = 0
    BY <2>1, LenProperties
  <2> QED
    BY <1>1, <2>2 DEF PagesFollow
<1> QED
  BY <1>4, <1>5, <1>6 DEF BookInv

\* A page of the listing.
LEMMA PageIs ==
  ASSUME NEW q \in Seq(AllReceipts), NEW offset \in Nat, NEW size \in Nat
  PROVE  LET last == IF offset + size < Len(q) THEN offset + size ELSE Len(q)
             page == SubSeq(q, offset + 1, last)
         IN  /\ page \in Seq(AllReceipts)
             /\ offset <= Len(q) =>
                  /\ last \in offset .. Len(q) /\ Len(page) = last - offset
                  /\ \A i \in 1 .. last - offset : page[i] = q[offset + i]
<1> DEFINE last == IF offset + size < Len(q) THEN offset + size ELSE Len(q)
           page == SubSeq(q, offset + 1, last)
<1>1. Len(q) \in Nat /\ last \in Nat /\ last <= Len(q) /\ \A i \in 1 .. Len(q) : q[i] \in AllReceipts
  BY LenProperties
<1>2. offset <= Len(q) => offset <= last
  BY <1>1
<1> HIDE DEF last
<1>3. \A i \in offset + 1 .. last : i \in 1 .. Len(q) /\ q[i] \in AllReceipts
  BY <1>1
<1>4. /\ page \in Seq(AllReceipts)
      /\ Len(page) = IF offset + 1 <= last THEN last - (offset + 1) + 1 ELSE 0
      /\ \A i \in 1 .. last - (offset + 1) + 1 : page[i] = q[offset + 1 + i - 1]
  BY <1>1, <1>3, SubSeqProperties
<1> HIDE DEF page
<1>5. ASSUME offset <= Len(q)
      PROVE  /\ last \in offset .. Len(q) /\ Len(page) = last - offset
             /\ \A i \in 1 .. last - offset : page[i] = q[offset + i]
  <2>1. last \in offset .. Len(q) /\ last - (offset + 1) + 1 = last - offset
    BY <1>1, <1>2, <1>5
  <2>2. Len(page) = last - offset
    BY <1>4, <2>1
  <2>3. ASSUME NEW i \in 1 .. last - offset PROVE page[i] = q[offset + i]
    <3>1. i \in 1 .. last - (offset + 1) + 1 /\ offset + 1 + i - 1 = offset + i
      BY <2>1
    <3> QED
      BY <1>4, <3>1
  <2> QED
    BY <2>1, <2>2, <2>3
<1> QED
  BY <1>4, <1>5 DEF last, page

LEMMA NextPageKeeps ==
  ASSUME BookAssumption, BookInv, NextPage
  PROVE  BookInv'
<1> DEFINE offset == pager.offset
           last == IF offset + PageSize < Len(Book) THEN offset + PageSize ELSE Len(Book)
           page == SubSeq(Book, offset + 1, last)
           seen == pager.seen \o page
<1>1. /\ rows' = rows /\ stamp' = stamp /\ late' = late /\ tail' = tail
      /\ rows \in Seq(AllReceipts) /\ stamp \in [AllReceipts -> Nat] /\ Distinct(rows)
      /\ pager \in Pagers /\ pager.on /\ offset \in Nat /\ pager.seen \in Seq(AllReceipts)
      /\ PageSize \in Nat \ {0} /\ pager.began \subseteq ToSet(rows)
  BY DEF NextPage, BookInv, BookShape, Pagers, BookAssumption, PagesFollow
<1>2. Book \in Seq(AllReceipts) /\ Len(Book) = Len(rows) /\ ToSet(Book) = ToSet(rows) /\ Distinct(Book)
  BY <1>1, BookIs DEF Book
<1>3. Book' = Book
  BY <1>1 DEF Book
<1>4. Page(offset) = page
  <2>1. ReadAll = Book
    BY OrderedIsListing DEF ReadAll, Book
  <2> QED
    BY <2>1 DEF Page
<1> HIDE DEF Book
<1>5. /\ page \in Seq(AllReceipts)
      /\ offset <= Len(Book) =>
           /\ last \in offset .. Len(Book) /\ Len(page) = last - offset
           /\ \A i \in 1 .. last - offset : page[i] = Book[offset + i]
  BY <1>1, <1>2, PageIs
<1>6. Len(Book) \in Nat /\ Len(pager.seen) \in Nat /\ offset + PageSize \in Nat
  BY <1>1, <1>2, LenProperties
<1>7. /\ offset + PageSize < Len(rows) => last = offset + PageSize
      /\ ~(offset + PageSize < Len(rows)) => last = Len(Book)
  BY <1>2
<1> HIDE DEF page, last, offset
<1>8. /\ seen \in Seq(AllReceipts) /\ Len(seen) = Len(pager.seen) + Len(page)
      /\ \A i \in 1 .. Len(pager.seen) + Len(page) :
           seen[i] = IF i <= Len(pager.seen) THEN pager.seen[i] ELSE page[i - Len(pager.seen)]
  BY <1>1, <1>5, ConcatProperties
<1> HIDE DEF seen
<1>9. pager' = [pager EXCEPT !.seen = seen, !.offset = offset + PageSize,
                             !.on = offset + PageSize < Len(rows)]
  BY <1>4 DEF NextPage, seen, offset
<1>10. (offset + PageSize < Len(rows)) \in BOOLEAN
  OBVIOUS
<1>11. /\ pager' \in Pagers /\ pager'.seen = seen /\ pager'.offset = offset + PageSize
       /\ pager'.on = (offset + PageSize < Len(rows))
       /\ pager'.began = pager.began /\ pager'.shifted = pager.shifted
  BY <1>1, <1>6, <1>8, <1>9, <1>10 DEF Pagers
<1>12. BookShape'
  BY <1>11 DEF NextPage, BookInv, BookShape
<1>13. TailFollows'
  BY <1>1, TailStands DEF BookInv
<1>14. ASSUME ~pager.shifted
       PROVE  /\ Len(seen) = last /\ last <= Len(Book) /\ \A i \in 1 .. last : seen[i] = Book[i]
  <2>1. offset = Len(pager.seen) /\ offset <= Len(Book) /\ \A i \in 1 .. offset : pager.seen[i] = Book[i]
    BY <1>1, <1>14 DEF BookInv, PagesFollow, offset
  <2>2. /\ last \in offset .. Len(Book) /\ Len(page) = last - offset
        /\ \A i \in 1 .. last - offset : page[i] = Book[offset + i]
    BY <1>5, <2>1
  <2>3. Len(seen) = last /\ last <= Len(Book) /\ last \in Nat
    BY <1>1, <1>6, <1>8, <2>1, <2>2
  <2>4. ASSUME NEW i \in 1 .. last PROVE seen[i] = Book[i]
    <3>1. i \in 1 .. Len(pager.seen) + Len(page)
      BY <1>1, <1>6, <2>1, <2>2
    <3>2. CASE i <= offset
      BY <1>1, <1>8, <2>1, <3>1, <3>2
    <3>3. CASE ~(i <= offset)
      <4>1. i - offset \in 1 .. last - offset /\ offset + (i - offset) = i
        BY <1>1, <2>3, <3>3
      <4>2. seen[i] = page[i - offset]
        BY <1>8, <2>1, <3>1, <3>3
      <4>3. page[i - offset] = Book[offset + (i - offset)]
        BY <2>2, <4>1
      <4> QED
        BY <4>1, <4>2, <4>3
    <3> QED
      BY <3>2, <3>3
  <2> QED
    BY <2>3, <2>4
<1>15. ASSUME ~pager.shifted, ~(offset + PageSize < Len(rows)) PROVE ToSet(rows) \subseteq ToSet(seen)
  <2>1. Len(seen) = Len(Book) /\ \A i \in 1 .. Len(Book) : seen[i] = Book[i]
    BY <1>7, <1>14, <1>15
  <2>2. DOMAIN seen = 1 .. Len(Book) /\ DOMAIN Book = 1 .. Len(Book)
    BY <1>2, <1>8, <2>1, LenProperties
  <2>3. ToSet(seen) = ToSet(Book)
    BY <2>1, <2>2 DEF ToSet
  <2> QED
    BY <1>2, <2>3
<1>16. PagesFollow'
  <2>1. pager'.began \subseteq ToSet(rows')
    BY <1>1, <1>11
  <2>2. ASSUME ~pager.shifted
        PROVE  /\ Len(seen) <= Len(Book) /\ \A i \in 1 .. Len(seen) : seen[i] = Book[i]
               /\ pager'.on => pager'.offset = Len(seen)
               /\ ~pager'.on => pager.began \subseteq ToSet(seen)
    BY <1>1, <1>7, <1>11, <1>14, <1>15, <2>2
  <2> QED
    BY <1>3, <1>11, <2>1, <2>2 DEF PagesFollow
<1> QED
  BY <1>12, <1>13, <1>16 DEF BookInv

-----------------------------------------------------------------------------
LEMMA BookShows ==
  ASSUME BookInv
  PROVE  ReadersMissOnlyTheLate
<1>1. /\ tail.sent \in Seq(AllReceipts) /\ pager.seen \in Seq(AllReceipts)
      /\ rows \in Seq(AllReceipts) /\ stamp \in [AllReceipts -> Nat] /\ Distinct(rows)
  BY DEF BookInv, BookShape, Tails, Pagers
<1>2. NoRepeats(tail.sent)
  BY <1>1, DistinctCounts DEF BookInv, TailFollows
<1>3. \A i, j \in DOMAIN tail.sent : i < j => stamp[tail.sent[i]] <= stamp[tail.sent[j]]
  BY DEF BookInv, TailFollows, InOrder
<1>4. ASSUME tail.found = <<>>, NEW r \in tail.polled, stamp[r] > tail.from
      PROVE  r \in ToSet(tail.sent) \cup late
  <2>1. ToSet(tail.found) = {}
    BY <1>4 DEF ToSet
  <2> QED
    BY <1>4, <2>1 DEF BookInv, TailFollows
<1>5. ASSUME ~pager.shifted PROVE NoRepeats(pager.seen)
  <2>1. Book \in Seq(AllReceipts) /\ Distinct(Book)
    BY <1>1, BookIs DEF Book
  <2>2. Len(pager.seen) <= Len(Book) /\ \A i \in 1 .. Len(pager.seen) : pager.seen[i] = Book[i]
    BY <1>5 DEF BookInv, PagesFollow
  <2> HIDE DEF Book
  <2>3. /\ DOMAIN pager.seen = 1 .. Len(pager.seen) /\ DOMAIN Book = 1 .. Len(Book)
        /\ Len(pager.seen) \in Nat /\ Len(Book) \in Nat
    BY <1>1, <2>1, LenProperties
  <2>4. Distinct(pager.seen)
    BY <2>1, <2>2, <2>3 DEF Distinct
  <2> QED
    BY <1>1, <2>4, DistinctCounts
<1>6. ~pager.on /\ pager.seen # <<>> /\ ~pager.shifted => pager.began \subseteq ToSet(pager.seen)
  BY DEF BookInv, PagesFollow
<1> QED
  BY <1>2, <1>3, <1>4, <1>5, <1>6 DEF ReadersMissOnlyTheLate

(***************************************************************************)
(* However receipts are stamped, stored and imported while a client reads, *)
(* the tail sends nothing twice and in the order of the stamps, leaving    *)
(* out of what its queries could see only what was stored late, and the    *)
(* pages repeat nothing and miss nothing of what they began with, unless a *)
(* receipt was stored before the end of the order                          *)
(* (_tail_new_receipts, list_receipts).                                    *)
(***************************************************************************)
THEOREM ReadersMissOnlyWhatIsLate == BookSpec => []ReadersMissOnlyTheLate
<1>0. BookAssumption
  BY BookAssumption
<1>1. BookInit => BookInv
  BY <1>0, BookBegins
<1>2. BookInv /\ [BookNext]_bookVars => BookInv'
  <2> SUFFICES ASSUME BookInv, [BookNext]_bookVars PROVE BookInv'
    OBVIOUS
  <2>1. ASSUME NEW r \in Fresh, Stamp(r) PROVE BookInv'
    BY <2>1, StampKeeps
  <2>2. ASSUME NEW r \in Fresh, Emit(r) PROVE BookInv'
    <3>1. r \in AllReceipts /\ stamp[r] # 0 /\ Store(r)
      BY <2>2 DEF Emit, AllReceipts
    <3>2. stamp' = stamp /\ now' = now /\ tail' = tail /\ importing' \in Seq(ToSet(Exported))
      BY <2>2 DEF Emit, BookInv, BookShape
    <3> QED
      BY <3>1, <3>2, StoreKeeps
  <2>3. ASSUME BeginImport PROVE BookInv'
    <3>1. /\ rows' = rows /\ tail' = tail /\ pager' = pager /\ late' = late /\ stamp' = stamp /\ now' = now
          /\ importing' = Exported
      BY <2>3 DEF BeginImport
    <3>2. Exported \in Seq(ToSet(Exported))
      BY <1>0, LenProperties DEF BookAssumption, ToSet
    <3>3. BookShape'
      BY <3>1, <3>2 DEF BookInv, BookShape
    <3> QED
      BY <3>1, <3>3, BookRests
  <2>4. ASSUME ImportRow PROVE BookInv'
    <3>1. importing \in Seq(ToSet(Exported)) /\ importing # <<>>
      BY <2>4 DEF ImportRow, BookInv, BookShape
    <3>2. Head(importing) \in ToSet(Exported) /\ Tail(importing) \in Seq(ToSet(Exported))
      BY <3>1, TailIs
    <3>3. Head(importing) \in AllReceipts /\ stamp[Head(importing)] # 0
      BY <3>2 DEF AllReceipts, BookInv, BookShape
    <3>4. /\ Store(Head(importing)) /\ stamp' = stamp /\ now' = now /\ tail' = tail
          /\ importing' \in Seq(ToSet(Exported))
      BY <2>4, <3>2 DEF ImportRow
    <3> QED
      BY <3>3, <3>4, StoreKeeps
  <2>5. ASSUME KillImport PROVE BookInv'
    <3>1. /\ rows' = rows /\ tail' = tail /\ pager' = pager /\ late' = late /\ stamp' = stamp /\ now' = now
          /\ importing' = <<>>
      BY <2>5 DEF KillImport
    <3>2. BookShape'
      BY <3>1 DEF BookInv, BookShape
    <3> QED
      BY <3>1, <3>2, BookRests
  <2>6. ASSUME RecordOutcome \/ UNCHANGED bookVars PROVE BookInv'
    <3>1. /\ rows' = rows /\ tail' = tail /\ pager' = pager /\ late' = late /\ stamp' = stamp /\ now' = now
          /\ importing' = importing
      BY <2>6 DEF RecordOutcome, bookVars
    <3>2. BookShape'
      BY <3>1 DEF BookInv, BookShape
    <3> QED
      BY <3>1, <3>2, BookRests
  <2>7. ASSUME BookTick PROVE BookInv'
    <3>1. /\ rows' = rows /\ tail' = tail /\ pager' = pager /\ late' = late /\ stamp' = stamp /\ now' = now + 1
          /\ importing' = importing
      BY <2>7 DEF BookTick
    <3>2. BookShape'
      BY <3>1 DEF BookInv, BookShape
    <3> QED
      BY <3>1, <3>2, BookRests
  <2>8. ASSUME Subscribe PROVE BookInv'
    BY <2>8, SubscribeKeeps
  <2>9. ASSUME Poll PROVE BookInv'
    BY <2>9, PollKeeps
  <2>10. ASSUME SendNext PROVE BookInv'
    BY <2>10, SendKeeps
  <2>11. ASSUME BeginPages PROVE BookInv'
    BY <2>11, BeginPagesKeeps
  <2>12. ASSUME NextPage PROVE BookInv'
    BY <1>0, <2>12, NextPageKeeps
  <2> QED
    BY <2>1, <2>2, <2>3, <2>4, <2>5, <2>6, <2>7, <2>8, <2>9, <2>10, <2>11, <2>12 DEF BookNext
<1>3. BookInv => ReadersMissOnlyTheLate
  BY BookShows
<1> QED
  BY <1>1, <1>2, <1>3, PTL DEF BookSpec
=============================================================================
