------------------------ MODULE SearchPurchaseProofs ------------------------
(***************************************************************************)
(* What SearchPurchase guarantees for any number of requests, payments,    *)
(* jobs, concurrent calls and restarts: its types and a job's commitment;  *)
(* that the supplier is called once for a purchase, for a payment that is  *)
(* final; that what customers paid is accounted for; and that the books    *)
(* the operator is shown match the chain.                                  *)
(***************************************************************************)
EXTENDS SearchMetrics

-----------------------------------------------------------------------------
(***************************************************************************)
(* The inductive invariant.  First the life of a purchase: it is paying,   *)
(* then it is rejected, because its payment has become impossible or       *)
(* unproven, or the supplier has been called, once, for a payment that is  *)
(* final, whose transaction the row names.  What is no longer settling has *)
(* its result, or is owed or refunded its price.                           *)
(***************************************************************************)
PurchaseRows ==
  [state : States, pay : Payments \cup {None}, tx : Transactions, cogs : Nat \cup {None},
   fees : Nat \cup {None}, liability : Nat, refunds : Nat, credits : Nat, result : BOOLEAN,
   unproven : BOOLEAN]

Early    == {"RESERVED", "VERIFYING", "SETTLING"}
Paying   == Early \cup {"PAYMENT_UNKNOWN", "FINALITY_PENDING"}
Supplied == {"SUPPLIER_INFLIGHT", "SUPPLIER_UNKNOWN", "SERVICE_FAILED", "DELIVERED", "RESOLVED"}
Closed   == {"DELIVERED", "RESOLVED"}

\* Its price is not lost: the result is there, or the price is owed or refunded.
Kept(bought) == bought.result \/ bought.liability + bought.refunds >= Price

PurchaseSound(r) ==
  /\ State(r) \in Supplied =>
       supplied[r] = 1 /\ chain[purchases[r].pay] = "final" /\ purchases[r].tx # None
  /\ State(r) \notin Supplied => supplied[r] = 0
  /\ State(r) = "PAYMENT_REJECTED" =>
       purchases[r].unproven \/ chain[purchases[r].pay] = "expired"
  /\ purchases[r].unproven => State(r) = "PAYMENT_REJECTED"
  /\ State(r) \notin Early \cup {"none", "PAYMENT_REJECTED"} => Kept(purchases[r])

PurchasesSound == \A r \in Requests : PurchaseSound(r)

(***************************************************************************)
(* A job is charged for its purchases that were not rejected, within its   *)
(* budget, and buys a query by one purchase at a time.                     *)
(***************************************************************************)
Charged(j) == {r \in Requests : JobOf[r] = j /\ State(r) \notin {"none", "PAYMENT_REJECTED"}}

InProgress(r) == State(r) \notin {"none", "PAYMENT_REJECTED", "RESOLVED", "DELIVERED"}

JobsCharged ==
  \A j \in Jobs : /\ committed[j] = Price * Cardinality(Charged(j))
                  /\ Budget[j] # None => committed[j] <= Budget[j]

OneAtATime ==
  \A x, y \in Requests :
    InProgress(x) /\ InProgress(y) /\ JobOf[x] = JobOf[y] /\ QueryOf[x] = QueryOf[y] => x = y

(***************************************************************************)
(* A payment is bound to one purchase or observed, not both, and only when *)
(* a call brought it.  What is observed as settled for a request's         *)
(* purchase is recorded as an extra payment first; only what is final is   *)
(* settled, and only what is settled is refunded.                          *)
(***************************************************************************)
OneEach ==
  \A r, x \in Requests : Exists(r) /\ purchases[x].pay = purchases[r].pay => x = r

PaymentSound(p) ==
  /\ observed[p].state = "none" => observed[p] = NotObserved
  /\ ~(Bound(p) /\ observed[p].state # "none")
  /\ p \in arrived <=> Bound(p) \/ observed[p].state # "none"
  /\ observed[p].state = "NOT_SETTLED" => chain[p] = "expired"
  /\ observed[p].state = "SETTLED" /\ observed[p].purchase # None => "settled" \in extra[p]
  /\ extra[p] # {} => observed[p].state # "none" /\ observed[p].purchase # None
  /\ "refunded" \in extra[p] => "settled" \in extra[p]
  /\ observed[p].state = "REFUNDED" => observed[p].purchase = None
  /\ "settled" \in extra[p] \/ observed[p].state \in {"SETTLED", "REFUNDED"} => chain[p] = "final"

PaymentsSound == \A p \in Payments : PaymentSound(p)

(***************************************************************************)
(* What a task relies on across its awaits.                                *)
(***************************************************************************)
Observing == {"observe", "confirm observed", "exclude observed", "record observed",
              "resolve observed"}
Recovering == {"find recovered", "confirm recovered", "exclude recovered"}
Advancing == {"advance", "verify", "find after error", "find after refusal", "settle", "confirm",
              "search", "deliver", "fail"} \cup Recovering

\* What a task is about, by its place.
TaskOK(place, r, p) ==
  \/ place = "idle" /\ r = None /\ p = None
  \/ place \in Observing /\ r \in Requests \cup {None} /\ p \in Payments
  \/ place \in Advancing /\ r \in Requests /\ p = None

TaskSound(t) ==
  /\ on[t] # None => on[t] \in Requests /\ Exists(on[t])
  /\ about[t] # None => about[t] \in Payments /\ observed[about[t]].state # "none"
  /\ pc[t] = "resolve observed" =>
       observed[about[t]].purchase = None \/ "settled" \in extra[about[t]]
  /\ pc[t] = "record observed" => observed[about[t]].purchase # None
  /\ pc[t] \in {"record observed", "resolve observed"} => chain[about[t]] = "final"

TasksSound ==
  /\ pc \in [Tasks -> {"idle"} \cup Observing \cup Advancing]
  /\ on \in [Tasks -> Requests \cup {None}]
  /\ about \in [Tasks -> Payments \cup {None}]
  /\ \A t \in Tasks : TaskSound(t)
  /\ pc[Loop] \in Recovering => row.state \in Recoverable
  /\ \A r \in Requests : aliases[r] # None => Exists(aliases[r])

IInv ==
  /\ TypeOK
  /\ PurchasesSound
  /\ JobsCharged
  /\ OneAtATime
  /\ OneEach
  /\ PaymentsSound
  /\ TasksSound

-----------------------------------------------------------------------------
(***************************************************************************)
(* What a compare-and-set writes, for each set of columns it is given.     *)
(***************************************************************************)
Rewritten(old, state, changes) == Updated([old EXCEPT !.state = state], changes)

LEMMA RewrittenRow ==
  ASSUME NEW old \in PurchaseRows, NEW s \in States,
         NEW changes \in {NoChange, [result |-> TRUE, liability |-> 0],
                          [cogs |-> 0, fees |-> RealizedFee, liability |-> 0], Refused}
                           \cup {PaymentUnknown(tx) : tx \in Transactions}
                           \cup {FinalityPending(tx) : tx \in Transactions}
                           \cup {[cogs |-> c] : c \in Costs \cup {None}}
  PROVE  /\ Rewritten(old, s, changes) \in PurchaseRows
         /\ Rewritten(old, s, changes).state = s
         /\ Rewritten(old, s, changes).pay = old.pay
         /\ Rewritten(old, s, changes).refunds = old.refunds
         /\ "tx" \notin DOMAIN changes => Rewritten(old, s, changes).tx = old.tx
         /\ changes # Refused => Rewritten(old, s, changes).unproven = old.unproven
         /\ changes = Refused => Rewritten(old, s, changes).unproven
<1> DEFINE new == Rewritten(old, s, changes)
<1> USE SearchAssumption DEF PurchaseRows, Rewritten, Updated
<1>1. ASSUME changes = NoChange
      PROVE  new \in PurchaseRows /\ new.state = s /\ new.pay = old.pay /\ new.refunds = old.refunds
  BY <1>1 DEF NoChange
<1>2. ASSUME changes = [result |-> TRUE, liability |-> 0]
      PROVE  new \in PurchaseRows /\ new.state = s /\ new.pay = old.pay /\ new.refunds = old.refunds
  BY <1>2
<1>3. ASSUME changes = [cogs |-> 0, fees |-> RealizedFee, liability |-> 0]
      PROVE  new \in PurchaseRows /\ new.state = s /\ new.pay = old.pay /\ new.refunds = old.refunds
  BY <1>3
<1>4. ASSUME NEW tx \in Transactions, changes = PaymentUnknown(tx)
      PROVE  new \in PurchaseRows /\ new.state = s /\ new.pay = old.pay /\ new.refunds = old.refunds
  BY <1>4 DEF PaymentUnknown
<1>5. ASSUME NEW tx \in Transactions, changes = FinalityPending(tx)
      PROVE  new \in PurchaseRows /\ new.state = s /\ new.pay = old.pay /\ new.refunds = old.refunds
  BY <1>5 DEF FinalityPending
<1>6. ASSUME NEW c \in Costs \cup {None}, changes = [cogs |-> c]
      PROVE  new \in PurchaseRows /\ new.state = s /\ new.pay = old.pay /\ new.refunds = old.refunds
  BY <1>6
<1>7. "tx" \notin DOMAIN changes => new.tx = old.tx
  OBVIOUS
<1>8. ASSUME changes = Refused
      PROVE  new \in PurchaseRows /\ new.state = s /\ new.pay = old.pay /\ new.refunds = old.refunds /\ new.unproven
  BY <1>8 DEF Refused
<1>9. "unproven" \in DOMAIN changes => changes = Refused
  BY DEF NoChange, PaymentUnknown, FinalityPending
<1>10. "unproven" \notin DOMAIN changes => new.unproven = old.unproven
  OBVIOUS
<1>11. "unproven" \in DOMAIN Refused
  BY DEF Refused
<1>12. changes # Refused => new.unproven = old.unproven
  BY <1>9, <1>10
<1> QED
  BY <1>1, <1>2, <1>3, <1>4, <1>5, <1>6, <1>7, <1>8, <1>12

(***************************************************************************)
(* The price of a purchase is kept when the liability is, or is set to it, *)
(* or when there is a result.                                              *)
(***************************************************************************)
LEMMA RewrittenKeeps ==
  ASSUME NEW old \in PurchaseRows, NEW s \in States
  PROVE  /\ Kept(old) => Kept(Rewritten(old, s, NoChange))
         /\ Kept(Rewritten(old, s, [result |-> TRUE, liability |-> 0]))
         /\ \A tx \in Transactions : Kept(Rewritten(old, s, PaymentUnknown(tx)))
         /\ \A tx \in Transactions : Kept(Rewritten(old, s, FinalityPending(tx)))
         /\ \A c \in Costs \cup {None} : Kept(old) => Kept(Rewritten(old, s, [cogs |-> c]))
<1> USE SearchAssumption DEF PurchaseRows, Rewritten, Updated, Kept
<1>1. Kept(old) => Kept(Rewritten(old, s, NoChange))
  BY DEF NoChange
<1>2. Kept(Rewritten(old, s, [result |-> TRUE, liability |-> 0]))
  OBVIOUS
<1>3. \A tx \in Transactions : Kept(Rewritten(old, s, PaymentUnknown(tx)))
  BY DEF PaymentUnknown
<1>4. \A tx \in Transactions : Kept(Rewritten(old, s, FinalityPending(tx)))
  BY DEF FinalityPending
<1>5. \A c \in Costs \cup {None} : Kept(old) => Kept(Rewritten(old, s, [cogs |-> c]))
  OBVIOUS
<1> QED
  BY <1>1, <1>2, <1>3, <1>4, <1>5

-----------------------------------------------------------------------------
(***************************************************************************)
(* How one purchase may move: to a later state of its payment, to the      *)
(* supplier, among the states after it, or to the end of a payment that    *)
(* has become impossible or is taken to be.                                *)
(***************************************************************************)
Becomes(r, new) ==
  /\ Exists(r) /\ new \in PurchaseRows
  /\ purchases' = [purchases EXCEPT ![r] = new]
  /\ new.pay = purchases[r].pay
  /\ new.state \notin Early \cup {"PAYMENT_REJECTED"} => Kept(new)
  /\ new.state \in Supplied => new.tx # None
  /\ new.unproven => new.state = "PAYMENT_REJECTED"
  /\ new.state = "PAYMENT_REJECTED" => new.unproven \/ chain[purchases[r].pay] = "expired"

PaymentMoves(r, new) ==
  /\ State(r) \in Paying /\ new.state \in Paying
  /\ UNCHANGED <<committed, supplied>>

IsDispatched(r, new) ==
  /\ State(r) = "FINALITY_PENDING" /\ new.state = "SUPPLIER_INFLIGHT"
  /\ chain[purchases[r].pay] = "final"
  /\ supplied' = [supplied EXCEPT ![r] = @ + 1]
  /\ UNCHANGED committed

SupplyMoves(r, new) ==
  /\ State(r) \in Supplied /\ new.state \in Supplied
  /\ State(r) \in Closed => new.state \in Closed
  /\ UNCHANGED <<committed, supplied>>

IsRejected(r, new) ==
  /\ State(r) \in Paying /\ new.state = "PAYMENT_REJECTED"
  /\ committed' = [committed EXCEPT ![JobOf[r]] = @ - Price]
  /\ UNCHANGED supplied

StaysRejected(r, new) ==
  /\ State(r) = "PAYMENT_REJECTED" /\ new.state = "PAYMENT_REJECTED"
  /\ UNCHANGED <<committed, supplied>>

RowMove(r) ==
  \E new \in PurchaseRows :
    /\ Becomes(r, new)
    /\ \/ PaymentMoves(r, new) \/ IsDispatched(r, new) \/ SupplyMoves(r, new)
       \/ IsRejected(r, new) \/ StaysRejected(r, new)

NoRowMoves == UNCHANGED <<purchases, committed, supplied>>

PurchaseStep ==
  \/ NoRowMoves
  \/ \E r \in Requests : RowMove(r) /\ UNCHANGED chain
  \/ \E t \in Calls, r \in Requests, p \in Payments : Reserve(t, r, p)
  \/ Restart

LEMMA RowsOf ==
  ASSUME TypeOK
  PROVE  purchases \in [Requests -> PurchaseRows]
BY DEF TypeOK, PurchaseRows

(***************************************************************************)
(* A compare-and-set changes the row it expects, and no other.             *)
(***************************************************************************)
LEMMA TransitionIs ==
  ASSUME TypeOK, NEW r \in Requests, NEW expected, NEW target, NEW changes,
         Transition(r, expected, target, changes)
  PROVE  /\ State(r) # expected => UNCHANGED <<purchases, committed>>
         /\ State(r) = expected =>
              purchases' = [purchases EXCEPT ![r] = Rewritten(purchases[r], target, changes)]
         /\ State(r) = expected /\ target # "PAYMENT_REJECTED" => UNCHANGED committed
         /\ State(r) = expected /\ target = "PAYMENT_REJECTED" =>
              committed' = [committed EXCEPT ![JobOf[r]] = @ - Price]
<1>1. ASSUME State(r) # expected
      PROVE  UNCHANGED <<purchases, committed>>
  BY <1>1 DEF Transition, Moves
<1>2. ASSUME State(r) = expected
      PROVE  /\ purchases' = [purchases EXCEPT ![r] = Rewritten(purchases[r], target, changes)]
             /\ committed' = [committed EXCEPT ![JobOf[r]] = @ - Released(target)]
  BY <1>2 DEF Transition, Moves, Rewritten
<1>3. committed \in [Jobs -> Nat] /\ JobOf[r] \in Jobs
  BY SearchAssumption DEF TypeOK
<1>4. [committed EXCEPT ![JobOf[r]] = @ - 0] = committed
  BY <1>3
<1> QED
  BY <1>1, <1>2, <1>4 DEF Released

\* Only a rejected purchase is unproven.
LEMMA ProvenStates ==
  ASSUME IInv, NEW r \in Requests, State(r) # "PAYMENT_REJECTED"
  PROVE  ~purchases[r].unproven
BY DEF IInv, PurchasesSound, PurchaseSound

(***************************************************************************)
(* A purchase may be rejected as unproven, or as one whose payment has     *)
(* become impossible.                                                      *)
(***************************************************************************)
LEMMA RejectedTransition ==
  ASSUME IInv, NEW r \in Requests, NEW expected \in Paying,
         NEW changes \in {[cogs |-> 0, fees |-> RealizedFee, liability |-> 0], Refused},
         changes # Refused => chain[purchases[r].pay] = "expired",
         Transition(r, expected, "PAYMENT_REJECTED", changes), UNCHANGED supplied
  PROVE  NoRowMoves \/ RowMove(r)
<1> DEFINE new == Rewritten(purchases[r], "PAYMENT_REJECTED", changes)
<1>1. /\ TypeOK /\ purchases[r] \in PurchaseRows /\ "PAYMENT_REJECTED" \in States
      /\ State(r) = expected \/ State(r) # expected
  BY RowsOf DEF IInv, States
<1>2. CASE State(r) # expected
  BY <1>1, <1>2, TransitionIs DEF NoRowMoves
<1>3. CASE State(r) = expected
  <2>1. /\ purchases' = [purchases EXCEPT ![r] = new]
        /\ committed' = [committed EXCEPT ![JobOf[r]] = @ - Price]
    BY <1>1, <1>3, TransitionIs
  <2>2. /\ new \in PurchaseRows /\ new.state = "PAYMENT_REJECTED"
        /\ new.pay = purchases[r].pay
        /\ changes = Refused => new.unproven
    BY <1>1, RewrittenRow
  <2> HIDE DEF new
  <2>3. new.unproven \/ chain[purchases[r].pay] = "expired"
    BY <2>2
  <2>4. Becomes(r, new)
    BY <1>3, <2>1, <2>2, <2>3 DEF Becomes, Exists, State, Paying, Early, Supplied
  <2>5. IsRejected(r, new)
    BY <1>3, <2>1, <2>2 DEF IsRejected
  <2> QED
    BY <2>2, <2>4, <2>5 DEF RowMove
<1> QED
  BY <1>2, <1>3

(***************************************************************************)
(* A compare-and-set to a state of the payment, which keeps the price.     *)
(***************************************************************************)
LEMMA PaymentTransition ==
  ASSUME IInv, NEW r \in Requests, NEW expected \in Paying, NEW target \in Paying,
         NEW changes \in {NoChange} \cup {PaymentUnknown(tx) : tx \in Transactions}
                           \cup {FinalityPending(tx) : tx \in Transactions},
         changes = NoChange => target \in Early,
         Transition(r, expected, target, changes), UNCHANGED supplied
  PROVE  NoRowMoves \/ RowMove(r)
<1> DEFINE new == Rewritten(purchases[r], target, changes)
<1>1. TypeOK /\ purchases[r] \in PurchaseRows /\ target \in States
  BY RowsOf DEF IInv, Paying, Early, States
<1>2. CASE State(r) # expected
  BY <1>1, <1>2, TransitionIs DEF NoRowMoves
<1>3. CASE State(r) = expected
  <2>1. purchases' = [purchases EXCEPT ![r] = new] /\ UNCHANGED committed
    BY <1>1, <1>3, TransitionIs DEF Paying, Early
  <2>2. /\ new \in PurchaseRows /\ new.state = target /\ new.pay = purchases[r].pay
        /\ ~new.unproven
    <3>1. changes # Refused
      BY DEF NoChange, PaymentUnknown, FinalityPending, Refused
    <3>2. ~purchases[r].unproven
      BY <1>3, ProvenStates DEF Paying, Early
    <3> QED
      BY <1>1, <3>1, <3>2, RewrittenRow
  <2>3. target \notin Early => Kept(new)
    BY <1>1, RewrittenKeeps
  <2> HIDE DEF new
  <2>4. Becomes(r, new)
    BY <1>3, <2>1, <2>2, <2>3 DEF Becomes, Exists, State, Paying, Early, Supplied
  <2>5. PaymentMoves(r, new)
    BY <1>3, <2>1, <2>2 DEF PaymentMoves
  <2> QED
    BY <2>2, <2>4, <2>5 DEF RowMove
<1> QED
  BY <1>2, <1>3

(***************************************************************************)
(* A compare-and-set after the supplier's call.                            *)
(***************************************************************************)
LEMMA SupplyTransition ==
  ASSUME IInv, NEW r \in Requests, NEW target \in Supplied,
         NEW changes \in {NoChange, [result |-> TRUE, liability |-> 0]}
                           \cup {[cogs |-> c] : c \in Costs \cup {None}},
         Transition(r, "SUPPLIER_INFLIGHT", target, changes), UNCHANGED supplied
  PROVE  NoRowMoves \/ RowMove(r)
<1> DEFINE new == Rewritten(purchases[r], target, changes)
<1>1. TypeOK /\ purchases[r] \in PurchaseRows /\ target \in States
  BY RowsOf DEF IInv, Supplied, States
<1>2. CASE State(r) # "SUPPLIER_INFLIGHT"
  BY <1>1, <1>2, TransitionIs DEF NoRowMoves
<1>3. CASE State(r) = "SUPPLIER_INFLIGHT"
  <2>1. purchases' = [purchases EXCEPT ![r] = new] /\ UNCHANGED committed
    BY <1>1, <1>3, TransitionIs DEF Supplied
  <2>2. /\ new \in PurchaseRows /\ new.state = target /\ new.pay = purchases[r].pay
        /\ new.tx = purchases[r].tx /\ ~new.unproven
    <3>1. "tx" \notin DOMAIN changes /\ changes # Refused
      BY DEF NoChange, Refused
    <3>2. ~purchases[r].unproven
      BY <1>3, ProvenStates
    <3> QED
      BY <1>1, <3>1, <3>2, RewrittenRow
  <2>3. Kept(purchases[r]) /\ purchases[r].tx # None
    BY <1>3 DEF IInv, PurchasesSound, PurchaseSound, Early, Supplied
  <2>4. Kept(new)
    BY <1>1, <2>3, RewrittenKeeps
  <2> HIDE DEF new
  <2>5. Becomes(r, new)
    BY <1>3, <2>1, <2>2, <2>3, <2>4 DEF Becomes, Exists, State, Supplied
  <2>6. SupplyMoves(r, new)
    BY <1>3, <2>1, <2>2 DEF SupplyMoves, Supplied, Closed
  <2> QED
    BY <2>2, <2>5, <2>6 DEF RowMove
<1> QED
  BY <1>2, <1>3

(***************************************************************************)
(* Every step moves one purchase so, makes a new one, is a restart, or     *)
(* moves none.                                                             *)
(***************************************************************************)
LEMMA ReconcileMovesNone ==
  ASSUME NEW t \in Tasks, Reconcile(t)
  PROVE  NoRowMoves
BY DEF Reconcile, FoundObserved, NotFoundObserved, ConfirmedObserved, RecordObserved,
       ResolveObserved, ExcludedObserved, UnsureObserved, NoRowMoves, store

LEMMA CallMoves ==
  ASSUME NEW t \in Calls, Call(t)
  PROVE  NoRowMoves \/ \E r \in Requests, p \in Payments : Reserve(t, r, p)
<1>1. ASSUME NEW r \in Requests, NEW p, Repeat(t, r, p) \/ ServeFromCache(t, r, p)
      PROVE  NoRowMoves
  BY <1>1 DEF Repeat, ServeFromCache, NoRowMoves
<1>2. ASSUME NEW p, Refuse(t, p)
      PROVE  NoRowMoves
  BY <1>2 DEF Refuse, NoRowMoves
<1> QED
  BY <1>1, <1>2 DEF Call

LEMMA AdvanceMoves ==
  ASSUME IInv, NEW t \in Tasks, Advance(t)
  PROVE  PurchaseStep
<1> DEFINE r == on[t]
<1>1. /\ None \in Transactions /\ "carrier" \in Transactions
      /\ {"RESERVED", "VERIFYING", "SETTLING", "PAYMENT_UNKNOWN", "FINALITY_PENDING"} \subseteq Paying
      /\ {"RESERVED", "VERIFYING", "SETTLING"} \subseteq Early
  BY DEF Transactions, Paying, Early
<1>2. pc[t] # "idle" /\ pc[t] \notin Observing => r \in Requests
  BY DEF IInv, TypeOK, Observing
<1>3. UNCHANGED chain
  BY DEF Advance, Enter, Verify, FoundVerified, NotFoundVerified, Settle, Dispatch, Unconfirmed,
         Search, Deliver, Fail
<1>4. ASSUME Enter(t)
      PROVE  PurchaseStep
  <2>1. r \in Requests /\ UNCHANGED supplied
    BY <1>2, <1>4 DEF Enter, Observing
  <2>2. CASE Transition(r, "RESERVED", "VERIFYING", NoChange)
    BY <1>1, <1>3, <2>1, <2>2, PaymentTransition DEF PurchaseStep
  <2>3. CASE UNCHANGED <<purchases, committed>>
    BY <2>1, <2>3 DEF PurchaseStep, NoRowMoves
  <2> QED
    BY <1>4, <2>2, <2>3 DEF Enter
<1>5. ASSUME Verify(t)
      PROVE  PurchaseStep
  <2>1. r \in Requests /\ UNCHANGED supplied
    BY <1>2, <1>5 DEF Verify, Observing
  <2>2. CASE Transition(r, "VERIFYING", "SETTLING", NoChange)
    BY <1>1, <1>3, <2>1, <2>2, PaymentTransition DEF PurchaseStep
  <2>3. CASE UNCHANGED <<purchases, committed>>
    BY <2>1, <2>3 DEF PurchaseStep, NoRowMoves
  <2>4. CASE Transition(r, "VERIFYING", "RESERVED", NoChange)
    BY <1>1, <1>3, <2>1, <2>4, PaymentTransition DEF PurchaseStep
  <2>5. CASE Transition(r, "VERIFYING", "PAYMENT_REJECTED", Refused)
    BY <1>1, <1>3, <2>1, <2>5, RejectedTransition DEF PurchaseStep
  <2> QED
    BY <1>5, <2>2, <2>3, <2>4, <2>5 DEF Verify
<1>6. ASSUME FoundVerified(t)
      PROVE  PurchaseStep
  <2>1. r \in Requests /\ UNCHANGED supplied
    BY <1>2, <1>6 DEF FoundVerified, Observing
  <2>2. Transition(r, "VERIFYING", "FINALITY_PENDING", FinalityPending("carrier"))
    BY <1>6 DEF FoundVerified
  <2>3. FinalityPending("carrier") # NoChange
    BY DEF FinalityPending, NoChange
  <2> QED
    BY <1>1, <1>3, <2>1, <2>2, <2>3, PaymentTransition DEF PurchaseStep
<1>7. ASSUME NotFoundVerified(t)
      PROVE  PurchaseStep
  <2>1. r \in Requests /\ UNCHANGED supplied
    BY <1>2, <1>7 DEF NotFoundVerified, Observing
  <2>2. CASE Transition(r, "VERIFYING", "RESERVED", NoChange)
    BY <1>1, <1>3, <2>1, <2>2, PaymentTransition DEF PurchaseStep
  <2>3. CASE Transition(r, "VERIFYING", RefusedIs, PaymentUnknown(None))
    <3>1. PaymentUnknown(None) # NoChange
      BY DEF PaymentUnknown, NoChange
    <3> QED
      BY <1>1, <1>3, <2>1, <2>3, <3>1, PaymentTransition DEF PurchaseStep, RefusedIs
  <2> QED
    BY <1>7, <2>2, <2>3 DEF NotFoundVerified
<1>8. ASSUME Settle(t)
      PROVE  PurchaseStep
  <2>1. r \in Requests /\ UNCHANGED supplied
    BY <1>2, <1>8 DEF Settle, Observing
  <2>2. ASSUME NEW tx \in Transactions,
               Transition(r, "SETTLING", "PAYMENT_UNKNOWN", PaymentUnknown(tx))
        PROVE  PurchaseStep
    <3>1. PaymentUnknown(tx) # NoChange
      BY DEF PaymentUnknown, NoChange
    <3> QED
      BY <1>1, <1>3, <2>1, <2>2, <3>1, PaymentTransition DEF PurchaseStep
  <2>3. CASE Transition(r, "SETTLING", "FINALITY_PENDING", FinalityPending("carrier"))
    <3>1. FinalityPending("carrier") # NoChange
      BY DEF FinalityPending, NoChange
    <3> QED
      BY <1>1, <1>3, <2>1, <2>3, <3>1, PaymentTransition DEF PurchaseStep
  <2> QED
    BY <1>8, <2>2, <2>3 DEF Settle
<1>9. ASSUME Dispatch(t)
      PROVE  PurchaseStep
  <2>1. /\ r \in Requests /\ chain[purchases[r].pay] = "final" /\ purchases[r].tx = "carrier"
        /\ Transition(r, "FINALITY_PENDING", "SUPPLIER_INFLIGHT", NoChange)
    BY <1>2, <1>9 DEF Dispatch, Observing, Confirmed, Pay
  <2>2. CASE State(r) # "FINALITY_PENDING"
    BY <1>9, <2>1, <2>2, TransitionIs DEF Dispatch, Moves, PurchaseStep, NoRowMoves, IInv
  <2>3. CASE State(r) = "FINALITY_PENDING"
    <3> DEFINE new == Rewritten(purchases[r], "SUPPLIER_INFLIGHT", NoChange)
    <3>1. purchases' = [purchases EXCEPT ![r] = new] /\ UNCHANGED committed
      BY <2>1, <2>3, TransitionIs DEF IInv
    <3>2. supplied' = [supplied EXCEPT ![r] = @ + 1]
      BY <1>9, <2>3 DEF Dispatch, Moves
    <3>3. purchases[r] \in PurchaseRows /\ Kept(purchases[r])
      BY <2>1, <2>3, RowsOf DEF IInv, PurchasesSound, PurchaseSound, Early
    <3>4. "SUPPLIER_INFLIGHT" \in States
      BY DEF States
    <3>5. /\ new \in PurchaseRows /\ new.state = "SUPPLIER_INFLIGHT"
          /\ new.pay = purchases[r].pay /\ Kept(new) /\ new.tx = "carrier" /\ ~new.unproven
      <4>1. "tx" \notin DOMAIN NoChange /\ NoChange # Refused
        BY DEF NoChange, Refused
      <4>2. ~purchases[r].unproven
        BY <2>1, <2>3, ProvenStates
      <4> QED
        BY <2>1, <3>3, <3>4, <4>1, <4>2, RewrittenRow, RewrittenKeeps
    <3> HIDE DEF new
    <3>6. Becomes(r, new)
      BY <2>3, <3>1, <3>5, SearchAssumption DEF Becomes, Exists, State
    <3>7. IsDispatched(r, new)
      BY <2>1, <2>3, <3>1, <3>2, <3>5 DEF IsDispatched
    <3> QED
      BY <1>3, <2>1, <3>5, <3>6, <3>7 DEF PurchaseStep, RowMove
  <2> QED
    BY <2>2, <2>3
<1>10. ASSUME Unconfirmed(t)
       PROVE  PurchaseStep
  BY <1>10 DEF Unconfirmed, store, PurchaseStep, NoRowMoves
<1>11. ASSUME Search(t)
       PROVE  PurchaseStep
  <2>1. r \in Requests /\ UNCHANGED supplied
    BY <1>2, <1>11 DEF Search, Observing
  <2>2. PICK c \in Costs \cup {None} :
          Transition(r, "SUPPLIER_INFLIGHT", "SUPPLIER_INFLIGHT", [cogs |-> c])
    BY <1>11 DEF Search, SupplierAnswers
  <2>3. "SUPPLIER_INFLIGHT" \in Supplied
    BY DEF Supplied
  <2> QED
    BY <1>3, <2>1, <2>2, <2>3, SupplyTransition DEF PurchaseStep
<1>12. ASSUME Deliver(t)
       PROVE  PurchaseStep
  <2>1. /\ r \in Requests /\ UNCHANGED supplied
        /\ Transition(r, "SUPPLIER_INFLIGHT", "DELIVERED", [result |-> TRUE, liability |-> 0])
    BY <1>2, <1>12 DEF Deliver, Observing
  <2>2. "DELIVERED" \in Supplied
    BY DEF Supplied
  <2> QED
    BY <1>3, <2>1, <2>2, SupplyTransition DEF PurchaseStep
<1>13. ASSUME Fail(t)
       PROVE  PurchaseStep
  <2>1. r \in Requests /\ UNCHANGED supplied
    BY <1>2, <1>13 DEF Fail, Observing
  <2>2. PICK target \in {"SERVICE_FAILED", "SUPPLIER_UNKNOWN"} :
          Transition(r, "SUPPLIER_INFLIGHT", target, NoChange)
    BY <1>13 DEF Fail
  <2>3. target \in Supplied
    BY DEF Supplied
  <2> QED
    BY <1>3, <2>1, <2>2, <2>3, SupplyTransition DEF PurchaseStep
<1> QED
  BY <1>4, <1>5, <1>6, <1>7, <1>8, <1>9, <1>10, <1>11, <1>12, <1>13 DEF Advance

LEMMA RecoverMoves ==
  ASSUME IInv, Recover
  PROVE  PurchaseStep
<1> DEFINE r == on[Loop]
<1>1. Loop \in Tasks
  BY DEF Tasks
<1>2. pc[Loop] \in Recovering => r \in Requests /\ row.state \in Recoverable
  BY <1>1 DEF IInv, TypeOK, TasksSound, Recovering
<1>3. Recoverable \subseteq Paying /\ row.tx \in Transactions
  BY DEF Recoverable, Paying, Early, IInv, TypeOK
<1>4. UNCHANGED <<chain, supplied>>
  BY DEF Recover, TakeObservation, TakeExtra, TakePurchase, FoundRecovered, NotFoundRecovered,
         ConfirmedRecovered, ExcludedRecovered, UnsureRecovered
<1>5. CASE ConfirmedRecovered
  <2>1. /\ r \in Requests /\ row.state \in Paying
        /\ Transition(r, row.state, "FINALITY_PENDING", FinalityPending(row.tx))
    BY <1>2, <1>3, <1>5 DEF ConfirmedRecovered, Recovering
  <2>2. FinalityPending(row.tx) # NoChange /\ "FINALITY_PENDING" \in Paying
    BY DEF FinalityPending, NoChange, Paying
  <2> QED
    BY <1>3, <1>4, <2>1, <2>2, PaymentTransition DEF PurchaseStep
<1>6. CASE ExcludedRecovered
  <2> DEFINE changes == [cogs |-> 0, fees |-> RealizedFee, liability |-> 0]
  <2>1. /\ r \in Requests /\ row.state \in Paying
        /\ Transition(r, row.state, "PAYMENT_REJECTED", changes)
        /\ chain[purchases[r].pay] = "expired"
    BY <1>2, <1>3, <1>6 DEF ExcludedRecovered, Recovering, Impossible, Pay
  <2> QED
    BY <1>4, <2>1, RejectedTransition DEF PurchaseStep
<1>7. CASE \/ \E p \in Payments : TakeObservation(p) \/ TakeExtra(p)
           \/ \E x \in Requests : TakePurchase(x)
           \/ FoundRecovered \/ NotFoundRecovered \/ UnsureRecovered
  BY <1>7 DEF TakeObservation, TakeExtra, TakePurchase, FoundRecovered, NotFoundRecovered,
              UnsureRecovered, store, PurchaseStep, NoRowMoves
<1> QED
  BY <1>5, <1>6, <1>7 DEF Recover

(***************************************************************************)
(* An operator moves a purchase only when it has been paid, and not        *)
(* without making its price good; or notes what a rejected one cost.       *)
(***************************************************************************)
LEMMA OperateMoves ==
  ASSUME IInv, Operate
  PROVE  PurchaseStep
<1>1. UNCHANGED <<chain, supplied>>
  BY DEF Operate
<1>2. ASSUME NEW r \in Requests, NEW cogs \in Costs \cup {0}, NEW fees \in Costs \cup {0},
             NEW refunds \in {0, Price}, NEW credits \in {0, Price},
             ResolveFinancials(r, cogs, fees, refunds, credits)
      PROVE  PurchaseStep
  <2> DEFINE old == purchases[r]
             rejected == State(r) = "PAYMENT_REJECTED"
             new == [old EXCEPT !.state = IF rejected THEN old.state ELSE IF old.result THEN "DELIVERED"
                                            ELSE "RESOLVED",
                                !.cogs = cogs, !.fees = fees, !.refunds = refunds,
                                !.credits = credits, !.liability = credits]
  <2>1. old \in PurchaseRows
    BY RowsOf DEF IInv
  <2>2. /\ rejected \/ Paid(r)
        /\ ~rejected => Fulfilled(r, refunds, credits)
        /\ purchases' = [purchases EXCEPT ![r] = new]
        /\ UNCHANGED committed
    BY <1>2 DEF ResolveFinancials
  <2>3. cogs \in Nat /\ fees \in Nat /\ refunds \in Nat /\ credits \in Nat
    BY SearchAssumption
  <2>4. /\ new \in PurchaseRows /\ new.pay = old.pay /\ new.tx = old.tx
        /\ new.unproven = old.unproven
    BY <2>1, <2>3 DEF PurchaseRows, States
  <2>5. new.state = IF rejected THEN "PAYMENT_REJECTED" ELSE IF old.result THEN "DELIVERED"
                                                         ELSE "RESOLVED"
    BY <2>1 DEF PurchaseRows, State
  <2>6. ~rejected => Kept(new)
    <3>1. ~rejected => old.result \/ refunds + credits >= Price
      BY <2>2 DEF Fulfilled
    <3>2. new.result = old.result /\ new.liability = credits /\ new.refunds = refunds
      BY <2>1 DEF PurchaseRows
    <3> HIDE DEF new, old, rejected
    <3> QED
      BY <2>3, <3>1, <3>2, SearchAssumption DEF Kept
  <2> HIDE DEF new
  <2>10. /\ old.unproven => rejected
         /\ rejected => old.unproven \/ chain[old.pay] = "expired"
    BY DEF IInv, PurchasesSound, PurchaseSound
  <2>7. Becomes(r, new)
    BY <2>2, <2>4, <2>5, <2>6, <2>10 DEF Becomes, Exists, State, Paid, Supplied
  <2>8. CASE rejected
    BY <1>1, <2>2, <2>4, <2>5, <2>7, <2>8 DEF StaysRejected, PurchaseStep, RowMove
  <2>9. CASE ~rejected
    <3>1. SupplyMoves(r, new)
      BY <1>1, <2>2, <2>5, <2>9 DEF SupplyMoves, Paid, Supplied, Closed
    <3> QED
      BY <1>1, <2>4, <2>7, <3>1 DEF PurchaseStep, RowMove
  <2> QED
    BY <2>8, <2>9
<1>3. ASSUME NEW r \in Requests, NEW cogs \in Costs, ReconcileResult(r, cogs)
      PROVE  PurchaseStep
  <2> DEFINE old == purchases[r]
             new == [old EXCEPT !.state = "DELIVERED", !.result = TRUE, !.cogs = cogs,
                                !.liability = 0]
  <2>1. old \in PurchaseRows /\ cogs \in Nat
    BY RowsOf, SearchAssumption DEF IInv
  <2>2. /\ State(r) \in {"SUPPLIER_UNKNOWN", "SERVICE_FAILED"} /\ old.tx # None
        /\ purchases' = [purchases EXCEPT ![r] = new] /\ UNCHANGED committed
    BY <1>3 DEF ReconcileResult
  <2>3. /\ new \in PurchaseRows /\ new.pay = old.pay /\ new.state = "DELIVERED" /\ new.result
        /\ new.tx = old.tx /\ new.unproven = old.unproven
    BY <2>1 DEF PurchaseRows, States
  <2>6. ~old.unproven
    BY <2>2, ProvenStates
  <2> HIDE DEF new
  <2>4. Becomes(r, new)
    BY <2>2, <2>3, <2>6 DEF Becomes, Exists, State, Kept
  <2>5. SupplyMoves(r, new)
    BY <1>1, <2>2, <2>3 DEF SupplyMoves, Supplied, Closed
  <2> QED
    BY <1>1, <2>3, <2>4, <2>5 DEF PurchaseStep, RowMove
<1>4. ASSUME NEW p \in Payments, ReconcileExtraRefund(p) \/ ReconcileUnfulfilledRefund(p)
      PROVE  PurchaseStep
  BY <1>1, <1>4 DEF ReconcileExtraRefund, ReconcileUnfulfilledRefund, PurchaseStep, NoRowMoves
<1> QED
  BY <1>2, <1>3, <1>4 DEF Operate

LEMMA StepOfPurchases ==
  ASSUME IInv, [Next]_vars
  PROVE  PurchaseStep
<1>1. CASE ChainMoves
  BY <1>1 DEF ChainMoves, store, PurchaseStep, NoRowMoves
<1>2. CASE UNCHANGED vars
  BY <1>2 DEF vars, store, PurchaseStep, NoRowMoves
<1>3. CASE Restart
  BY <1>3 DEF PurchaseStep
<1>4. ASSUME NEW t \in Calls, Call(t)
      PROVE  PurchaseStep
  BY <1>4, CallMoves DEF PurchaseStep
<1>5. ASSUME NEW t \in Tasks, Reconcile(t) \/ Advance(t)
      PROVE  PurchaseStep
  BY <1>5, ReconcileMovesNone, AdvanceMoves DEF PurchaseStep
<1> QED
  BY <1>1, <1>2, <1>3, <1>4, <1>5, RecoverMoves, OperateMoves DEF Next

-----------------------------------------------------------------------------
(***************************************************************************)
(* What is final, or expired, on the chain stays so.                       *)
(***************************************************************************)
LEMMA ChainStep ==
  ASSUME IInv, [Next]_vars
  PROVE  /\ chain' \in [Payments -> {"unused", "included", "final", "expired"}]
         /\ \A p \in Payments : chain[p] \in {"final", "expired"} => chain'[p] = chain[p]
<1> USE DEF IInv, TypeOK
<1>1. CASE ChainMoves
  BY <1>1 DEF ChainMoves, Include, Reorg, Finalize, Expire
<1>2. CASE UNCHANGED chain
  BY <1>2
<1> HIDE DEF IInv, TypeOK
<1>3. ASSUME NEW t, Reconcile(t)
      PROVE  UNCHANGED chain
  BY <1>3 DEF Reconcile, FoundObserved, NotFoundObserved, ConfirmedObserved, RecordObserved,
              ResolveObserved, ExcludedObserved, UnsureObserved
<1>4. ASSUME NEW t, Advance(t)
      PROVE  UNCHANGED chain
  BY <1>4 DEF Advance, Enter, Verify, FoundVerified, NotFoundVerified, Settle, Dispatch,
              Unconfirmed, Search, Deliver, Fail
<1>5. ASSUME NEW t, Call(t)
      PROVE  UNCHANGED chain
  BY <1>5 DEF Call, Repeat, ServeFromCache, Reserve, Refuse
<1>6. ASSUME Recover
      PROVE  UNCHANGED chain
  BY <1>6 DEF Recover, TakeObservation, TakeExtra, TakePurchase, FoundRecovered,
              NotFoundRecovered, ConfirmedRecovered, ExcludedRecovered, UnsureRecovered
<1> QED
  BY <1>1, <1>2, <1>3, <1>4, <1>5, <1>6 DEF Next, Restart, Operate, vars

(***************************************************************************)
(* What each kind of purchase step does to the rows.                       *)
(***************************************************************************)
LEMMA NewPurchase ==
  ASSUME IInv, NEW t \in Calls, NEW r \in Requests, NEW p \in Payments, Reserve(t, r, p)
  PROVE  /\ State(r) = "none" /\ purchases' = [purchases EXCEPT ![r] = Reserved(p)]
         /\ Reserved(p) \in PurchaseRows /\ Reserved(p).state = "RESERVED" /\ Reserved(p).pay = p
         /\ ~Reserved(p).unproven
         /\ committed' = [committed EXCEPT ![JobOf[r]] = @ + Price]
         /\ UNCHANGED <<chain, supplied>>
<1>1. State(r) = "none"
  BY SearchAssumption DEF Reserve, Served, Exists, State
<1>2. /\ Reserved(p) \in PurchaseRows /\ Reserved(p).state = "RESERVED" /\ Reserved(p).pay = p
      /\ ~Reserved(p).unproven
  BY SearchAssumption DEF Reserved, NoPurchase, PurchaseRows, States, Transactions
<1> QED
  BY <1>1, <1>2 DEF Reserve

LEMMA RestartedRows ==
  ASSUME IInv, Restart
  PROVE  /\ purchases' \in [Requests -> PurchaseRows]
         /\ \A r \in Requests :
              /\ State(r)' = Prepared(State(r))
              /\ purchases'[r].pay = purchases[r].pay /\ purchases'[r].tx = purchases[r].tx
              /\ Kept(purchases'[r]) <=> Kept(purchases[r])
              /\ purchases'[r].unproven = purchases[r].unproven
         /\ UNCHANGED <<chain, supplied, committed>>
<1>1. purchases \in [Requests -> PurchaseRows]
  BY RowsOf DEF IInv
<1>2. purchases' = [r \in Requests |-> [purchases[r] EXCEPT !.state = Prepared(@)]]
  BY DEF Restart
<1>3. \A s \in States : Prepared(s) \in States
  BY DEF Prepared, States
<1>4. ASSUME NEW r \in Requests
      PROVE  /\ purchases'[r] \in PurchaseRows
             /\ State(r)' = Prepared(State(r))
             /\ purchases'[r].pay = purchases[r].pay /\ purchases'[r].tx = purchases[r].tx
             /\ Kept(purchases'[r]) <=> Kept(purchases[r])
             /\ purchases'[r].unproven = purchases[r].unproven
  BY <1>1, <1>2, <1>3 DEF PurchaseRows, State, Kept
<1> QED
  BY <1>2, <1>4 DEF Restart

LEMMA PayIsPayment ==
  ASSUME TypeOK, NEW r \in Requests
  PROVE  /\ Exists(r) => purchases[r].pay \in Payments
         /\ State(r) \in States
         /\ State(r) = purchases[r].state
<1>1. (State(r) = "none") = (purchases[r].pay = None)
  BY DEF TypeOK
<1>2. purchases[r] \in PurchaseRows
  BY RowsOf
<1> QED
  BY <1>1, <1>2 DEF PurchaseRows, State, Exists

LEMMA PurchasesSoundStep ==
  ASSUME IInv, [Next]_vars
  PROVE  PurchasesSound'
<1>1. \A p \in Payments : chain[p] \in {"final", "expired"} => chain'[p] = chain[p]
  BY ChainStep
<1>2. SUFFICES ASSUME NEW x \in Requests
               PROVE  PurchaseSound(x)'
  BY DEF PurchasesSound
<1>3. PurchaseSound(x) /\ TypeOK
  BY DEF IInv, PurchasesSound
<1>4. ASSUME purchases'[x] = purchases[x], supplied'[x] = supplied[x]
      PROVE  PurchaseSound(x)'
  <2>1. Exists(x) => purchases[x].pay \in Payments
    BY <1>3, PayIsPayment
  <2> QED
    BY <1>1, <1>3, <1>4, <2>1 DEF PurchaseSound, State, Exists, Supplied
<1>5. CASE NoRowMoves
  BY <1>4, <1>5 DEF NoRowMoves
<1>6. ASSUME NEW r \in Requests, RowMove(r), UNCHANGED chain
      PROVE  PurchaseSound(x)'
  <2>1. PICK new \in PurchaseRows :
          /\ Becomes(r, new)
          /\ \/ PaymentMoves(r, new) \/ IsDispatched(r, new) \/ SupplyMoves(r, new)
             \/ IsRejected(r, new) \/ StaysRejected(r, new)
    BY <1>6 DEF RowMove
  <2>2. purchases' = [purchases EXCEPT ![r] = new] /\ purchases \in [Requests -> PurchaseRows]
    BY <1>3, <2>1, RowsOf DEF Becomes
  <2>3. CASE x # r
    <3>1. purchases'[x] = purchases[x]
      BY <2>2, <2>3
    <3>2. supplied'[x] = supplied[x]
      BY <1>3, <2>1, <2>3
      DEF PaymentMoves, IsDispatched, SupplyMoves, IsRejected, StaysRejected, TypeOK
    <3> QED
      BY <1>4, <3>1, <3>2
  <2>4. CASE x = r
    <3>1. purchases'[x] = new /\ new.pay = purchases[x].pay /\ chain' = chain
      BY <1>6, <2>1, <2>2, <2>4 DEF Becomes
    <3>2. State(x)' = new.state
      BY <3>1 DEF State
    <3>3. /\ new.state \notin Early \cup {"PAYMENT_REJECTED"} => Kept(new)
          /\ new.state \in Supplied => new.tx # None
          /\ new.unproven => new.state = "PAYMENT_REJECTED"
          /\ new.state = "PAYMENT_REJECTED" => new.unproven \/ chain[purchases[x].pay] = "expired"
      BY <2>1, <2>4 DEF Becomes
    <3>4. CASE PaymentMoves(x, new)
      BY <1>3, <3>1, <3>2, <3>3, <3>4 DEF PaymentMoves, PurchaseSound, Paying, Early, Supplied
    <3>5. CASE IsDispatched(x, new)
      <4>1. supplied[x] = 0
        BY <1>3, <3>5 DEF IsDispatched, PurchaseSound, Supplied
      <4>2. supplied'[x] = 1
        <5>1. supplied \in [Requests -> Nat]
          BY <1>3 DEF TypeOK
        <5> QED
          BY <3>5, <4>1, <5>1 DEF IsDispatched
      <4> QED
        BY <3>1, <3>2, <3>3, <3>5, <4>2 DEF IsDispatched, PurchaseSound, Supplied, Early
    <3>6. CASE SupplyMoves(x, new)
      BY <1>3, <3>1, <3>2, <3>3, <3>6 DEF SupplyMoves, PurchaseSound, Supplied, Early
    <3>7. CASE IsRejected(x, new)
      BY <1>3, <3>1, <3>2, <3>3, <3>7 DEF IsRejected, PurchaseSound, Paying, Early, Supplied
    <3>8. CASE StaysRejected(x, new)
      BY <1>3, <3>1, <3>2, <3>3, <3>8 DEF StaysRejected, PurchaseSound, Supplied
    <3> QED
      BY <2>1, <2>4, <3>4, <3>5, <3>6, <3>7, <3>8
  <2> QED
    BY <2>3, <2>4
<1>7. ASSUME NEW t \in Calls, NEW r \in Requests, NEW p \in Payments, Reserve(t, r, p)
      PROVE  PurchaseSound(x)'
  <2>1. /\ State(r) = "none" /\ purchases' = [purchases EXCEPT ![r] = Reserved(p)]
        /\ Reserved(p).state = "RESERVED" /\ ~Reserved(p).unproven
        /\ UNCHANGED <<chain, supplied>>
    BY <1>7, NewPurchase
  <2>2. CASE x = r
    <3>1. State(x)' = "RESERVED" /\ supplied'[x] = 0 /\ ~purchases'[x].unproven
      BY <1>3, <2>1, <2>2 DEF State, PurchaseSound, Supplied, TypeOK
    <3> QED
      BY <3>1 DEF PurchaseSound, Supplied, Early
  <2>3. CASE x # r
    BY <1>3, <1>4, <2>1, <2>3 DEF TypeOK
  <2> QED
    BY <2>2, <2>3
<1>8. CASE Restart
  <2>1. /\ State(x)' = Prepared(State(x))
        /\ purchases'[x].pay = purchases[x].pay /\ purchases'[x].tx = purchases[x].tx
        /\ Kept(purchases'[x]) <=> Kept(purchases[x])
        /\ purchases'[x].unproven = purchases[x].unproven
        /\ UNCHANGED <<chain, supplied>>
    BY <1>8, RestartedRows
  <2> QED
    BY <1>3, <2>1 DEF PurchaseSound, Prepared, Early, Supplied
<1> QED
  BY <1>5, <1>6, <1>7, <1>8, StepOfPurchases DEF PurchaseStep

-----------------------------------------------------------------------------
(***************************************************************************)
(* The commitment of the jobs.                                             *)
(***************************************************************************)
LEMMA ChargedFinite ==
  ASSUME NEW j \in Jobs
  PROVE  IsFiniteSet(Charged(j)) /\ Cardinality(Charged(j)) \in Nat
<1>1. IsFiniteSet(Charged(j))
  BY SearchAssumption, FS_Subset DEF Charged
<1> QED
  BY <1>1, FS_CardinalityType

\* A step that charges no job, and none of whose rows changes sides.
LEMMA SameCharges ==
  ASSUME JobsCharged, UNCHANGED committed,
         \A r \in Requests : State(r)' \in {"none", "PAYMENT_REJECTED"}
                               <=> State(r) \in {"none", "PAYMENT_REJECTED"}
  PROVE  JobsCharged'
<1>1. \A j \in Jobs : Charged(j)' = Charged(j)
  BY DEF Charged
<1> QED
  BY <1>1 DEF JobsCharged

LEMMA PriceTimes ==
  \A n \in Nat : Price * (n + 1) = Price * n + Price /\ Price * n \in Nat
BY SearchAssumption

LEMMA JobsChargedStep ==
  ASSUME IInv, [Next]_vars
  PROVE  JobsCharged'
<1>1. /\ JobsCharged /\ TypeOK /\ Price \in Nat
      /\ committed \in [Jobs -> Nat] /\ purchases \in [Requests -> PurchaseRows]
  BY RowsOf, SearchAssumption DEF IInv, TypeOK
<1>2. CASE NoRowMoves
  BY <1>1, <1>2, SameCharges DEF NoRowMoves, State
<1>3. ASSUME NEW r \in Requests, NEW new \in PurchaseRows, Becomes(r, new),
             PaymentMoves(r, new) \/ IsDispatched(r, new) \/ SupplyMoves(r, new)
               \/ StaysRejected(r, new)
      PROVE  JobsCharged'
  <2>1. purchases' = [purchases EXCEPT ![r] = new] /\ UNCHANGED committed
    BY <1>3 DEF Becomes, PaymentMoves, IsDispatched, SupplyMoves, StaysRejected
  <2>2. State(r)' = new.state /\ \A x \in Requests : x # r => State(x)' = State(x)
    BY <1>1, <2>1 DEF State
  <2>3. State(r)' \in {"none", "PAYMENT_REJECTED"} <=> State(r) \in {"none", "PAYMENT_REJECTED"}
    BY <1>3, <2>2 DEF PaymentMoves, IsDispatched, SupplyMoves, StaysRejected, Paying, Early,
                      Supplied
  <2> QED
    BY <1>1, <2>1, <2>2, <2>3, SameCharges
<1>4. ASSUME NEW r \in Requests, NEW new \in PurchaseRows, Becomes(r, new), IsRejected(r, new)
      PROVE  JobsCharged'
  <2> DEFINE k == JobOf[r]
  <2>1. /\ purchases' = [purchases EXCEPT ![r] = new]
        /\ committed' = [committed EXCEPT ![k] = @ - Price]
        /\ k \in Jobs
    BY <1>4, SearchAssumption DEF Becomes, IsRejected
  <2>2. State(r)' = "PAYMENT_REJECTED" /\ \A x \in Requests : x # r => State(x)' = State(x)
    BY <1>1, <1>4, <2>1 DEF State, IsRejected
  <2>3. r \in Charged(k) /\ Charged(k)' = Charged(k) \ {r}
    BY <1>4, <2>2 DEF Charged, IsRejected, Paying, Early
  <2>4. \A j \in Jobs : j # k => Charged(j)' = Charged(j) /\ committed'[j] = committed[j]
    BY <1>1, <2>1, <2>2 DEF Charged
  <2>5. committed'[k] = committed[k] - Price
    BY <1>1, <2>1
  <2>6. /\ Cardinality(Charged(k)') = Cardinality(Charged(k)) - 1
        /\ Cardinality(Charged(k)) \in Nat
        /\ IsFiniteSet(Charged(k))
    BY <2>1, <2>3, ChargedFinite, FS_RemoveElement
  <2>7. Cardinality(Charged(k)') \in Nat
    <3>1. Charged(k)' \subseteq Charged(k)
      BY <2>3
    <3> QED
      BY <2>6, <3>1, FS_Subset, FS_CardinalityType
  <2>8. committed[k] = Price * Cardinality(Charged(k)) /\ (Budget[k] # None => committed[k] <= Budget[k])
    BY <1>1, <2>1 DEF JobsCharged
  <2>9. committed[k] = Price * Cardinality(Charged(k)') + Price
    <3> DEFINE m == Cardinality(Charged(k)')
    <3>1. m \in Nat /\ Cardinality(Charged(k)) = m + 1
      BY <2>6, <2>7
    <3> HIDE DEF m
    <3> QED
      BY <2>8, <3>1, PriceTimes DEF m
  <2>10. /\ committed'[k] = Price * Cardinality(Charged(k)')
         /\ Budget[k] # None => committed'[k] <= Budget[k]
    <3>1. /\ committed[k] \in Nat /\ Price * Cardinality(Charged(k)') \in Nat
          /\ Budget[k] # None => Budget[k] \in Nat
      BY <1>1, <2>1, <2>7, PriceTimes, SearchAssumption
    <3> HIDE DEF k
    <3> QED
      BY <1>1, <2>5, <2>8, <2>9, <3>1
  <2>11. ASSUME NEW j \in Jobs
         PROVE  /\ committed'[j] = Price * Cardinality(Charged(j)')
                /\ Budget[j] # None => committed'[j] <= Budget[j]
    <3>1. CASE j = k
      BY <2>10, <3>1
    <3>2. CASE j # k
      BY <1>1, <2>4, <3>2 DEF JobsCharged
    <3> QED
      BY <3>1, <3>2
  <2> QED
    BY <2>11 DEF JobsCharged
<1>5. ASSUME NEW t \in Calls, NEW r \in Requests, NEW p \in Payments, Reserve(t, r, p)
      PROVE  JobsCharged'
  <2> DEFINE k == JobOf[r]
  <2>1. /\ State(r) = "none" /\ purchases' = [purchases EXCEPT ![r] = Reserved(p)]
        /\ Reserved(p).state = "RESERVED"
        /\ committed' = [committed EXCEPT ![k] = @ + Price] /\ k \in Jobs
    BY <1>5, NewPurchase, SearchAssumption
  <2>2. State(r)' = "RESERVED" /\ \A x \in Requests : x # r => State(x)' = State(x)
    BY <1>1, <2>1 DEF State
  <2>3. r \notin Charged(k) /\ Charged(k)' = Charged(k) \cup {r}
    BY <2>1, <2>2 DEF Charged
  <2>4. \A j \in Jobs : j # k => Charged(j)' = Charged(j) /\ committed'[j] = committed[j]
    BY <1>1, <2>1, <2>2 DEF Charged
  <2>5. committed'[k] = committed[k] + Price
    BY <1>1, <2>1
  <2>6. /\ Cardinality(Charged(k)') = Cardinality(Charged(k)) + 1
        /\ Cardinality(Charged(k)) \in Nat
    BY <2>1, <2>3, ChargedFinite, FS_AddElement
  <2>7. committed[k] = Price * Cardinality(Charged(k))
    BY <1>1, <2>1 DEF JobsCharged
  <2>8. Budget[k] # None => committed[k] + Price <= Budget[k]
    BY <1>5 DEF Reserve, WithinBudget
  <2>9. /\ committed'[k] = Price * Cardinality(Charged(k)')
        /\ Budget[k] # None => committed'[k] <= Budget[k]
    <3> DEFINE m == Cardinality(Charged(k))
    <3>1. m \in Nat /\ Cardinality(Charged(k)') = m + 1 /\ committed[k] = Price * m
      BY <2>6, <2>7
    <3> HIDE DEF m
    <3> QED
      BY <2>5, <2>8, <3>1, PriceTimes
  <2>10. ASSUME NEW j \in Jobs
         PROVE  /\ committed'[j] = Price * Cardinality(Charged(j)')
                /\ Budget[j] # None => committed'[j] <= Budget[j]
    <3>1. CASE j = k
      BY <2>9, <3>1
    <3>2. CASE j # k
      BY <1>1, <2>4, <3>2 DEF JobsCharged
    <3> QED
      BY <3>1, <3>2
  <2> QED
    BY <2>10 DEF JobsCharged
<1>6. CASE Restart
  <2>1. /\ \A r \in Requests : State(r)' = Prepared(State(r))
        /\ UNCHANGED committed
    BY <1>6, RestartedRows
  <2>2. \A r \in Requests : State(r)' \in {"none", "PAYMENT_REJECTED"}
                              <=> State(r) \in {"none", "PAYMENT_REJECTED"}
    BY <2>1 DEF Prepared
  <2> QED
    BY <1>1, <2>1, <2>2, SameCharges
<1> QED
  BY <1>2, <1>3, <1>4, <1>5, <1>6, StepOfPurchases DEF PurchaseStep, RowMove

(***************************************************************************)
(* No second purchase of a query begins while one is in progress, and one  *)
(* that has ended is not taken up again.                                   *)
(***************************************************************************)
LEMMA OneAtATimeStep ==
  ASSUME IInv, [Next]_vars
  PROVE  OneAtATime'
<1>1. OneAtATime /\ TypeOK /\ purchases \in [Requests -> PurchaseRows]
  BY RowsOf DEF IInv
<1>2. ASSUME \A x \in Requests : InProgress(x)' => InProgress(x)
      PROVE  OneAtATime'
  BY <1>1, <1>2 DEF OneAtATime
<1>3. CASE NoRowMoves
  BY <1>2, <1>3 DEF NoRowMoves, InProgress, State
<1>4. ASSUME NEW r \in Requests, RowMove(r)
      PROVE  OneAtATime'
  <2>1. PICK new \in PurchaseRows :
          /\ Becomes(r, new)
          /\ \/ PaymentMoves(r, new) \/ IsDispatched(r, new) \/ SupplyMoves(r, new)
             \/ IsRejected(r, new) \/ StaysRejected(r, new)
    BY <1>4 DEF RowMove
  <2>2. purchases' = [purchases EXCEPT ![r] = new]
    BY <2>1 DEF Becomes
  <2>3. State(r)' = new.state /\ \A x \in Requests : x # r => State(x)' = State(x)
    BY <1>1, <2>2 DEF State
  <2>4. InProgress(r)' => InProgress(r)
    BY <2>1, <2>3 DEF InProgress, PaymentMoves, IsDispatched, SupplyMoves, IsRejected,
                      StaysRejected, Paying, Early, Supplied, Closed
  <2> QED
    BY <1>2, <2>3, <2>4 DEF InProgress
<1>5. ASSUME NEW t \in Calls, NEW r \in Requests, NEW p \in Payments, Reserve(t, r, p)
      PROVE  OneAtATime'
  <2>1. State(r) = "none" /\ purchases' = [purchases EXCEPT ![r] = Reserved(p)]
    BY <1>5, NewPurchase
  <2>2. \A x \in Requests : x # r => State(x)' = State(x)
    BY <1>1, <2>1 DEF State
  <2>3. ASSUME NEW x \in Requests, x # r, InProgress(x)'
        PROVE  InProgress(x) /\ ~(JobOf[x] = JobOf[r] /\ QueryOf[x] = QueryOf[r])
    <3>1. InProgress(x)
      BY <2>2, <2>3 DEF InProgress
    <3>2. Exists(x) /\ Live(x) /\ State(x) # "DELIVERED"
      BY <3>1 DEF InProgress, Exists, Live, State
    <3> QED
      BY <1>5, <3>1, <3>2 DEF Reserve, NotInProgress, SameQuery
  <2> QED
    BY <1>1, <2>3 DEF OneAtATime
<1>6. CASE Restart
  <2>1. \A r \in Requests : State(r)' = Prepared(State(r))
    BY <1>6, RestartedRows
  <2> QED
    BY <1>2, <2>1 DEF InProgress, Prepared
<1> QED
  BY <1>3, <1>4, <1>5, <1>6, StepOfPurchases DEF PurchaseStep

-----------------------------------------------------------------------------
(***************************************************************************)
(* How what is known of a payment that bought nothing may change.          *)
(***************************************************************************)
IsObserved(p, owner) ==
  /\ observed[p] = NotObserved /\ ~Bound(p)
  /\ observed' = [observed EXCEPT ![p] = [state |-> "OBSERVED", purchase |-> owner]]
  /\ p \in arrived'
  /\ UNCHANGED <<purchases, extra>>

IsResolved(p, state) ==
  /\ observed[p].state # "none"
  /\ observed' = [observed EXCEPT ![p].state = state]
  /\ state = "NOT_SETTLED" => chain[p] = "expired"
  /\ state = "SETTLED" => observed[p].purchase = None \/ "settled" \in extra[p]
  /\ state = "REFUNDED" => observed[p].purchase = None
  /\ state \in {"SETTLED", "REFUNDED"} => chain[p] = "final"
  /\ UNCHANGED <<purchases, extra>>

IsRecorded(p, kind) ==
  /\ observed[p].state # "none" /\ observed[p].purchase # None
  /\ kind = "settled" => chain[p] = "final"
  /\ kind = "refunded" => "settled" \in extra[p]
  /\ RecordExtra(p, kind) /\ UNCHANGED <<purchases, observed>>

PaymentStep ==
  \/ UNCHANGED <<observed, extra>>
  \/ \E p \in Payments, owner \in Requests \cup {None} : IsObserved(p, owner)
  \/ \E p \in Payments, state \in {"SETTLED", "NOT_SETTLED", "REFUNDED"} : IsResolved(p, state)
  \/ \E p \in Payments, kind \in {"pending", "settled", "refunded"} : IsRecorded(p, kind)

(***************************************************************************)
(* A payment that came with a call is bound, or is observed afterwards.    *)
(***************************************************************************)
LEMMA ObserveIs ==
  ASSUME IInv, NEW t \in Tasks, NEW p \in Payments \cup {None}, NEW r \in Requests \cup {None},
         NEW owner \in Requests \cup {None}, Observe(t, p, r, owner),
         p \in Payments => p \in arrived', UNCHANGED <<purchases, extra>>
  PROVE  /\ PaymentStep
         /\ p \in Payments => Bound(p) \/ observed'[p].state # "none"
         /\ \/ Done(t)
            \/ Task(t, "advance", r, None) /\ r # None
            \/ /\ Task(t, "observe", r, p) /\ p \in Payments
               /\ observed'[p].state # "none"
<1>1. CASE p = None \/ Bound(p)
  BY <1>1, SearchAssumption DEF Observe, PaymentStep
<1>2. CASE ~(p = None \/ Bound(p))
  <2>1. p \in Payments /\ ~Bound(p) /\ NotObserved.state = "none"
    BY <1>2 DEF NotObserved
  <2>2. CASE observed[p] = NotObserved
    <3>1. IsObserved(p, owner)
      BY <1>2, <2>1, <2>2 DEF Observe, IsObserved
    <3>2. observed'[p].state = "OBSERVED"
      BY <2>1, <3>1 DEF IsObserved, IInv, TypeOK
    <3>3. Task(t, "observe", r, p)
      BY <1>2, <3>2 DEF Observe
    <3> QED
      BY <2>1, <3>1, <3>2, <3>3 DEF PaymentStep
  <2>3. CASE observed[p] # NotObserved
    <3>1. observed' = observed /\ observed[p].state # "none"
      BY <1>2, <2>1, <2>3 DEF Observe, IInv, PaymentsSound, PaymentSound
    <3>2. \/ Task(t, "observe", r, p)
          \/ r = None /\ Done(t)
          \/ r # None /\ Task(t, "advance", r, None)
      BY <1>2 DEF Observe
    <3> QED
      BY <2>1, <3>1, <3>2 DEF PaymentStep
  <2> QED
    BY <2>2, <2>3
<1> QED
  BY <1>1, <1>2

LEMMA ServedIs ==
  ASSUME IInv, NEW r \in Requests, Served(r) # None
  PROVE  Served(r) \in Requests /\ Exists(Served(r))
BY DEF Served, IInv, TasksSound, TypeOK

(***************************************************************************)
(* Where a task goes, and that it is sound there.                          *)
(***************************************************************************)
Goes(t, place, r, p) ==
  /\ Task(t, place, r, p) /\ TaskOK(place, r, p)
  /\ r # None => Exists(r)'
  /\ p # None => observed'[p].state # "none"
  /\ place = "resolve observed" => observed'[p].purchase = None \/ "settled" \in extra'[p]
  /\ place = "record observed" => observed'[p].purchase # None
  /\ place \in {"record observed", "resolve observed"} => chain'[p] = "final"
  /\ place \in Recovering => t = Loop /\ row'.state \in Recoverable
  /\ t # Loop => row' = row
  /\ row' \in [state : States, tx : Transactions]

TaskMoves(t) == \E place, r, p : Goes(t, place, r, p)

LEMMA DoneGoes ==
  ASSUME IInv, NEW t \in Tasks, Done(t), row' \in [state : States, tx : Transactions],
         t # Loop => row' = row
  PROVE  TaskMoves(t)
<1>1. Goes(t, "idle", None, None)
  BY SearchAssumption DEF Goes, Done, TaskOK, Recovering
<1> QED
  BY <1>1 DEF TaskMoves

LEMMA CallIsSound ==
  ASSUME IInv, NEW t \in Calls, Call(t)
  PROVE  /\ PaymentStep /\ TaskMoves(t)
         /\ \A p \in arrived' \ arrived : Bound(p)' \/ observed'[p].state # "none"
         /\ arrived \subseteq arrived' /\ arrived' \subseteq Payments
<1>1. t \in Tasks /\ t # Loop /\ row' = row /\ row \in [state : States, tx : Transactions]
  BY SearchAssumption DEF Tasks, IInv, TypeOK, Call, Repeat, ServeFromCache, Reserve, Refuse
<1>2. arrived \subseteq Payments
  BY DEF IInv, TypeOK
<1>3. ASSUME NEW p \in Payments \cup {None}, NEW r \in Requests \cup {None},
             NEW owner \in Requests \cup {None}, NEW q \in Payments \cup {None},
             q = p \/ (p = None /\ (q \in Payments => Bound(q))), Arrives(q),
             Observe(t, p, r, owner), UNCHANGED <<purchases, extra>>, r # None => Exists(r)
      PROVE  /\ PaymentStep /\ TaskMoves(t)
             /\ \A x \in arrived' \ arrived : Bound(x)' \/ observed'[x].state # "none"
             /\ arrived \subseteq arrived' /\ arrived' \subseteq Payments
  <2>1. /\ PaymentStep
        /\ p \in Payments => Bound(p) \/ observed'[p].state # "none"
        /\ \/ Done(t)
           \/ Task(t, "advance", r, None) /\ r # None
           \/ /\ Task(t, "observe", r, p) /\ p \in Payments
              /\ observed'[p].state # "none"
    <3>1. p \in Payments => p \in arrived'
      BY <1>3, SearchAssumption DEF Arrives
    <3> QED
      BY <1>1, <1>3, <3>1, ObserveIs
  <2>2. \A x \in Payments : Bound(x)' <=> Bound(x)
    BY <1>3 DEF Bound
  <2>3. r # None => Exists(r)'
    BY <1>3 DEF Exists
  <2>4. TaskMoves(t)
    <3>1. CASE Done(t)
      BY <1>1, <3>1, DoneGoes
    <3>2. CASE Task(t, "advance", r, None) /\ r # None
      <4>1. Goes(t, "advance", r, None)
        BY <1>1, <2>3, <3>2, SearchAssumption DEF Goes, TaskOK, Recovering, Advancing
      <4> QED
        BY <4>1 DEF TaskMoves
    <3>3. CASE Task(t, "observe", r, p) /\ p \in Payments /\ observed'[p].state # "none"
      <4>1. Goes(t, "observe", r, p)
        BY <1>1, <2>3, <3>3, SearchAssumption DEF Goes, TaskOK, Recovering, Observing
      <4> QED
        BY <4>1 DEF TaskMoves
    <3> QED
      BY <2>1, <3>1, <3>2, <3>3
  <2>5. /\ arrived \subseteq arrived' /\ arrived' \subseteq Payments
        /\ arrived' \ arrived \subseteq {q} \ {None}
    BY <1>2, <1>3 DEF Arrives
  <2> QED
    BY <1>3, <2>1, <2>2, <2>4, <2>5
<1>4. ASSUME NEW r \in Requests, NEW q \in Payments \cup {None}, Repeat(t, r, q)
      PROVE  /\ PaymentStep /\ TaskMoves(t)
             /\ \A x \in arrived' \ arrived : Bound(x)' \/ observed'[x].state # "none"
             /\ arrived \subseteq arrived' /\ arrived' \subseteq Payments
  <2> DEFINE p == IF q = purchases[Served(r)].pay THEN None ELSE q
  <2>1. Served(r) \in Requests /\ Exists(Served(r))
    BY <1>4, ServedIs DEF Repeat
  <2>2. p \in Payments \cup {None} /\ (q = p \/ (p = None /\ (q \in Payments => Bound(q))))
    BY <2>1 DEF Bound
  <2>3. /\ Observe(t, p, Served(r), Served(r)) /\ Arrives(q) /\ UNCHANGED <<purchases, extra>>
    BY <1>4 DEF Repeat
  <2> HIDE DEF p
  <2> QED
    BY <1>3, <2>1, <2>2, <2>3
<1>5. ASSUME NEW r \in Requests, NEW q \in Payments \cup {None}, ServeFromCache(t, r, q)
      PROVE  /\ PaymentStep /\ TaskMoves(t)
             /\ \A x \in arrived' \ arrived : Bound(x)' \/ observed'[x].state # "none"
             /\ arrived \subseteq arrived' /\ arrived' \subseteq Payments
  <2>1. PICK y \in SameQuery(r) : Observe(t, IF q = purchases[y].pay THEN None ELSE q, None, y)
    BY <1>5 DEF ServeFromCache
  <2> DEFINE p == IF q = purchases[y].pay THEN None ELSE q
  <2>2. y \in Requests
    BY DEF SameQuery
  <2>3. p \in Payments \cup {None} /\ (q = p \/ (p = None /\ (q \in Payments => Bound(q))))
    BY <2>2 DEF Bound
  <2>4. Observe(t, p, None, y) /\ Arrives(q) /\ UNCHANGED <<purchases, extra>>
    BY <1>5, <2>1 DEF ServeFromCache
  <2> HIDE DEF p
  <2> QED
    BY <1>3, <2>2, <2>3, <2>4
<1>6. ASSUME NEW r \in Requests, NEW q \in Payments, Reserve(t, r, q)
      PROVE  /\ PaymentStep /\ TaskMoves(t)
             /\ \A x \in arrived' \ arrived : Bound(x)' \/ observed'[x].state # "none"
             /\ arrived \subseteq arrived' /\ arrived' \subseteq Payments
  <2>1. PaymentStep
    BY <1>6 DEF Reserve, PaymentStep
  <2>2. /\ purchases' = [purchases EXCEPT ![r] = Reserved(q)]
        /\ Reserved(q).state = "RESERVED" /\ Reserved(q).pay = q
    BY <1>6, NewPurchase
  <2>3. purchases'[r] = Reserved(q)
    BY <2>2, RowsOf DEF IInv
  <2>4. Exists(r)' /\ Bound(q)'
    BY <2>2, <2>3 DEF Exists, Bound
  <2>5. Goes(t, "advance", r, None)
    BY <1>1, <1>6, <2>4 DEF Reserve, Goes, TaskOK, Advancing, Recovering
  <2>6. arrived' = arrived \cup {q}
    BY <1>6, SearchAssumption DEF Reserve, Arrives
  <2> QED
    BY <1>2, <2>1, <2>4, <2>5, <2>6 DEF TaskMoves
<1>7. ASSUME NEW q \in Payments, Refuse(t, q)
      PROVE  /\ PaymentStep /\ TaskMoves(t)
             /\ \A x \in arrived' \ arrived : Bound(x)' \/ observed'[x].state # "none"
             /\ arrived \subseteq arrived' /\ arrived' \subseteq Payments
  <2>1. Observe(t, q, None, None) /\ Arrives(q) /\ UNCHANGED <<purchases, extra>>
    BY <1>7 DEF Refuse
  <2> QED
    BY <1>3, <2>1
<1> QED
  BY <1>4, <1>5, <1>6, <1>7 DEF Call

(***************************************************************************)
(* The rows stay, and a task that stays with its purchase and payment is   *)
(* sound wherever it goes.                                                 *)
(***************************************************************************)
LEMMA ExistsStays ==
  ASSUME IInv, PurchaseStep, NEW r \in Requests, Exists(r)
  PROVE  Exists(r)'
<1>1. purchases \in [Requests -> PurchaseRows]
  BY RowsOf DEF IInv
<1>2. CASE NoRowMoves
  BY <1>2 DEF NoRowMoves, Exists
<1>3. ASSUME NEW x \in Requests, RowMove(x)
      PROVE  Exists(r)'
  <2>1. PICK new \in PurchaseRows :
          /\ Becomes(x, new)
          /\ \/ PaymentMoves(x, new) \/ IsDispatched(x, new) \/ SupplyMoves(x, new)
             \/ IsRejected(x, new) \/ StaysRejected(x, new)
    BY <1>3 DEF RowMove
  <2>2. purchases' = [purchases EXCEPT ![x] = new]
    BY <2>1 DEF Becomes
  <2>3. new.state # "none"
    BY <2>1 DEF PaymentMoves, IsDispatched, SupplyMoves, IsRejected, StaysRejected, Paying, Early,
                Supplied
  <2> QED
    BY <1>1, <2>2, <2>3 DEF Exists
<1>4. ASSUME NEW t \in Calls, NEW x \in Requests, NEW p \in Payments, Reserve(t, x, p)
      PROVE  Exists(r)'
  <2>1. State(x) = "none" /\ purchases' = [purchases EXCEPT ![x] = Reserved(p)]
    BY <1>4, NewPurchase
  <2>2. r # x
    BY <2>1 DEF Exists, State
  <2> QED
    BY <1>1, <2>1, <2>2 DEF Exists
<1>5. CASE Restart
  <2>1. State(r)' = Prepared(State(r))
    BY <1>5, RestartedRows
  <2> QED
    BY <2>1 DEF Exists, State, Prepared
<1> QED
  BY <1>2, <1>3, <1>4, <1>5 DEF PurchaseStep

LEMMA TaskHas ==
  ASSUME IInv, NEW t \in Tasks
  PROVE  TaskOK(pc[t], on[t], about[t]) /\ TaskSound(t)
BY DEF IInv, TypeOK, TasksSound, TaskOK, Observing, Advancing, Recovering

LEMMA GotoIs ==
  ASSUME IInv, NEW t \in Tasks, NEW place, Goto(t, place)
  PROVE  Task(t, place, on[t], about[t])
BY DEF IInv, TasksSound, Goto, Task

\* A task that advances a purchase, to another place or to rest.
LEMMA AdvancingGoes ==
  ASSUME IInv, PurchaseStep, NEW t \in Tasks, pc[t] \in Advancing,
         NEW place \in Advancing, Goto(t, place),
         place \in Recovering => t = Loop /\ row'.state \in Recoverable,
         row' \in [state : States, tx : Transactions], t # Loop => row' = row
  PROVE  TaskMoves(t)
<1>1. TaskOK(pc[t], on[t], about[t]) /\ TaskSound(t)
  BY TaskHas
<1>2. on[t] \in Requests /\ about[t] = None
  BY <1>1 DEF TaskOK, Advancing, Recovering, Observing
<1>3. Exists(on[t])
  BY <1>1, <1>2, SearchAssumption DEF TaskSound
<1>4. PICK r \in Requests : r = on[t]
  BY <1>2
<1>5. Exists(r)'
  BY <1>3, <1>4, ExistsStays
<1>6. Task(t, place, r, None)
  BY <1>2, <1>4, GotoIs
<1>7. Goes(t, place, r, None)
  BY <1>5, <1>6 DEF Goes, TaskOK, Advancing, Recovering
<1> QED
  BY <1>7 DEF TaskMoves

LEMMA AdvanceIsSound ==
  ASSUME IInv, NEW t \in Tasks, Advance(t)
  PROVE  PaymentStep /\ TaskMoves(t) /\ arrived' = arrived
<1>1. PurchaseStep
  BY AdvanceMoves
<1>2. UNCHANGED <<observed, extra, arrived, row>>
  BY DEF Advance, Enter, Verify, FoundVerified, NotFoundVerified, Settle, Dispatch, Unconfirmed,
         Search, Deliver, Fail, store
<1>3. pc[t] \in Advancing
  BY DEF Advance, Enter, Verify, FoundVerified, NotFoundVerified, Settle, Dispatch, Unconfirmed,
         Search, Deliver, Fail, Advancing
<1>4. row' \in [state : States, tx : Transactions]
  BY <1>2 DEF IInv, TypeOK
<1>5. \/ Done(t)
      \/ \E place \in Advancing \ Recovering : Goto(t, place)
  <2>1. /\ {"advance", "verify", "find after error", "find after refusal", "settle", "confirm",
            "search", "deliver", "fail"} \subseteq Advancing \ Recovering
    BY DEF Advancing, Recovering
  <2>2. CASE Enter(t)
    BY <2>1, <2>2 DEF Enter
  <2>3. CASE Verify(t)
    BY <2>1, <2>3 DEF Verify
  <2>4. CASE FoundVerified(t) \/ NotFoundVerified(t) \/ Settle(t) \/ Unconfirmed(t)
    BY <2>1, <2>4 DEF FoundVerified, NotFoundVerified, Settle, Unconfirmed
  <2>5. CASE Dispatch(t)
    BY <2>1, <2>5 DEF Dispatch
  <2>6. CASE Search(t) \/ Deliver(t) \/ Fail(t)
    BY <2>1, <2>6 DEF Search, SupplierAnswers, Deliver, Fail
  <2> QED
    BY <2>2, <2>3, <2>4, <2>5, <2>6 DEF Advance
<1>6. TaskMoves(t)
  <2>1. CASE Done(t)
    BY <1>2, <1>4, <2>1, DoneGoes
  <2>2. ASSUME NEW place \in Advancing \ Recovering, Goto(t, place)
        PROVE  TaskMoves(t)
    BY <1>1, <1>2, <1>3, <1>4, <2>2, AdvancingGoes
  <2> QED
    BY <1>5, <2>1, <2>2
<1> QED
  BY <1>2, <1>6 DEF PaymentStep

(***************************************************************************)
(* A task that reconciles a payment records it before it resolves it.      *)
(***************************************************************************)
LEMMA ReconcileIsSound ==
  ASSUME IInv, NEW t \in Tasks, Reconcile(t)
  PROVE  PaymentStep /\ TaskMoves(t) /\ arrived' = arrived
<1>1. NoRowMoves
  BY ReconcileMovesNone
<1>2. UNCHANGED <<purchases, chain, arrived, row>>
  BY DEF Reconcile, FoundObserved, NotFoundObserved, ConfirmedObserved, RecordObserved,
         ResolveObserved, ExcludedObserved, UnsureObserved, store
<1>3. pc[t] \in Observing
  BY DEF Reconcile, FoundObserved, NotFoundObserved, ConfirmedObserved, RecordObserved,
         ResolveObserved, ExcludedObserved, UnsureObserved, Observing
<1>4. PICK p \in Payments : p = about[t] /\ p # None
  <2>1. TaskOK(pc[t], on[t], about[t])
    BY TaskHas
  <2> QED
    BY <1>3, <2>1, SearchAssumption DEF TaskOK, Observing, Advancing, Recovering
<1>5. /\ observed[p].state # "none"
      /\ pc[t] = "resolve observed" => observed[p].purchase = None \/ "settled" \in extra[p]
      /\ pc[t] = "record observed" => observed[p].purchase # None
      /\ pc[t] \in {"record observed", "resolve observed"} => chain[p] = "final"
  BY <1>4, TaskHas DEF TaskSound
<1>6. PICK r \in Requests \cup {None} : r = on[t] /\ (r # None => Exists(r))
  BY TaskHas DEF IInv, TasksSound, TaskSound
<1>7. r # None => Exists(r)'
  BY <1>2, <1>6 DEF Exists
<1>8. row' \in [state : States, tx : Transactions]
  BY <1>2 DEF IInv, TypeOK
<1>9. observed \in [Payments -> [state : {"none", "OBSERVED", "SETTLED", "NOT_SETTLED", "REFUNDED"},
                                 purchase : Requests \cup {None}]]
      /\ extra \in [Payments -> SUBSET {"pending", "settled", "refunded"}]
  BY DEF IInv, TypeOK
<1>10. ASSUME NEW place \in Observing, Goto(t, place), observed'[p].state # "none",
              place = "resolve observed" => observed'[p].purchase = None \/ "settled" \in extra'[p],
              place = "record observed" => observed'[p].purchase # None,
              place \in {"record observed", "resolve observed"} => chain[p] = "final"
       PROVE  TaskMoves(t)
  <2>1. Task(t, place, r, p)
    BY <1>4, <1>6, <1>10, GotoIs
  <2>2. Goes(t, place, r, p)
    BY <1>2, <1>7, <1>8, <1>10, <2>1 DEF Goes, TaskOK, Observing, Recovering
  <2> QED
    BY <2>2 DEF TaskMoves
<1>11. ASSUME After(t)
       PROVE  TaskMoves(t)
  <2>1. CASE Done(t)
    BY <1>2, <1>8, <2>1, DoneGoes
  <2>2. CASE r # None /\ Task(t, "advance", r, None)
    <3>1. Goes(t, "advance", r, None)
      BY <1>2, <1>7, <1>8, <2>2 DEF Goes, TaskOK, Advancing, Recovering
    <3> QED
      BY <3>1 DEF TaskMoves
  <2> QED
    BY <1>6, <1>11, <2>1, <2>2 DEF After
<1>12. CASE FoundObserved(t)
  <2>1. "confirm observed" \in Observing /\ observed' = observed /\ Goto(t, "confirm observed")
    BY <1>12 DEF FoundObserved, Observing
  <2>2. UNCHANGED extra \/ (RecordExtra(p, "pending") /\ observed[p].purchase # None)
    BY <1>4, <1>12 DEF FoundObserved, Owner
  <2>3. PaymentStep
    BY <1>2, <1>5, <2>1, <2>2 DEF PaymentStep, IsRecorded
  <2> QED
    BY <1>2, <1>5, <1>10, <2>1, <2>3
<1>13. CASE NotFoundObserved(t)
  <2>1. /\ "exclude observed" \in Observing /\ UNCHANGED <<observed, extra>>
        /\ Goto(t, "exclude observed")
    BY <1>13 DEF NotFoundObserved, Observing, store
  <2> QED
    BY <1>2, <1>5, <1>10, <2>1 DEF PaymentStep
<1>14. CASE ConfirmedObserved(t)
  <2>1. UNCHANGED <<observed, extra>> /\ chain[p] = "final"
    BY <1>4, <1>14 DEF ConfirmedObserved, Confirmed, store
  <2>2. Goto(t, IF observed[p].purchase = None THEN "resolve observed" ELSE "record observed")
    BY <1>4, <1>14 DEF ConfirmedObserved, Owner
  <2>3. "resolve observed" \in Observing /\ "record observed" \in Observing
    BY DEF Observing
  <2>4. TaskMoves(t)
    <3>1. CASE observed[p].purchase = None
      BY <1>5, <1>10, <2>1, <2>2, <2>3, <3>1
    <3>2. CASE observed[p].purchase # None
      BY <1>5, <1>10, <2>1, <2>2, <2>3, <3>2
    <3> QED
      BY <3>1, <3>2
  <2> QED
    BY <1>2, <2>1, <2>4 DEF PaymentStep
<1>15. CASE RecordObserved(t)
  <2>1. /\ RecordExtra(p, "settled") /\ Goto(t, "resolve observed") /\ observed' = observed
        /\ "resolve observed" \in Observing
        /\ observed[p].purchase # None /\ chain[p] = "final"
    BY <1>4, <1>5, <1>15 DEF RecordObserved, Observing
  <2>2. "settled" \in extra'[p]
    BY <1>9, <2>1 DEF RecordExtra
  <2>3. PaymentStep
    BY <1>2, <1>5, <2>1 DEF PaymentStep, IsRecorded
  <2> QED
    BY <1>2, <1>5, <1>10, <2>1, <2>2, <2>3
<1>16. CASE ResolveObserved(t)
  <2>1. Resolve(p, "SETTLED") /\ After(t) /\ UNCHANGED extra
    BY <1>4, <1>16 DEF ResolveObserved
  <2>2. (observed[p].purchase = None \/ "settled" \in extra[p]) /\ chain[p] = "final"
    BY <1>5, <1>16 DEF ResolveObserved
  <2>3. CASE observed[p].state = "OBSERVED"
    <3>1. IsResolved(p, "SETTLED")
      BY <1>2, <2>1, <2>2, <2>3 DEF Resolve, IsResolved
    <3> QED
      BY <1>2, <1>11, <2>1, <3>1 DEF PaymentStep
  <2>4. CASE observed[p].state # "OBSERVED"
    BY <1>2, <1>11, <2>1, <2>4 DEF Resolve, PaymentStep
  <2> QED
    BY <2>3, <2>4
<1>17. CASE ExcludedObserved(t)
  <2>1. Resolve(p, "NOT_SETTLED") /\ After(t) /\ UNCHANGED extra /\ chain[p] = "expired"
    BY <1>4, <1>17 DEF ExcludedObserved, Impossible
  <2>2. CASE observed[p].state = "OBSERVED"
    <3>1. IsResolved(p, "NOT_SETTLED")
      BY <1>2, <2>1, <2>2 DEF Resolve, IsResolved
    <3> QED
      BY <1>2, <1>11, <2>1, <3>1 DEF PaymentStep
  <2>3. CASE observed[p].state # "OBSERVED"
    BY <1>2, <1>11, <2>1, <2>3 DEF Resolve, PaymentStep
  <2> QED
    BY <2>2, <2>3
<1>18. CASE UnsureObserved(t)
  BY <1>2, <1>11, <1>18 DEF UnsureObserved, store, PaymentStep
<1> QED
  BY <1>12, <1>13, <1>14, <1>15, <1>16, <1>17, <1>18 DEF Reconcile

(***************************************************************************)
(* The loop takes what is there to recover; when it has read a row, it     *)
(* reads one that is settling or unknown.                                  *)
(***************************************************************************)
LEMMA RecoverIsSound ==
  ASSUME IInv, Recover
  PROVE  /\ PaymentStep /\ arrived' = arrived
         /\ TaskMoves(Loop) \/ UNCHANGED local
<1>1. PurchaseStep /\ Loop \in Tasks
  BY RecoverMoves DEF Tasks
<1>2. row \in [state : States, tx : Transactions] /\ NotRead \in [state : States, tx : Transactions]
  BY DEF IInv, TypeOK, NotRead, States, Transactions
<1>3. ASSUME NEW p \in Payments, TakeObservation(p)
      PROVE  PaymentStep /\ arrived' = arrived /\ TaskMoves(Loop)
  <2>1. UNCHANGED <<observed, extra, arrived, row>> /\ Task(Loop, "observe", None, p)
    BY <1>3 DEF TakeObservation, store
  <2>2. observed'[p].state # "none"
    BY <1>3, <2>1 DEF TakeObservation
  <2>3. Goes(Loop, "observe", None, p)
    BY <1>2, <2>1, <2>2 DEF Goes, TaskOK, Observing, Recovering
  <2> QED
    BY <2>1, <2>3 DEF PaymentStep, TaskMoves
<1>4. ASSUME NEW p \in Payments, TakeExtra(p)
      PROVE  PaymentStep /\ arrived' = arrived /\ UNCHANGED local
  <2>1. "pending" \in extra[p] /\ chain[p] = "final"
    BY <1>4 DEF TakeExtra, Confirmed
  <2>2. observed[p].state # "none" /\ observed[p].purchase # None
    BY <2>1 DEF IInv, PaymentsSound, PaymentSound
  <2>3. IsRecorded(p, "settled")
    BY <1>4, <2>1, <2>2 DEF TakeExtra, IsRecorded
  <2> QED
    BY <1>4, <2>3 DEF TakeExtra, PaymentStep
<1>5. ASSUME NEW r \in Requests, TakePurchase(r)
      PROVE  PaymentStep /\ arrived' = arrived /\ TaskMoves(Loop)
  <2>1. UNCHANGED <<purchases, observed, extra, arrived>>
    BY <1>5 DEF TakePurchase, store
  <2>2. Exists(r)'
    BY <1>5, <2>1 DEF TakePurchase, Recoverable, Exists, State
  <2>3. CASE State(r) \in {"RESERVED", "FINALITY_PENDING"} /\ Task(Loop, "advance", r, None) /\ UNCHANGED row
    <3>1. Goes(Loop, "advance", r, None)
      BY <1>2, <2>2, <2>3 DEF Goes, TaskOK, Advancing, Recovering
    <3> QED
      BY <2>1, <3>1 DEF TaskMoves, PaymentStep
  <2>4. CASE /\ State(r) \in Recoverable
             /\ row' = [state |-> State(r), tx |-> purchases[r].tx]
             /\ Task(Loop, IF row'.tx # None THEN "confirm recovered" ELSE "find recovered", r, None)
    <3>1. purchases[r].tx \in Transactions /\ State(r) \in States
      BY <2>4, RowsOf DEF IInv, PurchaseRows, Recoverable, States
    <3>2. row' \in [state : States, tx : Transactions] /\ row'.state \in Recoverable
      BY <2>4, <3>1
    <3>3. PICK place \in {"confirm recovered", "find recovered"} : Task(Loop, place, r, None)
      BY <2>4
    <3>4. Goes(Loop, place, r, None)
      BY <2>2, <3>2, <3>3 DEF Goes, TaskOK, Advancing, Recovering
    <3> QED
      BY <2>1, <3>4 DEF TaskMoves, PaymentStep
  <2> QED
    BY <1>5, <2>3, <2>4 DEF TakePurchase
<1>6. ASSUME FoundRecovered \/ NotFoundRecovered \/ ConfirmedRecovered \/ ExcludedRecovered
               \/ UnsureRecovered
      PROVE  PaymentStep /\ arrived' = arrived /\ TaskMoves(Loop)
  <2>1. UNCHANGED <<observed, extra, arrived>>
    BY <1>6 DEF FoundRecovered, NotFoundRecovered, ConfirmedRecovered, ExcludedRecovered,
                UnsureRecovered, store
  <2>2. pc[Loop] \in Recovering /\ pc[Loop] \in Advancing
    BY <1>6 DEF FoundRecovered, NotFoundRecovered, ConfirmedRecovered, ExcludedRecovered,
                UnsureRecovered, Recovering, Advancing
  <2>3. row.state \in Recoverable
    BY <2>2 DEF IInv, TasksSound
  <2>4. {"confirm recovered", "exclude recovered"} \subseteq Recovering
        /\ Recovering \subseteq Advancing /\ "advance" \in Advancing /\ "advance" \notin Recovering
    BY DEF Recovering, Advancing
  <2>5. CASE FoundRecovered
    <3>1. /\ Goto(Loop, "confirm recovered")
          /\ row' = [row EXCEPT !.tx = "carrier"]
      BY <2>5 DEF FoundRecovered
    <3>2. row' \in [state : States, tx : Transactions] /\ row'.state \in Recoverable
      BY <1>2, <2>3, <3>1 DEF Transactions
    <3> QED
      BY <1>1, <2>1, <2>2, <2>4, <3>1, <3>2, AdvancingGoes DEF PaymentStep
  <2>6. CASE NotFoundRecovered
    <3>1. Goto(Loop, "exclude recovered") /\ row' = row
      BY <2>6 DEF NotFoundRecovered
    <3> QED
      BY <1>1, <1>2, <2>1, <2>2, <2>3, <2>4, <3>1, AdvancingGoes DEF PaymentStep
  <2>7. CASE Goto(Loop, "advance") /\ row' = NotRead
    BY <1>1, <1>2, <2>1, <2>2, <2>4, <2>7, AdvancingGoes DEF PaymentStep
  <2>8. CASE Done(Loop) /\ row' = NotRead
    BY <1>1, <1>2, <2>1, <2>8, DoneGoes DEF PaymentStep
  <2> QED
    BY <1>6, <2>5, <2>6, <2>7, <2>8 DEF ConfirmedRecovered, ExcludedRecovered, UnsureRecovered
<1> QED
  BY <1>3, <1>4, <1>5, <1>6 DEF Recover

\* The operator resolves an observed payment, or records a refund of an extra one.
LEMMA OperateIsSound ==
  ASSUME IInv, Operate
  PROVE  PaymentStep /\ arrived' = arrived /\ UNCHANGED local
<1>1. arrived' = arrived /\ UNCHANGED local
  BY DEF Operate
<1>2. ASSUME NEW r \in Requests, NEW cogs, NEW fees, NEW refunds, NEW credits,
             ResolveFinancials(r, cogs, fees, refunds, credits)
      PROVE  PaymentStep
  BY <1>2 DEF ResolveFinancials, PaymentStep
<1>3. ASSUME NEW r \in Requests, NEW cogs, ReconcileResult(r, cogs)
      PROVE  PaymentStep
  BY <1>3 DEF ReconcileResult, PaymentStep
<1>4. ASSUME NEW p \in Payments, ReconcileExtraRefund(p)
      PROVE  PaymentStep
  <2>1. "settled" \in extra[p]
    BY <1>4 DEF ReconcileExtraRefund
  <2>2. observed[p].state # "none" /\ observed[p].purchase # None
    BY <2>1 DEF IInv, PaymentsSound, PaymentSound
  <2>3. IsRecorded(p, "refunded")
    BY <1>4, <2>1, <2>2 DEF ReconcileExtraRefund, IsRecorded
  <2> QED
    BY <2>3 DEF PaymentStep
<1>5. ASSUME NEW p \in Payments, ReconcileUnfulfilledRefund(p)
      PROVE  PaymentStep
  <2>1. observed[p].state = "SETTLED" /\ observed[p].purchase = None
    BY <1>5 DEF ReconcileUnfulfilledRefund
  <2>2. chain[p] = "final"
    BY <2>1 DEF IInv, PaymentsSound, PaymentSound
  <2>3. IsResolved(p, "REFUNDED")
    BY <1>5, <2>1, <2>2 DEF ReconcileUnfulfilledRefund, IsResolved
  <2> QED
    BY <2>3 DEF PaymentStep
<1> QED
  BY <1>1, <1>2, <1>3, <1>4, <1>5 DEF Operate

(***************************************************************************)
(* Every step changes what is known of one payment at most, moves one task *)
(* to a place where it is sound or none, and lets one payment arrive that  *)
(* is bound or observed; save a restart, after which all tasks are idle.   *)
(***************************************************************************)
LocalStep ==
  \/ UNCHANGED local
  \/ \E t \in Tasks : TaskMoves(t)
  \/ Restart

LEMMA StepOfPayments ==
  ASSUME IInv, [Next]_vars
  PROVE  /\ PaymentStep /\ LocalStep
         /\ \A p \in arrived' \ arrived : Bound(p)' \/ observed'[p].state # "none"
         /\ arrived \subseteq arrived' /\ arrived' \subseteq Payments
<1> DEFINE Same == PaymentStep /\ LocalStep /\ arrived' = arrived
<1>1. ASSUME Same
      PROVE  /\ PaymentStep /\ LocalStep
             /\ \A p \in arrived' \ arrived : Bound(p)' \/ observed'[p].state # "none"
             /\ arrived \subseteq arrived' /\ arrived' \subseteq Payments
  BY <1>1 DEF IInv, TypeOK
<1>2. CASE ChainMoves \/ UNCHANGED vars
  BY <1>1, <1>2 DEF ChainMoves, vars, store, PaymentStep, LocalStep
<1>3. ASSUME NEW t \in Calls, Call(t)
      PROVE  /\ PaymentStep /\ LocalStep
             /\ \A p \in arrived' \ arrived : Bound(p)' \/ observed'[p].state # "none"
             /\ arrived \subseteq arrived' /\ arrived' \subseteq Payments
  BY <1>3, CallIsSound DEF LocalStep, Tasks
<1>4. ASSUME NEW t \in Tasks, Reconcile(t) \/ Advance(t)
      PROVE  Same
  BY <1>4, ReconcileIsSound, AdvanceIsSound DEF LocalStep
<1>5. ASSUME Recover
      PROVE  Same
  BY <1>5, RecoverIsSound DEF LocalStep, Tasks
<1>6. ASSUME Restart
      PROVE  Same
  <2>1. UNCHANGED <<observed, extra, arrived>>
    BY <1>6 DEF Restart
  <2> QED
    BY <1>6, <2>1 DEF PaymentStep, LocalStep
<1>7. ASSUME Operate
      PROVE  Same
  BY <1>7, OperateIsSound DEF LocalStep
<1> HIDE DEF Same
<1> QED
  BY <1>1, <1>2, <1>3, <1>4, <1>5, <1>6, <1>7 DEF Next

-----------------------------------------------------------------------------
(***************************************************************************)
(* What is known of a payment is not forgotten: an observation stays, with *)
(* the purchase it came with, and so do the extra events.                  *)
(***************************************************************************)
Observations == [state : {"none", "OBSERVED", "SETTLED", "NOT_SETTLED", "REFUNDED"},
                 purchase : Requests \cup {None}]

Extras == SUBSET {"pending", "settled", "refunded"}

LEMMA KnownStays ==
  ASSUME IInv, PaymentStep
  PROVE  /\ observed' \in [Payments -> Observations] /\ extra' \in [Payments -> Extras]
         /\ \A p \in Payments :
              /\ extra[p] \subseteq extra'[p]
              /\ observed[p].state # "none" =>
                   /\ observed'[p].state # "none"
                   /\ observed'[p].purchase = observed[p].purchase
<1>1. observed \in [Payments -> Observations] /\ extra \in [Payments -> Extras]
  BY DEF IInv, TypeOK, Observations, Extras
<1>2. CASE UNCHANGED <<observed, extra>>
  BY <1>1, <1>2
<1>3. ASSUME NEW p \in Payments, NEW owner \in Requests \cup {None}, IsObserved(p, owner)
      PROVE  /\ observed' \in [Payments -> Observations] /\ extra' = extra
             /\ \A q \in Payments : observed[q].state # "none" => observed'[q] = observed[q]
  <2>1. NotObserved.state = "none" /\ [state |-> "OBSERVED", purchase |-> owner] \in Observations
    BY DEF NotObserved, Observations
  <2> QED
    BY <1>1, <1>3, <2>1 DEF IsObserved
<1>4. ASSUME NEW p \in Payments, NEW state \in {"SETTLED", "NOT_SETTLED", "REFUNDED"},
             IsResolved(p, state)
      PROVE  /\ observed' \in [Payments -> Observations] /\ extra' = extra
             /\ \A q \in Payments : observed[q].state # "none" =>
                  observed'[q].state # "none" /\ observed'[q].purchase = observed[q].purchase
  <2>1. observed' = [observed EXCEPT ![p] = [observed[p] EXCEPT !.state = state]] /\ extra' = extra
    BY <1>4 DEF IsResolved
  <2>2. /\ [observed[p] EXCEPT !.state = state] \in Observations
        /\ [observed[p] EXCEPT !.state = state].state # "none"
        /\ [observed[p] EXCEPT !.state = state].purchase = observed[p].purchase
    BY <1>1 DEF Observations
  <2> QED
    BY <1>1, <2>1, <2>2
<1>5. ASSUME NEW p \in Payments, NEW kind \in {"pending", "settled", "refunded"},
             IsRecorded(p, kind)
      PROVE  /\ extra' \in [Payments -> Extras] /\ observed' = observed
             /\ \A q \in Payments : extra[q] \subseteq extra'[q]
  BY <1>1, <1>5 DEF IsRecorded, RecordExtra, Extras
<1>6. ASSUME observed' \in [Payments -> Observations], extra' = extra,
             \A q \in Payments : observed[q].state # "none" =>
                  observed'[q].state # "none" /\ observed'[q].purchase = observed[q].purchase
      PROVE  /\ observed' \in [Payments -> Observations] /\ extra' \in [Payments -> Extras]
             /\ \A p \in Payments :
                  /\ extra[p] \subseteq extra'[p]
                  /\ observed[p].state # "none" =>
                       /\ observed'[p].state # "none"
                       /\ observed'[p].purchase = observed[p].purchase
  BY <1>1, <1>6
<1> QED
  BY <1>1, <1>2, <1>3, <1>4, <1>5, <1>6 DEF PaymentStep

(***************************************************************************)
(* A purchase keeps its payment, and only a new one binds another.         *)
(***************************************************************************)
LEMMA BoundStays ==
  ASSUME IInv, PurchaseStep,
         ~ \E t \in Calls, r \in Requests, p \in Payments : Reserve(t, r, p)
  PROVE  \A p : Bound(p)' <=> Bound(p)
<1>1. purchases \in [Requests -> PurchaseRows]
  BY RowsOf DEF IInv
<1>2. CASE NoRowMoves
  BY <1>2 DEF NoRowMoves, Bound
<1>3. ASSUME NEW r \in Requests, RowMove(r)
      PROVE  \A x \in Requests : purchases'[x].pay = purchases[x].pay
  <2>1. PICK new \in PurchaseRows :
          purchases' = [purchases EXCEPT ![r] = new] /\ new.pay = purchases[r].pay
    BY <1>3 DEF RowMove, Becomes
  <2> QED
    BY <1>1, <2>1
<1>4. ASSUME Restart
      PROVE  \A x \in Requests : purchases'[x].pay = purchases[x].pay
  BY <1>4, RestartedRows
<1>5. ASSUME \A x \in Requests : purchases'[x].pay = purchases[x].pay
      PROVE  \A p : Bound(p)' <=> Bound(p)
  BY <1>5 DEF Bound
<1> QED
  BY <1>2, <1>3, <1>4, <1>5 DEF PurchaseStep

LEMMA ReserveBinds ==
  ASSUME IInv, NEW t \in Calls, NEW r \in Requests, NEW p \in Payments, Reserve(t, r, p)
  PROVE  /\ ~Bound(p) /\ observed[p] = NotObserved /\ UNCHANGED <<observed, extra, chain>>
         /\ \A q \in Payments : Bound(q)' <=> Bound(q) \/ q = p
<1>1. /\ State(r) = "none" /\ purchases' = [purchases EXCEPT ![r] = Reserved(p)]
      /\ Reserved(p).pay = p
  BY NewPurchase
<1>2. purchases \in [Requests -> PurchaseRows] /\ purchases[r].pay = None
  BY <1>1, RowsOf DEF IInv, TypeOK
<1>3. ~Bound(p) /\ observed[p] = NotObserved /\ UNCHANGED <<observed, extra, chain>>
  BY DEF Reserve, Free
<1>4. \A x \in Requests : purchases'[x].pay = IF x = r THEN p ELSE purchases[x].pay
  BY <1>1, <1>2
<1>5. ASSUME NEW q \in Payments
      PROVE  Bound(q)' <=> Bound(q) \/ q = p
  BY <1>2, <1>4, SearchAssumption DEF Bound
<1> QED
  BY <1>3, <1>5

(***************************************************************************)
(* What is known of each payment stays true of it.                         *)
(***************************************************************************)
LEMMA PaymentsSoundStep ==
  ASSUME IInv, [Next]_vars
  PROVE  PaymentsSound'
<1>1. /\ PurchaseStep /\ PaymentStep
      /\ \A p \in arrived' \ arrived : Bound(p)' \/ observed'[p].state # "none"
      /\ arrived \subseteq arrived'
  BY StepOfPurchases, StepOfPayments
<1>2. \A p \in Payments : chain[p] \in {"final", "expired"} => chain'[p] = chain[p]
  BY ChainStep
<1>3. /\ observed \in [Payments -> Observations] /\ observed' \in [Payments -> Observations]
      /\ extra \in [Payments -> Extras] /\ extra' \in [Payments -> Extras]
      /\ \A p \in Payments :
           /\ extra[p] \subseteq extra'[p]
           /\ observed[p].state # "none" =>
                observed'[p].state # "none" /\ observed'[p].purchase = observed[p].purchase
  BY <1>1, KnownStays DEF IInv, TypeOK, Observations, Extras
<1>4. PaymentsSound /\ NotObserved.state = "none"
  BY DEF IInv, NotObserved
\* A payment that is neither bound, observed nor recorded in this step.
<1>5. ASSUME NEW p \in Payments, Bound(p)' <=> Bound(p), observed'[p] = observed[p],
             extra'[p] = extra[p]
      PROVE  PaymentSound(p)'
  <2>1. PaymentSound(p)
    BY <1>4 DEF PaymentsSound
  <2>2. p \in arrived' <=> Bound(p)' \/ observed'[p].state # "none"
    BY <1>1, <1>5, <2>1 DEF PaymentSound
  <2>3. observed[p].state = "NOT_SETTLED" => chain'[p] = "expired"
    BY <1>2, <2>1 DEF PaymentSound
  <2>4. "settled" \in extra[p] \/ observed[p].state \in {"SETTLED", "REFUNDED"} => chain'[p] = "final"
    BY <1>2, <2>1 DEF PaymentSound
  <2> QED
    BY <1>5, <2>1, <2>2, <2>3, <2>4 DEF PaymentSound
<1>6. ASSUME NEW t \in Calls, NEW r \in Requests, NEW q \in Payments, Reserve(t, r, q)
      PROVE  PaymentsSound'
  <2>1. /\ ~Bound(q) /\ observed[q] = NotObserved /\ UNCHANGED <<observed, extra, chain>>
        /\ \A p \in Payments : Bound(p)' <=> Bound(p) \/ p = q
    BY <1>6, ReserveBinds
  <2>2. PaymentSound(q)'
    <3>1. q \in arrived'
      BY <1>6, SearchAssumption DEF Reserve, Arrives
    <3>2. PaymentSound(q)
      BY <1>4 DEF PaymentsSound
    <3> QED
      BY <1>4, <2>1, <3>1, <3>2 DEF PaymentSound
  <2>3. ASSUME NEW p \in Payments, p # q
        PROVE  PaymentSound(p)'
    BY <1>5, <2>1, <2>3
  <2> QED
    BY <2>2, <2>3 DEF PaymentsSound
<1>7. ASSUME ~ \E t \in Calls, r \in Requests, q \in Payments : Reserve(t, r, q)
      PROVE  PaymentsSound'
  <2>1. \A p \in Payments : Bound(p)' <=> Bound(p)
    BY <1>1, <1>7, BoundStays
  <2>2. CASE UNCHANGED <<observed, extra>>
    BY <1>5, <2>1, <2>2 DEF PaymentsSound
  <2>3. ASSUME NEW q \in Payments, NEW owner \in Requests \cup {None}, IsObserved(q, owner)
        PROVE  PaymentsSound'
    <3>1. /\ ~Bound(q) /\ observed'[q].state = "OBSERVED" /\ extra' = extra /\ q \in arrived'
          /\ \A p \in Payments : p # q => observed'[p] = observed[p]
      BY <1>3, <2>3 DEF IsObserved
    <3>2. PaymentSound(q)'
      <4>1. extra[q] = {}
        BY <1>4, <2>3 DEF IsObserved, PaymentsSound, PaymentSound
      <4> QED
        BY <2>1, <3>1, <4>1 DEF PaymentSound
    <3>3. ASSUME NEW p \in Payments, p # q
          PROVE  PaymentSound(p)'
      BY <1>5, <2>1, <3>1, <3>3
    <3> QED
      BY <3>2, <3>3 DEF PaymentsSound
  <2>4. ASSUME NEW q \in Payments, NEW state \in {"SETTLED", "NOT_SETTLED", "REFUNDED"},
               IsResolved(q, state)
        PROVE  PaymentsSound'
    <3>1. /\ observed[q].state # "none" /\ observed'[q].state = state
          /\ observed'[q].purchase = observed[q].purchase
          /\ \A p \in Payments : p # q => observed'[p] = observed[p]
          /\ state = "NOT_SETTLED" => chain[q] = "expired"
          /\ state = "SETTLED" => observed[q].purchase = None \/ "settled" \in extra[q]
          /\ state = "REFUNDED" => observed[q].purchase = None
          /\ state \in {"SETTLED", "REFUNDED"} => chain[q] = "final"
          /\ extra' = extra
      BY <1>3, <2>4 DEF IsResolved, Observations
    <3>2. PaymentSound(q)
      BY <1>4 DEF PaymentsSound
    <3>3. PaymentSound(q)'
      <4>1. ~Bound(q) /\ q \in arrived'
        BY <1>1, <3>1, <3>2 DEF PaymentSound
      <4>2. "settled" \in extra[q] => chain'[q] = "final"
        BY <1>2, <3>2 DEF PaymentSound
      <4> QED
        BY <1>2, <2>1, <3>1, <3>2, <4>1, <4>2 DEF PaymentSound
    <3>4. ASSUME NEW p \in Payments, p # q
          PROVE  PaymentSound(p)'
      BY <1>5, <2>1, <3>1, <3>4
    <3> QED
      BY <3>3, <3>4 DEF PaymentsSound
  <2>5. ASSUME NEW q \in Payments, NEW kind \in {"pending", "settled", "refunded"},
               IsRecorded(q, kind)
        PROVE  PaymentsSound'
    <3>1. /\ observed[q].state # "none" /\ observed[q].purchase # None /\ observed' = observed
          /\ kind = "settled" => chain[q] = "final"
          /\ kind = "refunded" => "settled" \in extra[q]
          /\ extra'[q] = extra[q] \cup {kind}
          /\ \A p \in Payments : p # q => extra'[p] = extra[p]
      BY <1>3, <2>5 DEF IsRecorded, RecordExtra
    <3>2. PaymentSound(q)
      BY <1>4 DEF PaymentsSound
    <3>3. PaymentSound(q)'
      <4>1. ~Bound(q) /\ q \in arrived'
        BY <1>1, <3>1, <3>2 DEF PaymentSound
      <4>2. "settled" \in extra'[q] \/ observed[q].state \in {"SETTLED", "REFUNDED"} =>
              chain'[q] = "final"
        BY <1>2, <3>1, <3>2 DEF PaymentSound
      <4>3. observed[q].state = "NOT_SETTLED" => chain'[q] = "expired"
        BY <1>2, <3>2 DEF PaymentSound
      <4> QED
        BY <2>1, <3>1, <3>2, <4>1, <4>2, <4>3 DEF PaymentSound
    <3>4. ASSUME NEW p \in Payments, p # q
          PROVE  PaymentSound(p)'
      BY <1>5, <2>1, <3>1, <3>4
    <3> QED
      BY <3>3, <3>4 DEF PaymentsSound
  <2> QED
    BY <1>1, <2>2, <2>3, <2>4, <2>5 DEF PaymentStep
<1> QED
  BY <1>6, <1>7


-----------------------------------------------------------------------------
(***************************************************************************)
(* The task that moved is sound where it went, and the others where they   *)
(* are: what they rely on is not taken back by another task.               *)
(***************************************************************************)
LEMMA AliasesStep ==
  ASSUME IInv, [Next]_vars
  PROVE  /\ aliases' \in [Requests -> Requests \cup {None}]
         /\ \A r \in Requests : aliases'[r] # None => purchases'[aliases'[r]].state # "none"
<1>1. /\ PurchaseStep /\ aliases \in [Requests -> Requests \cup {None}]
      /\ \A r \in Requests : aliases[r] # None => Exists(aliases[r])
  BY StepOfPurchases DEF IInv, TypeOK, TasksSound
<1>2. \A r \in Requests : purchases[r].state # "none" => purchases'[r].state # "none"
  BY <1>1, ExistsStays DEF Exists
<1>3. \/ aliases' = aliases
      \/ \E r, x \in Requests : Exists(x) /\ aliases' = [aliases EXCEPT ![r] = x]
  <2>1. CASE ChainMoves \/ Restart \/ UNCHANGED vars
    BY <2>1 DEF ChainMoves, Restart, vars, store
  <2>2. ASSUME NEW t \in Calls, NEW r \in Requests, NEW p, ServeFromCache(t, r, p)
        PROVE  \E x \in Requests : Exists(x) /\ aliases' = [aliases EXCEPT ![r] = x]
    BY <2>2 DEF ServeFromCache, SameQuery, Live
  <2>3. ASSUME NEW t \in Calls, NEW r \in Requests, NEW p, Repeat(t, r, p) \/ Reserve(t, r, p)
        PROVE  aliases' = aliases
    BY <2>3 DEF Repeat, Reserve
  <2>4. ASSUME NEW t \in Calls, NEW p, Refuse(t, p)
        PROVE  aliases' = aliases
    BY <2>4 DEF Refuse
  <2>5. ASSUME NEW t \in Tasks, Reconcile(t)
        PROVE  aliases' = aliases
    BY <2>5 DEF Reconcile, FoundObserved, NotFoundObserved, ConfirmedObserved, RecordObserved,
                ResolveObserved, ExcludedObserved, UnsureObserved, store
  <2>6. ASSUME NEW t \in Tasks, Advance(t)
        PROVE  aliases' = aliases
    BY <2>6 DEF Advance, Enter, Verify, FoundVerified, NotFoundVerified, Settle, Dispatch,
                Unconfirmed, Search, Deliver, Fail, store
  <2>7. CASE Recover
    BY <2>7 DEF Recover, TakeObservation, TakeExtra, TakePurchase, FoundRecovered,
                NotFoundRecovered, ConfirmedRecovered, ExcludedRecovered, UnsureRecovered, store
  <2>8. CASE Operate
    <3>1. ASSUME NEW r \in Requests, NEW cogs, NEW fees, NEW refunds, NEW credits,
                 ResolveFinancials(r, cogs, fees, refunds, credits)
          PROVE  aliases' = aliases
      BY <3>1 DEF ResolveFinancials
    <3>2. ASSUME NEW r \in Requests, NEW cogs, ReconcileResult(r, cogs)
          PROVE  aliases' = aliases
      BY <3>2 DEF ReconcileResult
    <3>3. ASSUME NEW p \in Payments, ReconcileExtraRefund(p) \/ ReconcileUnfulfilledRefund(p)
          PROVE  aliases' = aliases
      BY <3>3 DEF ReconcileExtraRefund, ReconcileUnfulfilledRefund
    <3> QED
      BY <2>8, <3>1, <3>2, <3>3 DEF Operate
  <2> QED
    BY <2>1, <2>2, <2>3, <2>4, <2>5, <2>6, <2>7, <2>8 DEF Next, Call
<1>4. CASE aliases' = aliases
  BY <1>1, <1>2, <1>4 DEF Exists
<1>5. ASSUME NEW r \in Requests, NEW x \in Requests, Exists(x), aliases' = [aliases EXCEPT ![r] = x]
      PROVE  /\ aliases' \in [Requests -> Requests \cup {None}]
             /\ \A y \in Requests : aliases'[y] # None => purchases'[aliases'[y]].state # "none"
  BY <1>1, <1>2, <1>5 DEF Exists
<1> QED
  BY <1>3, <1>4, <1>5

LEMMA LocalTypes ==
  ASSUME IInv, [Next]_vars
  PROVE  /\ pc' \in [Tasks -> {"idle"} \cup Observing \cup Advancing]
         /\ on' \in [Tasks -> Requests \cup {None}]
         /\ about' \in [Tasks -> Payments \cup {None}]
         /\ row' \in [state : States, tx : Transactions]
         /\ \A t \in Tasks : TaskOK(pc'[t], on'[t], about'[t]) /\ TaskSound(t)'
         /\ pc'[Loop] \in Recovering => row'.state \in Recoverable
<1>1. /\ PurchaseStep /\ PaymentStep /\ LocalStep
  BY StepOfPurchases, StepOfPayments
<1>2. /\ pc \in [Tasks -> {"idle"} \cup Observing \cup Advancing]
      /\ on \in [Tasks -> Requests \cup {None}]
      /\ about \in [Tasks -> Payments \cup {None}]
      /\ row \in [state : States, tx : Transactions]
      /\ pc[Loop] \in Recovering => row.state \in Recoverable
      /\ Loop \in Tasks
  BY DEF IInv, TypeOK, TasksSound, Tasks
<1>3. /\ \A r \in Requests : purchases[r].state # "none" => purchases'[r].state # "none"
      /\ \A p \in Payments :
           /\ extra[p] \subseteq extra'[p]
           /\ observed[p].state # "none" =>
                observed'[p].state # "none" /\ observed'[p].purchase = observed[p].purchase
           /\ chain[p] = "final" => chain'[p] = "final"
  BY <1>1, ExistsStays, KnownStays, ChainStep DEF Exists
\* A task that stays where it is.
<1>4. ASSUME NEW t \in Tasks, pc'[t] = pc[t], on'[t] = on[t], about'[t] = about[t]
      PROVE  TaskOK(pc'[t], on'[t], about'[t]) /\ TaskSound(t)'
  <2>1. TaskOK(pc[t], on[t], about[t]) /\ TaskSound(t)
    BY TaskHas
  <2>2. on[t] # None => on[t] \in Requests /\ purchases'[on[t]].state # "none"
    BY <1>3, <2>1 DEF TaskSound, Exists
  <2>3. about[t] # None => about[t] \in Payments /\ observed'[about[t]].state # "none"
    BY <1>3, <2>1 DEF TaskSound
  <2>4. /\ pc[t] = "resolve observed" =>
             observed'[about[t]].purchase = None \/ "settled" \in extra'[about[t]]
        /\ pc[t] = "record observed" => observed'[about[t]].purchase # None
        /\ pc[t] \in {"record observed", "resolve observed"} => chain'[about[t]] = "final"
    <3>1. pc[t] \in {"record observed", "resolve observed"} =>
            about[t] \in Payments /\ about[t] # None
      BY <2>1, SearchAssumption DEF TaskOK, Advancing, Recovering
    <3> QED
      BY <1>3, <2>1, <3>1 DEF TaskSound
  <2> QED
    BY <1>4, <2>1, <2>2, <2>3, <2>4 DEF TaskSound, Exists
<1>5. CASE UNCHANGED local
  BY <1>2, <1>4, <1>5 DEF local
<1>6. ASSUME NEW t \in Tasks, NEW place, NEW r, NEW p, Goes(t, place, r, p)
      PROVE  /\ pc' \in [Tasks -> {"idle"} \cup Observing \cup Advancing]
             /\ on' \in [Tasks -> Requests \cup {None}]
             /\ about' \in [Tasks -> Payments \cup {None}]
             /\ row' \in [state : States, tx : Transactions]
             /\ \A x \in Tasks : TaskOK(pc'[x], on'[x], about'[x]) /\ TaskSound(x)'
             /\ pc'[Loop] \in Recovering => row'.state \in Recoverable
  <2>1. /\ pc' = [pc EXCEPT ![t] = place] /\ on' = [on EXCEPT ![t] = r]
        /\ about' = [about EXCEPT ![t] = p]
    BY <1>6 DEF Goes, Task
  <2>2. /\ place \in {"idle"} \cup Observing \cup Advancing
        /\ r \in Requests \cup {None} /\ p \in Payments \cup {None}
        /\ TaskOK(place, r, p)
    BY <1>6 DEF Goes, TaskOK
  <2>3. /\ pc' \in [Tasks -> {"idle"} \cup Observing \cup Advancing]
        /\ on' \in [Tasks -> Requests \cup {None}]
        /\ about' \in [Tasks -> Payments \cup {None}]
        /\ pc'[t] = place /\ on'[t] = r /\ about'[t] = p
    BY <1>2, <2>1, <2>2
  <2>4. TaskSound(t)'
    <3>1. /\ r # None => r \in Requests /\ Exists(r)'
          /\ p # None => p \in Payments /\ observed'[p].state # "none"
          /\ place = "resolve observed" => observed'[p].purchase = None \/ "settled" \in extra'[p]
          /\ place = "record observed" => observed'[p].purchase # None
          /\ place \in {"record observed", "resolve observed"} => chain'[p] = "final"
      BY <1>6, <2>2 DEF Goes
    <3> QED
      BY <2>3, <3>1 DEF TaskSound, Exists
  <2>5. ASSUME NEW x \in Tasks, x # t
        PROVE  TaskOK(pc'[x], on'[x], about'[x]) /\ TaskSound(x)'
    <3>1. pc'[x] = pc[x] /\ on'[x] = on[x] /\ about'[x] = about[x]
      BY <1>2, <2>1, <2>5
    <3> QED
      BY <1>4, <3>1
  <2>6. pc'[Loop] \in Recovering => row'.state \in Recoverable
    <3>1. CASE t = Loop
      BY <1>6, <2>3, <3>1 DEF Goes
    <3>2. CASE t # Loop
      BY <1>2, <1>6, <2>1, <3>2 DEF Goes
    <3> QED
      BY <3>1, <3>2
  <2>7. row' \in [state : States, tx : Transactions]
    BY <1>6 DEF Goes
  <2> QED
    BY <2>2, <2>3, <2>4, <2>5, <2>6, <2>7
<1>7. CASE Restart
  <2>1. /\ pc' = [x \in Tasks |-> "idle"] /\ on' = [x \in Tasks |-> None]
        /\ about' = [x \in Tasks |-> None] /\ row' = NotRead
    BY <1>7 DEF Restart
  <2>2. NotRead \in [state : States, tx : Transactions]
    BY DEF NotRead, States, Transactions
  <2>3. ASSUME NEW x \in Tasks
        PROVE  TaskOK(pc'[x], on'[x], about'[x]) /\ TaskSound(x)'
    <3>1. pc'[x] = "idle" /\ on'[x] = None /\ about'[x] = None
      BY <2>1
    <3> QED
      BY <3>1 DEF TaskOK, TaskSound
  <2>4. pc'[Loop] \notin Recovering
    BY <1>2, <2>1 DEF Recovering
  <2> QED
    BY <2>1, <2>2, <2>3, <2>4
<1> QED
  BY <1>1, <1>5, <1>6, <1>7 DEF LocalStep, TaskMoves

LEMMA TasksSoundStep ==
  ASSUME IInv, [Next]_vars
  PROVE  TasksSound'
BY AliasesStep, LocalTypes DEF TasksSound, Exists

(***************************************************************************)
(* Every variable keeps its type.                                          *)
(***************************************************************************)
LEMMA RowsStep ==
  ASSUME IInv, [Next]_vars
  PROVE  /\ purchases' \in [Requests -> PurchaseRows]
         /\ \A r \in Requests : (State(r)' = "none") = (purchases'[r].pay = None)
         /\ supplied' \in [Requests -> Nat]
<1>1. /\ PurchaseStep /\ TypeOK /\ purchases \in [Requests -> PurchaseRows]
      /\ supplied \in [Requests -> Nat]
      /\ \A r \in Requests : (State(r) = "none") = (purchases[r].pay = None)
  BY StepOfPurchases, RowsOf DEF IInv, TypeOK
<1>2. CASE NoRowMoves
  BY <1>1, <1>2 DEF NoRowMoves, State
<1>3. ASSUME NEW r \in Requests, RowMove(r)
      PROVE  /\ purchases' \in [Requests -> PurchaseRows]
             /\ \A x \in Requests : (State(x)' = "none") = (purchases'[x].pay = None)
             /\ supplied' \in [Requests -> Nat]
  <2>1. PICK new \in PurchaseRows :
          /\ Becomes(r, new)
          /\ \/ PaymentMoves(r, new) \/ IsDispatched(r, new) \/ SupplyMoves(r, new)
             \/ IsRejected(r, new) \/ StaysRejected(r, new)
    BY <1>3 DEF RowMove
  <2>2. purchases' = [purchases EXCEPT ![r] = new] /\ new.pay = purchases[r].pay /\ State(r) # "none"
    BY <2>1 DEF Becomes, Exists, State
  <2>3. new.state # "none"
    BY <2>1 DEF PaymentMoves, IsDispatched, SupplyMoves, IsRejected, StaysRejected, Paying, Early,
                Supplied
  <2>4. \/ supplied' = supplied
        \/ supplied' = [supplied EXCEPT ![r] = @ + 1]
    BY <2>1 DEF PaymentMoves, IsDispatched, SupplyMoves, IsRejected, StaysRejected
  <2>5. supplied' \in [Requests -> Nat]
    BY <1>1, <2>4
  <2>6. purchases' \in [Requests -> PurchaseRows]
    BY <1>1, <2>2
  <2>7. ASSUME NEW x \in Requests
        PROVE  (State(x)' = "none") = (purchases'[x].pay = None)
    <3>1. CASE x = r
      BY <1>1, <2>2, <2>3, <3>1 DEF State
    <3>2. CASE x # r
      BY <1>1, <2>2, <3>2 DEF State
    <3> QED
      BY <3>1, <3>2
  <2> QED
    BY <2>5, <2>6, <2>7
<1>4. ASSUME NEW t \in Calls, NEW r \in Requests, NEW p \in Payments, Reserve(t, r, p)
      PROVE  /\ purchases' \in [Requests -> PurchaseRows]
             /\ \A x \in Requests : (State(x)' = "none") = (purchases'[x].pay = None)
             /\ supplied' \in [Requests -> Nat]
  <2>1. /\ purchases' = [purchases EXCEPT ![r] = Reserved(p)] /\ Reserved(p) \in PurchaseRows
        /\ Reserved(p).state = "RESERVED" /\ Reserved(p).pay = p
    BY <1>4, NewPurchase
  <2>2. supplied' = supplied
    BY <1>4 DEF Reserve
  <2> QED
    BY <1>1, <2>1, <2>2, SearchAssumption DEF State
<1>5. CASE Restart
  <2>1. purchases' \in [Requests -> PurchaseRows]
    BY <1>5, RestartedRows
  <2>2. \A r \in Requests : State(r)' = Prepared(State(r)) /\ purchases'[r].pay = purchases[r].pay
    BY <1>5, RestartedRows
  <2>3. \A r \in Requests : State(r)' = "none" <=> State(r) = "none"
    BY <2>2 DEF Prepared
  <2>4. supplied' = supplied
    BY <1>5 DEF Restart
  <2> QED
    BY <1>1, <2>1, <2>2, <2>3, <2>4
<1> QED
  BY <1>1, <1>2, <1>3, <1>4, <1>5 DEF PurchaseStep

LEMMA CommittedStep ==
  ASSUME IInv, [Next]_vars
  PROVE  committed' \in [Jobs -> Nat]
<1>1. committed \in [Jobs -> Nat] /\ JobsCharged'
  BY JobsChargedStep DEF IInv, TypeOK
<1>2. ASSUME NEW r \in Requests, NEW d, committed' = [committed EXCEPT ![JobOf[r]] = d]
      PROVE  DOMAIN committed' = Jobs /\ committed' = [j \in Jobs |-> committed'[j]]
  BY <1>1, <1>2
<1>3. committed' = [j \in Jobs |-> committed'[j]]
  <2>1. PurchaseStep
    BY StepOfPurchases
  <2>2. CASE UNCHANGED committed
    BY <1>1, <2>2
  <2>3. ASSUME NEW r \in Requests, RowMove(r)
        PROVE  UNCHANGED committed \/ \E d : committed' = [committed EXCEPT ![JobOf[r]] = d]
    BY <2>3 DEF RowMove, PaymentMoves, IsDispatched, SupplyMoves, IsRejected, StaysRejected
  <2>4. ASSUME NEW t \in Calls, NEW r \in Requests, NEW p \in Payments, Reserve(t, r, p)
        PROVE  \E d : committed' = [committed EXCEPT ![JobOf[r]] = d]
    BY <2>4 DEF Reserve
  <2> QED
    BY <1>2, <2>1, <2>2, <2>3, <2>4 DEF PurchaseStep, NoRowMoves, Restart
<1>4. ASSUME NEW j \in Jobs
      PROVE  committed'[j] \in Nat
  <2>1. committed'[j] = Price * Cardinality(Charged(j)') /\ Cardinality(Charged(j)') \in Nat
    <3>1. \A k \in Jobs : Cardinality(Charged(k)) \in Nat
      BY ChargedFinite
    <3>2. \A k \in Jobs : Cardinality(Charged(k)') \in Nat
      <4>1. ASSUME NEW k \in Jobs
            PROVE  IsFiniteSet(Charged(k)')
        BY SearchAssumption, FS_Subset DEF Charged
      <4> QED
        BY <4>1, FS_CardinalityType
    <3> QED
      BY <1>1, <3>2 DEF JobsCharged
  <2> DEFINE m == Cardinality(Charged(j)')
  <2>2. m \in Nat /\ committed'[j] = Price * m
    BY <2>1
  <2> HIDE DEF m
  <2> QED
    BY <2>2, PriceTimes
<1> QED
  BY <1>3, <1>4

LEMMA TypeStep ==
  ASSUME IInv, [Next]_vars
  PROVE  TypeOK'
<1>1. /\ purchases' \in [Requests -> PurchaseRows]
      /\ \A r \in Requests : (State(r)' = "none") = (purchases'[r].pay = None)
      /\ supplied' \in [Requests -> Nat] /\ committed' \in [Jobs -> Nat]
      /\ aliases' \in [Requests -> Requests \cup {None}]
  BY RowsStep, CommittedStep, AliasesStep
<1>2. /\ observed' \in [Payments -> Observations] /\ extra' \in [Payments -> Extras]
      /\ arrived' \subseteq Payments
      /\ chain' \in [Payments -> {"unused", "included", "final", "expired"}]
  BY StepOfPayments, KnownStays, ChainStep
<1>3. /\ \A t \in Tasks : TaskOK(pc'[t], on'[t], about'[t])
      /\ row' \in [state : States, tx : Transactions]
  BY LocalTypes
<1>4. crashes' \in 0 .. MaxCrashes /\ recovers' \in Configurations
  <2>1. crashes \in 0 .. MaxCrashes /\ recovers \in Configurations
    BY DEF IInv, TypeOK
  <2>2. \/ UNCHANGED process
        \/ crashes < MaxCrashes /\ crashes' = crashes + 1 /\ recovers' \in Configurations
    <3>1. CASE ChainMoves \/ UNCHANGED vars \/ Operate
      BY <3>1 DEF ChainMoves, vars, Operate
    <3>2. ASSUME NEW t \in Calls, Call(t)
          PROVE  UNCHANGED process
      BY <3>2 DEF Call, Repeat, ServeFromCache, Reserve, Refuse
    <3>3. ASSUME NEW t \in Tasks, Reconcile(t)
          PROVE  UNCHANGED process
      BY <3>3 DEF Reconcile, FoundObserved, NotFoundObserved, ConfirmedObserved, RecordObserved,
                  ResolveObserved, ExcludedObserved, UnsureObserved
    <3>4. ASSUME NEW t \in Tasks, Advance(t)
          PROVE  UNCHANGED process
      BY <3>4 DEF Advance, Enter, Verify, FoundVerified, NotFoundVerified, Settle, Dispatch,
                  Unconfirmed, Search, Deliver, Fail
    <3>5. CASE Recover
      BY <3>5 DEF Recover, TakeObservation, TakeExtra, TakePurchase, FoundRecovered,
                  NotFoundRecovered, ConfirmedRecovered, ExcludedRecovered, UnsureRecovered
    <3>6. CASE Restart
      BY <3>6 DEF Restart
    <3> QED
      BY <3>1, <3>2, <3>3, <3>4, <3>5, <3>6 DEF Next
  <2> QED
    BY <2>1, <2>2, SearchAssumption DEF process
<1>5. \A t \in Tasks :
       \/ pc'[t] = "idle" /\ on'[t] = None /\ about'[t] = None
       \/ /\ pc'[t] \in {"observe", "confirm observed", "exclude observed", "record observed",
                         "resolve observed"}
          /\ on'[t] \in Requests \cup {None} /\ about'[t] \in Payments
       \/ /\ pc'[t] \in {"advance", "verify", "find after error", "find after refusal", "settle",
                         "confirm", "search", "deliver", "fail", "find recovered",
                         "confirm recovered", "exclude recovered"}
          /\ on'[t] \in Requests /\ about'[t] = None
  BY <1>3 DEF TaskOK, Observing, Advancing, Recovering
<1> QED
  BY <1>1, <1>2, <1>3, <1>4, <1>5 DEF TypeOK, PurchaseRows, Observations, Extras

(***************************************************************************)
(* A payment is bound to one purchase only: a new one takes a payment that *)
(* none has, and no row changes its payment.                               *)
(***************************************************************************)
LEMMA OneEachStep ==
  ASSUME IInv, [Next]_vars
  PROVE  OneEach'
<1>1. /\ PurchaseStep /\ purchases \in [Requests -> PurchaseRows] /\ OneEach
      /\ \A r \in Requests : Exists(r) <=> purchases[r].pay # None
  BY StepOfPurchases, RowsOf DEF IInv, TypeOK, State, Exists
<1>2. \A r \in Requests : Exists(r)' <=> purchases'[r].pay # None
  BY TypeStep DEF TypeOK, State, Exists
<1>3. ASSUME \A r \in Requests : purchases'[r].pay = purchases[r].pay
      PROVE  OneEach'
  BY <1>1, <1>2, <1>3 DEF OneEach
<1>4. CASE NoRowMoves
  BY <1>3, <1>4 DEF NoRowMoves
<1>5. ASSUME NEW r \in Requests, RowMove(r)
      PROVE  OneEach'
  <2>1. PICK new \in PurchaseRows :
          purchases' = [purchases EXCEPT ![r] = new] /\ new.pay = purchases[r].pay
    BY <1>5 DEF RowMove, Becomes
  <2> QED
    BY <1>1, <1>3, <2>1
<1>6. CASE Restart
  BY <1>3, <1>6, RestartedRows
<1>7. ASSUME NEW t \in Calls, NEW r \in Requests, NEW p \in Payments, Reserve(t, r, p)
      PROVE  OneEach'
  <2>1. /\ purchases' = [purchases EXCEPT ![r] = Reserved(p)] /\ Reserved(p).pay = p
        /\ ~Bound(p)
    BY <1>7, NewPurchase, ReserveBinds
  <2>2. \A x \in Requests : purchases'[x].pay = IF x = r THEN p ELSE purchases[x].pay
    BY <1>1, <2>1
  <2>3. \A x \in Requests : purchases[x].pay # p
    BY <2>1 DEF Bound
  <2> QED
    BY <1>1, <1>2, <2>2, <2>3 DEF OneEach
<1> QED
  BY <1>1, <1>4, <1>5, <1>6, <1>7 DEF PurchaseStep


-----------------------------------------------------------------------------
LEMMA InitIInv == Init => IInv
<1> SUFFICES ASSUME Init
             PROVE  IInv
  OBVIOUS
<1>1. /\ NoPurchase \in PurchaseRows /\ NoPurchase.state = "none" /\ NoPurchase.pay = None
      /\ ~NoPurchase.unproven
      /\ NotRead \in [state : States, tx : Transactions]
      /\ NotObserved \in Observations /\ NotObserved.state = "none"
  BY SearchAssumption DEF NoPurchase, PurchaseRows, NotRead, NotObserved, Observations, States,
                          Transactions
<1>2. /\ purchases = [r \in Requests |-> NoPurchase] /\ supplied = [r \in Requests |-> 0]
      /\ \A r \in Requests : State(r) = "none" /\ purchases[r].pay = None
  BY <1>1 DEF Init, State
<1>3. /\ pc = [t \in Tasks |-> "idle"] /\ on = [t \in Tasks |-> None]
      /\ about = [t \in Tasks |-> None] /\ Loop \in Tasks
  BY DEF Init, Tasks
<1>4. TypeOK
  <2>1. /\ purchases \in [Requests -> PurchaseRows] /\ supplied \in [Requests -> Nat]
        /\ \A r \in Requests : (State(r) = "none") = (purchases[r].pay = None)
    BY <1>1, <1>2
  <2>2. /\ committed \in [Jobs -> Nat] /\ aliases \in [Requests -> Requests \cup {None}]
        /\ extra \in [Payments -> Extras] /\ arrived \subseteq Payments
        /\ chain \in [Payments -> {"unused", "included", "final", "expired"}]
        /\ crashes \in 0 .. MaxCrashes /\ recovers \in Configurations
    BY SearchAssumption DEF Init, Extras
  <2>3. observed \in [Payments -> Observations] /\ row \in [state : States, tx : Transactions]
    BY <1>1 DEF Init
  <2>4. \A t \in Tasks : pc[t] = "idle" /\ on[t] = None /\ about[t] = None
    BY <1>3
  <2> QED
    BY <2>1, <2>2, <2>3, <2>4 DEF TypeOK, PurchaseRows, Observations, Extras
<1>5. PurchasesSound
  BY <1>1, <1>2 DEF PurchasesSound, PurchaseSound, Supplied, Early
<1>6. JobsCharged
  <2>1. ASSUME NEW j \in Jobs
        PROVE  committed[j] = 0 /\ Charged(j) = {}
    BY <1>2, <2>1 DEF Init, Charged
  <2>2. Price * Cardinality({}) = 0
    BY FS_EmptySet, SearchAssumption
  <2>3. \A j \in Jobs : Budget[j] # None => 0 <= Budget[j]
    BY SearchAssumption
  <2> QED
    BY <2>1, <2>2, <2>3 DEF JobsCharged
<1>7. OneAtATime
  BY <1>2 DEF OneAtATime, InProgress
<1>8. PaymentsSound
  <2>1. \A p \in Payments : /\ ~Bound(p) /\ observed[p] = NotObserved /\ p \notin arrived
                           /\ extra[p] = {}
    BY <1>2, SearchAssumption DEF Bound, Init
  <2> QED
    BY <1>1, <2>1 DEF PaymentsSound, PaymentSound
<1>9. TasksSound
  <2>1. \A t \in Tasks : TaskSound(t)
    BY <1>3 DEF TaskSound
  <2>2. \A r \in Requests : aliases[r] = None
    BY DEF Init
  <2> QED
    BY <1>3, <2>1, <2>2 DEF TasksSound, Recovering
<1>10. OneEach
  BY <1>2 DEF OneEach, Exists, State
<1> QED
  BY <1>4, <1>5, <1>6, <1>7, <1>8, <1>9, <1>10 DEF IInv

LEMMA StepIInv == IInv /\ [Next]_vars => IInv'
BY TypeStep, PurchasesSoundStep, JobsChargedStep, OneAtATimeStep, OneEachStep,
   PaymentsSoundStep, TasksSoundStep DEF IInv

LEMMA AlwaysIInv == Spec => []IInv
BY InitIInv, StepIInv, PTL DEF Spec

-----------------------------------------------------------------------------
(***************************************************************************)
(* However the calls of buyers, the recovery loop, the operator and any    *)
(* number of restarts interleave, the supplier is called once at most for  *)
(* a purchase, and only when its payment is final (advance and             *)
(* prepare_recovery of the service).                                       *)
(***************************************************************************)
THEOREM SupplierIsPaidOnce == Spec => []SupplierPaidOnce
<1>1. IInv => SupplierPaidOnce
  BY DEF IInv, PurchasesSound, PurchaseSound, SupplierPaidOnce
<1> QED
  BY <1>1, AlwaysIInv, PTL

\* A purchase whose price is kept is served, or the price is owed or refunded.
LEMMA KeptIsOwed ==
  ASSUME TypeOK, NEW r \in Requests, Kept(purchases[r])
  PROVE  purchases[r].result \/ Owed(r) + purchases[r].refunds >= Price
<1>1. purchases[r] \in PurchaseRows
  BY RowsOf
<1> DEFINE unfulfilled ==
      IF Interrupted(r) /\ purchases[r].refunds < Price THEN Price - purchases[r].refunds ELSE 0
<1>2. /\ purchases[r].liability \in Nat /\ purchases[r].refunds \in Nat /\ Price \in Nat
      /\ unfulfilled \in Nat
  BY <1>1, SearchAssumption DEF PurchaseRows
<1>3. Owed(r) = IF purchases[r].liability >= unfulfilled THEN purchases[r].liability ELSE unfulfilled
  BY DEF Owed
<1> HIDE DEF unfulfilled
<1>4. Owed(r) >= purchases[r].liability /\ Owed(r) \in Nat
  BY <1>2, <1>3
<1> QED
  BY <1>2, <1>4 DEF Kept

\* Of one state: what the payments and purchases are, and what their rows say.
LEMMA IInvAccounts == IInv => SettledIsAccounted
<1> SUFFICES ASSUME IInv
             PROVE  SettledIsAccounted
  OBVIOUS
<1>1. TypeOK /\ PurchasesSound /\ PaymentsSound
  BY DEF IInv
<1>2. NothingWrittenOff
  <2>1. ASSUME NEW p \in Payments, chain[p] = "final"
        PROVE  /\ observed[p].state # "NOT_SETTLED"
               /\ \A r \in Requests : purchases[r].pay = p =>
                    State(r) # "PAYMENT_REJECTED" \/ purchases[r].unproven
    BY <1>1, <2>1 DEF PaymentsSound, PaymentSound, PurchasesSound, PurchaseSound
  <2> QED
    BY <2>1 DEF NothingWrittenOff
<1>3. ServedOrOwed
  <2>1. ASSUME NEW r \in Requests, Exists(r), chain[purchases[r].pay] = "final",
               State(r) \notin {"RESERVED", "VERIFYING", "SETTLING"}, ~purchases[r].unproven
        PROVE  purchases[r].result \/ Owed(r) + purchases[r].refunds >= Price
    <3>1. State(r) \notin {"none", "PAYMENT_REJECTED"}
      BY <1>1, <2>1 DEF PurchasesSound, PurchaseSound, Exists, State
    <3>2. Kept(purchases[r])
      BY <1>1, <2>1, <3>1 DEF PurchasesSound, PurchaseSound, Early
    <3> QED
      BY <1>1, <3>2, KeptIsOwed
  <2> QED
    BY <2>1 DEF ServedOrOwed
<1>4. Remembered
  <2>1. ASSUME NEW p \in arrived
        PROVE  /\ Bound(p) # (observed[p] # NotObserved)
               /\ observed[p] # NotObserved /\ chain[p] = "final" =>
                    OwedExtra(p) \/ "refunded" \in extra[p] \/ observed[p].state = "REFUNDED"
    <3>1. p \in Payments /\ PaymentSound(p)
      BY <1>1, <2>1 DEF PaymentsSound, TypeOK
    <3>2. observed[p] # NotObserved <=> observed[p].state # "none"
      BY <3>1 DEF PaymentSound, NotObserved
    <3>3. Bound(p) <=> observed[p].state = "none"
      BY <2>1, <3>1 DEF PaymentSound
    <3>4. Bound(p) # (observed[p] # NotObserved)
      <4>1. Bound(p) \in BOOLEAN
        BY DEF Bound
      <4> QED
        BY <3>2, <3>3, <4>1
    <3>5. observed[p].state \in {"none", "OBSERVED", "SETTLED", "NOT_SETTLED", "REFUNDED"}
      BY <1>1, <3>1 DEF TypeOK
    <3>6. ASSUME observed[p] # NotObserved, chain[p] = "final"
          PROVE  OwedExtra(p) \/ "refunded" \in extra[p] \/ observed[p].state = "REFUNDED"
      <4>1. observed[p].state \in {"OBSERVED", "SETTLED", "REFUNDED"}
        BY <3>1, <3>2, <3>5, <3>6 DEF PaymentSound
      <4>2. observed[p].state = "SETTLED" /\ observed[p].purchase # None => "settled" \in extra[p]
        BY <3>1 DEF PaymentSound
      <4> QED
        BY <4>1, <4>2 DEF OwedExtra
    <3> QED
      BY <3>4, <3>6
  <2> QED
    BY <2>1 DEF Remembered
<1> QED
  BY <1>2, <1>3, <1>4 DEF SettledIsAccounted

(***************************************************************************)
(* What customers paid is accounted for, for any number of payments that   *)
(* arrive with refused calls, answers that come late or never, and         *)
(* restarts: nothing that was settled is written off, and it is served,    *)
(* owed, or refunded -- but for what was paid for a purchase that was      *)
(* rejected on the facilitator's answer (Store.reserve, observe_payment, resolve).            *)
(***************************************************************************)
THEOREM SettledStaysAccounted == Spec => []SettledIsAccounted
BY IInvAccounts, AlwaysIInv, PTL

LEMMA IInvJobs == IInv => JobsAreSound
<1> SUFFICES ASSUME IInv
             PROVE  JobsAreSound
  OBVIOUS
<1>1. TypeOK /\ JobsCharged /\ OneAtATime
  BY DEF IInv
<1>2. ASSUME NEW j \in Jobs
      PROVE  /\ committed[j] = Price * Cardinality({r \in Requests :
                  JobOf[r] = j /\ State(r) \notin {"none", "PAYMENT_REJECTED"}})
             /\ Budget[j] # None => committed[j] <= Budget[j]
  BY <1>1 DEF JobsCharged, Charged
<1>3. ASSUME NEW r \in Requests, NEW x \in SameQuery(r), State(x) # "DELIVERED",
             NEW y \in SameQuery(r), State(y) # "DELIVERED"
      PROVE  y = x
  <2>1. x \in Requests /\ y \in Requests /\ InProgress(x) /\ InProgress(y)
    BY <1>3 DEF SameQuery, Live, Exists, State, InProgress
  <2>2. JobOf[x] = JobOf[y] /\ QueryOf[x] = QueryOf[y]
    BY DEF SameQuery
  <2> QED
    BY <1>1, <2>1, <2>2 DEF OneAtATime
<1> QED
  BY <1>1, <1>2, <1>3 DEF JobsAreSound, JobsAgree

(***************************************************************************)
(* The types of the rows and of the tasks, and the commitment of a job:    *)
(* the price of its purchases that were not rejected, within its budget,   *)
(* one at a time for a query, whatever the number of concurrent calls      *)
(* (Store.reserve and Store.transition).                                   *)
(***************************************************************************)
THEOREM JobsStaySound == Spec => []JobsAreSound
BY IInvJobs, AlwaysIInv, PTL


-----------------------------------------------------------------------------
(***************************************************************************)
(* The payments that the operator counts: those of the purchases that were *)
(* paid, the extra ones and the orphans.  No payment is counted twice, and *)
(* each was final when it was counted.                                     *)
(***************************************************************************)
PaidBy  == {purchases[r].pay : r \in PaidRows}
Settled == {p \in arrived : chain[p] = "final"}

\* Those of them that nothing overlooks.
Seen == Settled \ Overlooked

LEMMA PaidRowsAre ==
  ASSUME IInv, NEW r \in PaidRows
  PROVE  /\ r \in Requests /\ Exists(r) /\ State(r) \in Supplied /\ purchases[r].tx # None
         /\ purchases[r].pay \in Settled /\ Bound(purchases[r].pay)
<1>1. r \in Requests /\ State(r) \in Supplied /\ purchases[r].tx # None
  BY DEF PaidRows, Paid, Supplied
<1>2. Exists(r)
  BY <1>1 DEF Exists, State, Supplied
<1>3. purchases[r].pay \in Payments /\ Bound(purchases[r].pay)
  BY <1>1, <1>2, PayIsPayment DEF IInv, Bound
<1>4. purchases[r].pay \in arrived
  BY <1>3 DEF IInv, PaymentsSound, PaymentSound
<1>5. chain[purchases[r].pay] = "final"
  BY <1>1 DEF IInv, PurchasesSound, PurchaseSound
<1> QED
  BY <1>1, <1>2, <1>3, <1>4, <1>5 DEF Settled

LEMMA PaidOnceEach ==
  ASSUME IInv
  PROVE  /\ IsFiniteSet(PaidRows) /\ IsFiniteSet(PaidBy) /\ Number(PaidBy) = Number(PaidRows)
         /\ PaidBy \subseteq Settled
<1>1. IsFiniteSet(PaidRows)
  BY SearchAssumption, FS_Subset DEF PaidRows
<1> DEFINE pay == [r \in PaidRows |-> purchases[r].pay]
<1>2. pay \in Bijection(PaidRows, PaidBy)
  <2>1. pay \in Surjection(PaidRows, PaidBy)
    BY DEF PaidBy, Surjection
  <2>2. ASSUME NEW r \in PaidRows, NEW x \in PaidRows, pay[r] = pay[x]
        PROVE  x = r
    BY <2>2, PaidRowsAre DEF IInv, OneEach
  <2>3. pay \in [PaidRows -> PaidBy] /\ DOMAIN pay = PaidRows
    BY DEF PaidBy
  <2> HIDE DEF pay
  <2> QED
    BY <2>1, <2>2, <2>3 DEF Bijection, Injection, IsInjective
<1>3. IsFiniteSet(PaidBy) /\ Cardinality(PaidBy) = Cardinality(PaidRows)
  BY <1>1, <1>2, FS_Bijection DEF ExistsBijection
<1>4. PaidBy \subseteq Settled
  BY PaidRowsAre DEF PaidBy
<1> QED
  BY <1>1, <1>3, <1>4 DEF Number

LEMMA ExtrasAre ==
  ASSUME IInv, NEW p \in ExtraSettled
  PROVE  p \in Settled /\ ~Bound(p) /\ observed[p].purchase # None
<1>1. p \in Payments /\ "settled" \in extra[p] /\ PaymentSound(p)
  BY DEF ExtraSettled, IInv, PaymentsSound
<1> QED
  BY <1>1 DEF PaymentSound, Settled

LEMMA OrphansAre ==
  ASSUME IInv, NEW p \in OrphanPaid
  PROVE  p \in Settled /\ ~Bound(p) /\ observed[p].purchase = None
<1>1. /\ p \in Payments /\ observed[p].purchase = None /\ PaymentSound(p)
      /\ observed[p].state \in {"SETTLED", "REFUNDED"}
  BY DEF OrphanPaid, IInv, PaymentsSound
<1> QED
  BY <1>1 DEF PaymentSound, Settled

LEMMA CountedOnce ==
  ASSUME IInv
  PROVE  /\ IsFiniteSet(Settled) /\ PaidBy \cup ExtraSettled \cup OrphanPaid \subseteq Settled
         /\ Number(PaidRows) \in Nat /\ Number(ExtraSettled) \in Nat /\ Number(OrphanPaid) \in Nat
         /\ Number(PaidBy \cup ExtraSettled \cup OrphanPaid) =
              Number(PaidRows) + Number(ExtraSettled) + Number(OrphanPaid)
<1>1. IsFiniteSet(Settled) /\ IsFiniteSet(ExtraSettled) /\ IsFiniteSet(OrphanPaid)
  BY SearchAssumption, FS_Subset DEF Settled, ExtraSettled, OrphanPaid, IInv, TypeOK
<1>2. IsFiniteSet(PaidBy) /\ Number(PaidBy) = Number(PaidRows)
  BY PaidOnceEach
<1>3. \A p \in PaidBy : Bound(p)
  BY PaidRowsAre DEF PaidBy
<1>4. PaidBy \cap ExtraSettled = {} /\ (PaidBy \cup ExtraSettled) \cap OrphanPaid = {}
  BY <1>3, ExtrasAre, OrphansAre
<1>5. PaidBy \cup ExtraSettled \cup OrphanPaid \subseteq Settled
  BY PaidOnceEach, ExtrasAre, OrphansAre
<1>6. Cardinality({}) = 0
  BY FS_EmptySet
<1>7. /\ IsFiniteSet(PaidBy \cup ExtraSettled)
      /\ Cardinality(PaidBy \cup ExtraSettled) = Cardinality(PaidBy) + Cardinality(ExtraSettled) - 0
  BY <1>1, <1>2, <1>4, <1>6, FS_Union
<1>8. Cardinality((PaidBy \cup ExtraSettled) \cup OrphanPaid) =
        Cardinality(PaidBy \cup ExtraSettled) + Cardinality(OrphanPaid) - 0
  BY <1>1, <1>4, <1>6, <1>7, FS_Union
<1>9. Cardinality(PaidBy) \in Nat /\ Cardinality(ExtraSettled) \in Nat /\ Cardinality(OrphanPaid) \in Nat
  BY <1>1, <1>2, FS_CardinalityType
<1> QED
  BY <1>1, <1>2, <1>5, <1>7, <1>8, <1>9 DEF Number

\* The revenue is that of payments on the chain, and no more than those.
LEMMA RevenueIs ==
  ASSUME IInv
  PROVE  /\ GrossRevenue = Price * Number(PaidBy \cup ExtraSettled \cup OrphanPaid)
         /\ GrossRevenue <= Price * Number(Settled)
<1> DEFINE counted == PaidBy \cup ExtraSettled \cup OrphanPaid
<1>1. GrossRevenue = Price * Number(counted)
  BY CountedOnce DEF GrossRevenue
<1>2. Number(counted) \in Nat /\ Number(Settled) \in Nat /\ Number(counted) <= Number(Settled)
  BY CountedOnce, FS_Subset, FS_CardinalityType DEF Number
<1>3. \A m, n \in Nat : m <= n => Price * m <= Price * n
  BY SearchAssumption
<1> QED
  BY <1>1, <1>2, <1>3

-----------------------------------------------------------------------------
(***************************************************************************)
(* What a row brought and what it cost, once both are known.               *)
(***************************************************************************)
Earned == [r \in Requests |-> IF r \in PaidRows THEN Price ELSE 0]

Spent == [r \in Requests |->
  (IF r \in PaidRows THEN Amounts("cogs")[r] + Amounts("refunds")[r] ELSE 0) + Amounts("fees")[r]]

LEMMA AmountsAre ==
  ASSUME IInv, NEW r \in Requests
  PROVE  /\ Amounts("cogs")[r] \in Nat /\ Amounts("fees")[r] \in Nat /\ Amounts("refunds")[r] \in Nat
         /\ Earned[r] \in Nat /\ Spent[r] \in Nat
<1>1. purchases[r] \in PurchaseRows
  BY RowsOf DEF IInv
<1>2. /\ Amounts("cogs")[r] \in Nat /\ Amounts("fees")[r] \in Nat /\ Amounts("refunds")[r] \in Nat
  BY <1>1 DEF Amounts, Known, PurchaseRows
<1>3. Earned[r] \in Nat
  BY SearchAssumption DEF Earned
<1>4. Spent[r] = (IF r \in PaidRows THEN Amounts("cogs")[r] + Amounts("refunds")[r] ELSE 0)
                   + Amounts("fees")[r]
  BY DEF Spent
<1> QED
  BY <1>2, <1>3, <1>4

(***************************************************************************)
(* When a margin is published every row is settled one way or the other,   *)
(* every payment that reached the chain is counted, and everything that    *)
(* came in excess has been refunded.                                       *)
(***************************************************************************)
LEMMA PublishedRows ==
  ASSUME IInv, Published, NEW r \in Requests, Exists(r)
  PROVE  /\ r \in PaidRows \cup RejectedRows /\ (r \in PaidRows => State(r) \in {"DELIVERED", "RESOLVED"})
         /\ Known(r, "cogs") /\ Known(r, "fees") /\ Owed(r) <= 0 /\ purchases[r].credits = 0
<1>1. ~UnresolvedRow(r)
  BY DEF Published
<1>2. /\ State(r) \in {"DELIVERED", "RESOLVED", "PAYMENT_REJECTED"}
      /\ Known(r, "cogs") /\ Known(r, "fees") /\ ~(Owed(r) > 0) /\ ~(purchases[r].credits > 0)
  BY <1>1 DEF UnresolvedRow
<1>3. purchases[r] \in PurchaseRows
  BY RowsOf DEF IInv
<1>4. purchases[r].credits = 0
  BY <1>2, <1>3 DEF PurchaseRows
<1>5. Owed(r) \in Nat
  BY <1>3, SearchAssumption DEF Owed, PurchaseRows
<1>6. State(r) \in {"DELIVERED", "RESOLVED"} => purchases[r].tx # None
  BY DEF IInv, PurchasesSound, PurchaseSound, Supplied
<1>7. r \in PaidRows \cup RejectedRows /\ (r \in PaidRows => State(r) \in {"DELIVERED", "RESOLVED"})
  BY <1>2, <1>6 DEF PaidRows, RejectedRows, Paid
<1> QED
  BY <1>2, <1>4, <1>5, <1>7

LEMMA PublishedPayments ==
  ASSUME IInv, Published
  PROVE  /\ Seen = PaidBy \cup ExtraSettled \cup OrphanPaid
         /\ ExtraRefunded = ExtraSettled /\ OrphanRefunded = OrphanPaid
         /\ ExtraPending = {} /\ PendingObserved = {}
<1>1. /\ OpenExtras = {} /\ ExtraPending = {} /\ PendingObserved = {} /\ OpenOrphans = {}
  BY DEF Published
<1>2. ExtraRefunded = ExtraSettled
  <2>1. ExtraRefunded \subseteq ExtraSettled
    BY DEF ExtraRefunded, ExtraSettled, IInv, PaymentsSound, PaymentSound
  <2> QED
    BY <1>1, <2>1 DEF OpenExtras
<1>3. OrphanRefunded = OrphanPaid
  BY <1>1 DEF OpenOrphans, OrphanRefunded
<1>4. ASSUME NEW p \in Seen
      PROVE  p \in PaidBy \cup ExtraSettled \cup OrphanPaid
  <2>1. p \in Payments /\ p \in arrived /\ chain[p] = "final" /\ PaymentSound(p)
    BY DEF Seen, Settled, IInv, TypeOK, PaymentsSound
  <2>2. CASE Bound(p)
    <3>1. PICK r \in Requests : purchases[r].pay = p
      BY <2>2 DEF Bound
    <3>2. Exists(r)
      BY <2>1, <3>1, SearchAssumption DEF Exists, IInv, TypeOK, State
    <3>3. r \notin RejectedRows
      BY <2>1, <3>1 DEF Seen, Overlooked, RejectedRows, IInv, PurchasesSound, PurchaseSound
    <3> QED
      BY <3>1, <3>2, <3>3, PublishedRows DEF PaidBy
  <2>3. CASE ~Bound(p)
    <3>1. observed[p].state \in {"OBSERVED", "SETTLED", "NOT_SETTLED", "REFUNDED"}
      BY <2>1, <2>3 DEF PaymentSound, IInv, TypeOK
    <3>2. CASE observed[p].state = "OBSERVED"
      <4>1. extra[p] # {} /\ extra[p] # {"pending"} /\ extra[p] \subseteq {"pending", "settled", "refunded"}
        BY <1>1, <2>1, <3>2 DEF PendingObserved, ExtraPending, IInv, TypeOK
      <4>2. "settled" \in extra[p]
        BY <2>1, <4>1 DEF PaymentSound
      <4> QED
        BY <2>1, <4>2 DEF ExtraSettled
    <3>3. CASE observed[p].state \in {"SETTLED", "REFUNDED"}
      BY <2>1, <3>3 DEF PaymentSound, ExtraSettled, OrphanPaid
    <3> QED
      BY <2>1, <3>1, <3>2, <3>3 DEF PaymentSound
  <2> QED
    BY <2>2, <2>3
<1>5. ASSUME NEW p \in Overlooked
      PROVE  p \notin PaidBy /\ p \notin ExtraSettled /\ p \notin OrphanPaid
  <2>1. PICK r \in Requests : purchases[r].unproven /\ purchases[r].pay = p
    BY DEF Overlooked
  <2>2. State(r) = "PAYMENT_REJECTED"
    BY <2>1, ProvenStates DEF IInv
  <2>3. p \notin PaidBy
    <3>1. ASSUME NEW x \in PaidRows, purchases[x].pay = p
          PROVE  FALSE
      BY <2>1, <2>2, <3>1, PaidRowsAre DEF IInv, OneEach, Supplied
    <3> QED
      BY <3>1 DEF PaidBy
  <2>4. Bound(p)
    BY <2>1 DEF Bound
  <2> QED
    BY <2>3, <2>4, ExtrasAre, OrphansAre
<1>6. Seen = PaidBy \cup ExtraSettled \cup OrphanPaid
  BY <1>4, <1>5, CountedOnce DEF Seen
<1> QED
  BY <1>1, <1>2, <1>3, <1>6

LEMMA PublishedMargins ==
  ASSUME IInv, Published
  PROVE  MarginRows = PaidRows
<1>1. OpenExtras \cup ExtraPending \cup PendingObserved = {}
  BY DEF Published
<1>2. ASSUME NEW r \in PaidRows
      PROVE  r \in MarginRows
  <2>1. r \in Requests /\ Exists(r)
    BY PaidRowsAre
  <2>2. purchases[r] \in PurchaseRows
    BY <2>1, RowsOf DEF IInv
  <2>3. Owed(r) \in Nat
    BY <2>2, SearchAssumption DEF Owed, PurchaseRows
  <2> QED
    BY <1>1, <2>1, <2>3, PublishedRows DEF MarginRows
<1> QED
  BY <1>2 DEF MarginRows

(***************************************************************************)
(* A published margin, and the one the jobs were told, are what was earned *)
(* less what was spent.                                                    *)
(***************************************************************************)
LEMMA MarginIs ==
  ASSUME IInv, Published, NEW r \in PaidRows
  PROVE  Margin(r) = Earned[r] - Spent[r]
<1>1. r \in Requests /\ Exists(r) /\ purchases[r] \in PurchaseRows
  BY PaidRowsAre, RowsOf DEF IInv
<1>2. Known(r, "cogs") /\ Known(r, "fees") /\ purchases[r].credits = 0
  BY <1>1, PublishedRows
<1>3. Known(r, "refunds")
  BY <1>1, SearchAssumption DEF Known, PurchaseRows
<1>4. /\ Earned[r] = Price
      /\ Spent[r] = Amounts("cogs")[r] + Amounts("refunds")[r] + Amounts("fees")[r]
  BY <1>1 DEF Earned, Spent
<1>5. /\ Amounts("cogs")[r] = purchases[r].cogs /\ Amounts("fees")[r] = purchases[r].fees
      /\ Amounts("refunds")[r] = purchases[r].refunds
  BY <1>1, <1>2, <1>3 DEF Amounts
<1>6. purchases[r].cogs \in Nat /\ purchases[r].fees \in Nat /\ purchases[r].refunds \in Nat
  BY <1>1, <1>5, AmountsAre
<1> QED
  BY <1>2, <1>4, <1>5, <1>6, SearchAssumption DEF Margin

LEMMA RealizedIs ==
  ASSUME IInv, Published, NEW r \in PaidRows \cup RejectedRows
  PROVE  RealizedMargin(r) = Earned[r] - Spent[r]
<1>1. CASE r \in PaidRows
  <2>1. r \in Requests /\ State(r) # "PAYMENT_REJECTED"
    BY <1>1, PaidRowsAre DEF Supplied
  <2>2. ExtrasOf(r) \cap ExtraRefunded = ExtrasOf(r)
    BY PublishedPayments DEF ExtrasOf
  <2>3. Number(ExtrasOf(r)) \in Nat
    <3>1. IsFiniteSet(ExtrasOf(r))
      BY SearchAssumption, FS_Subset DEF ExtrasOf, ExtraSettled
    <3> QED
      BY <3>1, FS_CardinalityType DEF Number
  <2>4. Margin(r) = Earned[r] - Spent[r] /\ Earned[r] \in Nat /\ Spent[r] \in Nat
    BY <1>1, <2>1, MarginIs, AmountsAre
  <2>5. RealizedMargin(r) = Margin(r) + Price * (Number(ExtrasOf(r)) - Number(ExtrasOf(r)))
    BY <2>1, <2>2 DEF RealizedMargin
  <2>6. \A n \in Nat : Price * (n - n) = 0
    BY SearchAssumption
  <2> QED
    BY <2>3, <2>4, <2>5, <2>6
<1>2. CASE r \notin PaidRows
  <2>1. r \in Requests /\ State(r) = "PAYMENT_REJECTED"
    BY <1>2 DEF RejectedRows
  <2>2. Known(r, "fees")
    BY <2>1, PublishedRows DEF Exists, State
  <2>3. Earned[r] = 0 /\ Spent[r] = 0 + Amounts("fees")[r] /\ Amounts("fees")[r] = purchases[r].fees
    BY <1>2, <2>1, <2>2 DEF Earned, Spent, Amounts
  <2>4. RealizedMargin(r) = -purchases[r].fees /\ Amounts("fees")[r] \in Nat
    BY <2>1, AmountsAre DEF RealizedMargin
  <2> QED
    BY <2>3, <2>4
<1> QED
  BY <1>1, <1>2

LEMMA MarginSum ==
  ASSUME IInv, Published
  PROVE  SumOver(Margin, PaidRows) = Total(Earned, PaidRows) - Total(Spent, PaidRows)
<1> DEFINE Summed(fold) == [s \in SUBSET PaidRows |->
                              IF s = {} THEN 0 ELSE Margin(First(s)) + fold[s \ {First(s)}]]
           sums == [s \in SUBSET PaidRows |-> Total(Earned, s) - Total(Spent, s)]
           iter == CHOOSE fold : fold = Summed(fold)
<1>1. SumOver(Margin, PaidRows) = iter[PaidRows]
  BY DEF SumOver, MapThenFoldSet, First
<1>2. PaidRows \subseteq Requests /\ IsFiniteSet(PaidRows)
  BY PaidOnceEach DEF PaidRows
<1>3. \A r \in PaidRows : Earned[r] \in Nat /\ Spent[r] \in Nat /\ Margin(r) = Earned[r] - Spent[r]
  BY <1>2, AmountsAre, MarginIs
<1>4. \A s \in SUBSET PaidRows : s # {} => Margin(First(s)) = Earned[First(s)] - Spent[First(s)]
  BY <1>3 DEF First
<1>5. sums = Summed(sums)
  <2>1. AddsUp(sums, Earned, Spent, PaidRows)
    BY <1>2, <1>3, TotalsAddUp
  <2>2. \A s \in SUBSET PaidRows :
          sums[s] = IF s = {} THEN 0 ELSE Margin(First(s)) + sums[s \ {First(s)}]
    BY <1>4, <2>1 DEF AddsUp
  <2> QED
    BY <2>2
<1>6. iter = Summed(iter)
  BY <1>5
<1>7. AddsUp(iter, Earned, Spent, PaidRows)
  <2>1. \A s \in SUBSET PaidRows :
          iter[s] = IF s = {} THEN 0 ELSE Margin(First(s)) + iter[s \ {First(s)}]
    BY <1>6
  <2> HIDE DEF iter
  <2> QED
    BY <1>4, <2>1 DEF AddsUp
<1> HIDE DEF iter
<1> QED
  BY <1>1, <1>2, <1>3, <1>7, FoldIsTotal

LEMMA RealizedSum ==
  ASSUME IInv, Published
  PROVE  LET settled == PaidRows \cup RejectedRows
         IN  SumOver(RealizedMargin, settled) = Total(Earned, settled) - Total(Spent, settled)
<1> DEFINE settled == PaidRows \cup RejectedRows
           Summed(fold) == [s \in SUBSET settled |->
                              IF s = {} THEN 0 ELSE RealizedMargin(First(s)) + fold[s \ {First(s)}]]
           sums == [s \in SUBSET settled |-> Total(Earned, s) - Total(Spent, s)]
           iter == CHOOSE fold : fold = Summed(fold)
<1>1. SumOver(RealizedMargin, settled) = iter[settled]
  BY DEF SumOver, MapThenFoldSet, First
<1>2. settled \subseteq Requests /\ IsFiniteSet(settled)
  BY SearchAssumption, FS_Subset DEF PaidRows, RejectedRows
<1>3. \A r \in settled : Earned[r] \in Nat /\ Spent[r] \in Nat /\ RealizedMargin(r) = Earned[r] - Spent[r]
  BY <1>2, AmountsAre, RealizedIs
<1>4. \A s \in SUBSET settled : s # {} => RealizedMargin(First(s)) = Earned[First(s)] - Spent[First(s)]
  BY <1>3 DEF First
<1>5. sums = Summed(sums)
  <2>1. AddsUp(sums, Earned, Spent, settled)
    BY <1>2, <1>3, TotalsAddUp
  <2>2. \A s \in SUBSET settled :
          sums[s] = IF s = {} THEN 0 ELSE RealizedMargin(First(s)) + sums[s \ {First(s)}]
    BY <1>4, <2>1 DEF AddsUp
  <2> QED
    BY <2>2
<1>6. iter = Summed(iter)
  BY <1>5
<1>7. AddsUp(iter, Earned, Spent, settled)
  <2>1. \A s \in SUBSET settled :
          iter[s] = IF s = {} THEN 0 ELSE RealizedMargin(First(s)) + iter[s \ {First(s)}]
    BY <1>6
  <2> HIDE DEF iter
  <2> QED
    BY <1>4, <2>1 DEF AddsUp
<1> HIDE DEF iter
<1> QED
  BY <1>1, <1>2, <1>3, <1>7, FoldIsTotal

LEMMA EarnedLessSpent ==
  ASSUME IInv, Published
  PROVE  /\ Total(Earned, PaidRows) - Total(Spent, PaidRows) - Total(Amounts("fees"), RejectedRows) =
              GrossRevenue - KnownCogs - RefundsPaid - KnownFees
         /\ Total(Earned, PaidRows \cup RejectedRows) - Total(Spent, PaidRows \cup RejectedRows) =
              Total(Earned, PaidRows) - Total(Spent, PaidRows) - Total(Amounts("fees"), RejectedRows)
<1>1. /\ IsFiniteSet(PaidRows) /\ IsFiniteSet(RejectedRows) /\ PaidRows \cap RejectedRows = {}
      /\ PaidRows \subseteq Requests /\ RejectedRows \subseteq Requests
  <2>1. PaidRows \cap RejectedRows = {}
    BY PaidRowsAre DEF RejectedRows, Supplied
  <2> QED
    BY <2>1, SearchAssumption, FS_Subset DEF PaidRows, RejectedRows
<1> DEFINE cogs == Amounts("cogs")
           fees == Amounts("fees")
           refunds == Amounts("refunds")
           goods == [r \in Requests |-> cogs[r] + refunds[r]]
<1>2. \A r \in Requests : /\ cogs[r] \in Nat /\ fees[r] \in Nat /\ refunds[r] \in Nat
                          /\ goods[r] \in Nat /\ goods[r] = cogs[r] + refunds[r]
                          /\ Earned[r] \in Nat /\ Spent[r] \in Nat
  BY AmountsAre
<1>3. /\ \A r \in PaidRows : Earned[r] = Price /\ Spent[r] = goods[r] + fees[r]
      /\ \A r \in RejectedRows : Earned[r] = 0 /\ Spent[r] = fees[r]
  BY <1>1, <1>2 DEF Earned, Spent
<1> HIDE DEF cogs, fees, refunds, goods
<1>4. Total(Earned, PaidRows) = Price * Number(PaidRows) /\ Total(Earned, RejectedRows) = 0
  BY <1>1, <1>3, SearchAssumption, TotalOfConstant, TotalOfNothing DEF Number
<1>5. Total(Spent, PaidRows) = Total(goods, PaidRows) + Total(fees, PaidRows)
  BY <1>1, <1>2, <1>3, TotalOfSums
<1>6. Total(goods, PaidRows) = Total(cogs, PaidRows) + Total(refunds, PaidRows)
  BY <1>1, <1>2, TotalOfSums
<1>7. Total(Spent, RejectedRows) = Total(fees, RejectedRows)
  BY <1>3, TotalSameTerms
<1>8. /\ Total(Earned, PaidRows \cup RejectedRows) = Total(Earned, PaidRows) + Total(Earned, RejectedRows)
      /\ Total(Spent, PaidRows \cup RejectedRows) = Total(Spent, PaidRows) + Total(Spent, RejectedRows)
      /\ Total(fees, PaidRows \cup RejectedRows) = Total(fees, PaidRows) + Total(fees, RejectedRows)
  BY <1>1, <1>2, TotalDisjoint
<1>9. /\ Total(Earned, PaidRows) \in Nat /\ Total(Spent, PaidRows) \in Nat
      /\ Total(fees, PaidRows) \in Nat /\ Total(fees, RejectedRows) \in Nat
      /\ Total(cogs, PaidRows) \in Nat /\ Total(refunds, PaidRows) \in Nat
  BY <1>1, <1>2, TotalType
<1>10. /\ KnownCogs = Total(cogs, PaidRows)
       /\ KnownFees = Total(fees, PaidRows) + Total(fees, RejectedRows)
  BY <1>8 DEF KnownCogs, KnownFees, cogs, fees
<1>11. RefundsPaid = Total(refunds, PaidRows) + Price * (Number(ExtraSettled) + Number(OrphanPaid))
  BY PublishedPayments DEF RefundsPaid, refunds
<1>12. /\ GrossRevenue = Price * Number(PaidRows) + Price * (Number(ExtraSettled) + Number(OrphanPaid))
       /\ Price * Number(PaidRows) \in Nat
       /\ Price * (Number(ExtraSettled) + Number(OrphanPaid)) \in Nat
  <2>1. /\ Number(PaidRows) \in Nat /\ Number(ExtraSettled) + Number(OrphanPaid) \in Nat
        /\ Number(PaidRows) + Number(ExtraSettled) + Number(OrphanPaid) =
             Number(PaidRows) + (Number(ExtraSettled) + Number(OrphanPaid))
    BY CountedOnce
  <2>2. \A m, n \in Nat : Price * (m + n) = Price * m + Price * n /\ Price * m \in Nat
    BY SearchAssumption
  <2> QED
    BY <2>1, <2>2 DEF GrossRevenue
<1>13. /\ Total(Earned, PaidRows) - Total(Spent, PaidRows) - Total(fees, RejectedRows) =
            GrossRevenue - KnownCogs - RefundsPaid - KnownFees
       /\ Total(Earned, PaidRows \cup RejectedRows) - Total(Spent, PaidRows \cup RejectedRows) =
            Total(Earned, PaidRows) - Total(Spent, PaidRows) - Total(fees, RejectedRows)
  BY <1>4, <1>5, <1>6, <1>7, <1>8, <1>9, <1>10, <1>11, <1>12
<1> QED
  BY <1>13 DEF fees

LEMMA IInvBooks == IInv => BooksMatchTheChain
<1> SUFFICES ASSUME IInv
             PROVE  BooksMatchTheChain
  OBVIOUS
<1> DEFINE counted == PaidBy \cup ExtraSettled \cup OrphanPaid
<1>1. GrossRevenue = Price * Number(counted) /\ GrossRevenue <= Price * Number(Settled)
  BY RevenueIs
<1>2. ASSUME Published
      PROVE  /\ GrossRevenue = Price * Number(Seen)
             /\ KnownMargin = GrossRevenue - KnownCogs - RefundsPaid - KnownFees
             /\ KnownMargin = SumOver(RealizedMargin, {r \in Requests : Exists(r)})
  <2>1. counted = Seen
    BY <1>2, PublishedPayments
  <2>2. KnownMargin = Total(Earned, PaidRows) - Total(Spent, PaidRows) - Total(Amounts("fees"), RejectedRows)
    BY <1>2, MarginSum, PublishedMargins DEF KnownMargin
  <2>3. {r \in Requests : Exists(r)} = PaidRows \cup RejectedRows
    <3>1. PaidRows \cup RejectedRows \subseteq {r \in Requests : Exists(r)}
      BY PaidRowsAre DEF RejectedRows, Exists, State
    <3> QED
      BY <1>2, <3>1, PublishedRows
  <2> QED
    BY <1>1, <1>2, <2>1, <2>2, <2>3, EarnedLessSpent, RealizedSum
<1>3. Seen = {p \in arrived \ Overlooked : chain[p] = "final"}
  BY DEF Seen, Settled
<1> QED
  BY <1>1, <1>2, <1>3 DEF BooksMatchTheChain, Settled

(***************************************************************************)
(* What the operator is told is true, for any number of purchases and      *)
(* payments, costs and refunds: the revenue is never more than what was    *)
(* paid on the chain, and a published margin counts every payment once     *)
(* whose purchase was not rejected on the facilitator's answer alone,      *)
(* and agrees with the totals next to it and with what each job was told   *)
(* (metrics.report, economics.financial_state).                            *)
(***************************************************************************)
THEOREM BooksStayTrue == Spec => []BooksMatchTheChain
BY IInvBooks, AlwaysIInv, PTL
=============================================================================
