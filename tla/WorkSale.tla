------------------------------ MODULE WorkSale ------------------------------
(***************************************************************************)
(* The sale of work economics (hosted/work_economics).  The x402           *)
(* middleware verifies a payment, runs the handler, and settles when it    *)
(* answered 200; the handler quotes, records the payment and executes, in  *)
(* three transactions of a store keyed by the purchase id that the buyer   *)
(* chose.  Processes may share the database file.                          *)
(*                                                                         *)
(* The input is a sequence of events, each of a known cost, of unknown     *)
(* cost or malformed; breakdowns by class and supplier sum the same costs. *)
(* A request without a purchase id is answered before anything changes.    *)
(***************************************************************************)
EXTENDS Integers, FiniteSets, Sequences

CONSTANTS
  Purchases,     \* the purchase ids
  Signed,        \* signed payments
  Invocations,   \* the requests that may be handled at once
  Inputs,        \* the inputs: sequences of costs
  MaxSaleCrashes \* bound

UnknownCost == -1
Malformed   == -2

ASSUME SaleAssumption ==
  /\ IsFiniteSet(Purchases) /\ IsFiniteSet(Signed) /\ IsFiniteSet(Invocations)
  /\ Inputs \subseteq Seq(Nat \cup {UnknownCost, Malformed})
  /\ MaxSaleCrashes \in Nat

VARIABLES
  purchases,  \* the table: status, and the stored result and its input
  invoking,   \* what each request is in the middle of
  charged,    \* the payments that moved their money, with their purchases
  told,       \* how often each purchase was answered as newly charged
  saleCrashes

saleVars == <<purchases, invoking, charged, told, saleCrashes>>

-----------------------------------------------------------------------------
NotAnswered == [kind |-> "none", total |-> 0, exact |-> FALSE]

NotQuoted == [status |-> "none", result |-> NotAnswered, from |-> <<>>]

NotInvoking == [at |-> "free", for |-> "", by |-> "", input |-> <<>>, newly |-> FALSE]

SaleInit ==
  /\ purchases = [q \in Purchases |-> NotQuoted]
  /\ invoking = [i \in Invocations |-> NotInvoking]
  /\ charged = {} /\ told = [q \in Purchases |-> 0] /\ saleCrashes = 0

(***************************************************************************)
(* EconomicEvent.from_dict and compute_work_economics: one pass over the   *)
(* events; no total is made up when no cost is known.                      *)
(***************************************************************************)
Unpriced(events) == {n \in DOMAIN events : events[n] = UnknownCost}

KnownTotal(events) ==
  LET total[n \in 0 .. Len(events)] ==
        IF n = 0 THEN 0
        ELSE total[n - 1] + (IF n \in Unpriced(events) THEN 0 ELSE events[n])
  IN  total[Len(events)]

Economics(events) ==
  IF events = <<>> \/ \E n \in DOMAIN events : events[n] = Malformed
  THEN [kind |-> "error", total |-> 0, exact |-> FALSE]
  ELSE [kind |-> "answer",
        total |-> IF Unpriced(events) = DOMAIN events THEN UnknownCost ELSE KnownTotal(events),
        exact |-> Unpriced(events) = {}]

-----------------------------------------------------------------------------
(***************************************************************************)
(* invoke: verified, and the three transactions.                           *)
(***************************************************************************)
Spent(p) == \E c \in charged : c.by = p

Verify(i, q, p, input) ==
  /\ invoking[i] = NotInvoking
  /\ ~Spent(p)
  /\ invoking' = [invoking EXCEPT ![i] =
       [at |-> "quoting", for |-> q, by |-> p, input |-> input, newly |-> FALSE]]
  /\ UNCHANGED <<purchases, charged, told, saleCrashes>>

Moves(i, place) == invoking' = [invoking EXCEPT ![i].at = place]

CreateQuote(i) ==
  LET q == invoking[i].for IN
  /\ invoking[i].at = "quoting"
  /\ purchases' = IF purchases[q] = NotQuoted THEN [purchases EXCEPT ![q].status = "QUOTED"]
                  ELSE purchases
  /\ Moves(i, "paying")
  /\ UNCHANGED <<charged, told, saleCrashes>>

NewlyPaid(q) == purchases[q].status = "QUOTED"

RecordPayment(i) ==
  LET q == invoking[i].for IN
  /\ invoking[i].at = "paying"
  /\ purchases' = IF NewlyPaid(q) THEN [purchases EXCEPT ![q].status = "PAYMENT_VERIFIED"]
                  ELSE purchases
  /\ invoking' = [invoking EXCEPT ![i].at = "executing", ![i].newly = NewlyPaid(q)]
  /\ UNCHANGED <<charged, told, saleCrashes>>

ExecutesAgain(q) == purchases[q].status \in {"PAYMENT_VERIFIED", "EXECUTED"}

Executes(q) == purchases[q].status = "PAYMENT_VERIFIED"

ExecuteOnce(i) ==
  LET q == invoking[i].for IN
  /\ invoking[i].at = "executing"
  /\ purchases' = IF Executes(q)
                  THEN [purchases EXCEPT ![q] = [status |-> "EXECUTED", from |-> invoking[i].input,
                                                 result |-> Economics(invoking[i].input)]]
                  ELSE purchases
  /\ Moves(i, IF purchases'[q].result.kind = "error" THEN "rejected" ELSE "settling")
  /\ UNCHANGED <<charged, told, saleCrashes>>

(***************************************************************************)
(* The middleware: an error is answered without settling; a settlement     *)
(* that fails replaces the answer, and may have moved the money.           *)
(***************************************************************************)
Answered(i) ==
  /\ invoking' = [invoking EXCEPT ![i] = NotInvoking]
  /\ told' = IF invoking[i].newly THEN [told EXCEPT ![invoking[i].for] = @ + 1] ELSE told

Charge(i) ==
  /\ ~Spent(invoking[i].by)
  /\ charged' = charged \cup {[by |-> invoking[i].by, for |-> invoking[i].for]}

Refuse(i) ==
  /\ invoking[i].at = "rejected"
  /\ Answered(i)
  /\ UNCHANGED <<purchases, charged, saleCrashes>>

SettleSale(i) ==
  /\ invoking[i].at = "settling"
  /\ Charge(i)
  /\ Answered(i)
  /\ UNCHANGED <<purchases, saleCrashes>>

SettleSaleFails(i) ==
  /\ invoking[i].at = "settling"
  /\ Charge(i) \/ UNCHANGED charged
  /\ invoking' = [invoking EXCEPT ![i] = NotInvoking]
  /\ UNCHANGED <<purchases, told, saleCrashes>>

\* The process of i dies; the others go on.
SaleCrash(i) ==
  /\ invoking[i] # NotInvoking
  /\ saleCrashes < MaxSaleCrashes /\ saleCrashes' = saleCrashes + 1
  /\ invoking' = [invoking EXCEPT ![i] = NotInvoking]
  /\ UNCHANGED <<purchases, charged, told>>

SaleNext ==
  \E i \in Invocations :
    \/ \E q \in Purchases, p \in Signed, input \in Inputs : Verify(i, q, p, input)
    \/ CreateQuote(i) \/ RecordPayment(i) \/ ExecuteOnce(i)
    \/ Refuse(i) \/ SettleSale(i) \/ SettleSaleFails(i) \/ SaleCrash(i)

SaleSpec == SaleInit /\ [][SaleNext]_saleVars

-----------------------------------------------------------------------------
(***************************************************************************)
(* Every variable holds values of its kind (DurablePurchaseStore).         *)
(***************************************************************************)
SaleTypeOK ==
  /\ \A q \in Purchases :
       /\ purchases[q].status \in {"none", "QUOTED", "PAYMENT_VERIFIED", "EXECUTED"}
       /\ purchases[q].result.kind \in {"none", "error", "answer"}
       /\ purchases[q].result.kind # "none" <=> purchases[q].status = "EXECUTED"
       /\ told[q] \in Nat
  /\ \A i \in Invocations :
       invoking[i].at \in {"free", "quoting", "paying", "executing", "rejected", "settling"}
  /\ charged \subseteq [by : Signed, for : Purchases]
  /\ saleCrashes \in 0 .. MaxSaleCrashes

(***************************************************************************)
(* However often a purchase is invoked, by requests that cross or die: it  *)
(* is answered as newly charged once; money moves only for one that has an *)
(* answer; the answer is of the input it was computed from, with a total   *)
(* that is exact or of at most the known costs, and none for nothing known *)
(* (record_payment, execute_once, compute_work_economics).                 *)
(***************************************************************************)
PaidForAnAnswer ==
  /\ \A q \in Purchases : told[q] <= 1
  /\ \A c \in charged : purchases[c.for].result.kind = "answer"
  /\ \A q \in Purchases :
       LET result == purchases[q].result
           costs == {n \in DOMAIN purchases[q].from : purchases[q].from[n] >= 0}
       IN  result.kind = "answer" =>
             /\ result.exact <=> costs = DOMAIN purchases[q].from
             /\ IF costs = {} THEN result.total = UnknownCost
                ELSE /\ \A n \in costs : purchases[q].from[n] <= result.total
                     /\ result.total = 0 => \A n \in costs : purchases[q].from[n] = 0

(***************************************************************************)
(* store.py's docstring: a retried or replayed request for the same        *)
(* purchase id is never charged twice.                                     *)
(***************************************************************************)
ChargedOncePerPurchase == \A c, d \in charged : c.for = d.for => c = d
=============================================================================
