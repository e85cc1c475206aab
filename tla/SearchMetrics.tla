---------------------------- MODULE SearchMetrics ----------------------------
(***************************************************************************)
(* What the operator is told about job-safe search (metrics.report): one   *)
(* snapshot of the ledger's three records of money -- the purchases, the   *)
(* events about additional payments, the payments observed without a       *)
(* purchase -- added up to revenue, costs and a realized margin.  No       *)
(* wallet is excluded, and a refund costs no fee of its own.               *)
(***************************************************************************)
EXTENDS SearchPurchase, Folds

Number(S) == Cardinality(S)

Known(r, field) == Exists(r) /\ purchases[r][field] # None

Amounts(field) == [r \in Requests |-> IF Known(r, field) THEN purchases[r][field] ELSE 0]

PaidRows     == {r \in Requests : Paid(r) \/ (State(r) = "SUPPLIER_INFLIGHT" /\ purchases[r].tx # None)}
RejectedRows == {r \in Requests : State(r) = "PAYMENT_REJECTED"}

(***************************************************************************)
(* A payment that came with no purchase, and one that came in addition to  *)
(* a purchase's own; an observation that has an event counts only as that. *)
(***************************************************************************)
OrphanPaid     == {p \in Payments : observed[p].purchase = None /\ observed[p].state \in {"SETTLED", "REFUNDED"}}
OrphanRefunded == {p \in OrphanPaid : observed[p].state = "REFUNDED"}
ExtraSettled   == {p \in Payments : "settled" \in extra[p]}
ExtraRefunded  == {p \in Payments : "refunded" \in extra[p]}
ExtraPending   == {p \in Payments : extra[p] = {"pending"}}
\* Mutant: what is merely observed is not waited for.
NeverPending == {}

PendingObserved == {p \in Payments : observed[p].state = "OBSERVED" /\ extra[p] = {}}

\* gross_external_settled_revenue_usd
GrossRevenue == Price * (Number(PaidRows) + Number(ExtraSettled) + Number(OrphanPaid))

KnownCogs == Total(Amounts("cogs"), PaidRows)
KnownFees == Total(Amounts("fees"), PaidRows \cup RejectedRows)

RefundsPaid == Total(Amounts("refunds"), PaidRows) + Price * (Number(ExtraRefunded) + Number(OrphanRefunded))

\* unresolved
UnresolvedRow(r) ==
  /\ Exists(r)
  /\ \/ State(r) \notin {"DELIVERED", "RESOLVED", "PAYMENT_REJECTED"}
     \/ ~Known(r, "cogs") \/ ~Known(r, "fees")
     \/ Owed(r) > 0 \/ purchases[r].credits > 0

OpenOrphans == OrphanPaid \ OrphanRefunded
OpenExtras  == ExtraSettled \ ExtraRefunded

\* margin_rows
MarginRows ==
  {r \in PaidRows : /\ State(r) \in {"DELIVERED", "RESOLVED"}
                    /\ Known(r, "cogs") /\ Known(r, "fees")
                    /\ Owed(r) = 0 /\ purchases[r].credits = 0
                    /\ \A p \in Payments :
                         observed[p].purchase = r => p \notin OpenExtras \cup ExtraPending \cup PendingObserved}

Margin(r) == Price - purchases[r].cogs - purchases[r].refunds - purchases[r].credits - purchases[r].fees

\* realized_external_contribution_margin_usd: None while anything is open.
Published ==
  /\ \A r \in Requests : ~UnresolvedRow(r)
  /\ OpenExtras \cup ExtraPending \cup PendingObserved \cup OpenOrphans = {}

SumOver(amount(_), S) ==
  MapThenFoldSet(LAMBDA m, n : m + n, 0, amount, LAMBDA R : CHOOSE r \in R : TRUE, S)

KnownMargin == SumOver(Margin, MarginRows) - Total(Amounts("fees"), RejectedRows)

(* What a job is told of its own purchase (economics.financial_state). *)

ExtrasOf(r) == {p \in ExtraSettled : observed[p].purchase = r}

\* DELIVERED or RESOLVED with nothing unknown or owed, or rejected at no cost.
Resolved(r) ==
  /\ State(r) \in {"DELIVERED", "RESOLVED", "PAYMENT_REJECTED"}
  /\ Known(r, "cogs") /\ Known(r, "fees")
  /\ State(r) = "PAYMENT_REJECTED" => purchases[r].cogs = 0
  /\ Owed(r) = 0 /\ purchases[r].credits = 0
  /\ \A p \in Payments : observed[p].purchase = r => ~OwedExtra(p)

\* realized_margin, of a resolved purchase.
RealizedMargin(r) ==
  IF State(r) = "PAYMENT_REJECTED" THEN -purchases[r].fees
  ELSE Margin(r) + Price * (Number(ExtrasOf(r)) - Number(ExtrasOf(r) \cap ExtraRefunded))

\* The payments whose purchase was rejected unproven.
Overlooked == {purchases[r].pay : r \in {x \in Requests : purchases[x].unproven}}

(***************************************************************************)
(* The revenue is never more than what was paid on the chain; and a margin *)
(* that is published is over every payment that reached the chain, each    *)
(* counted once -- all but those whose purchase was rejected on the        *)
(* facilitator's answer alone, which nothing counts -- and agrees with the *)
(* totals published next to it and, when each job was told that it is      *)
(* settled, with what each was told (report, financial_state).             *)
(***************************************************************************)
BooksMatchTheChain ==
  /\ GrossRevenue <= Price * Number({p \in arrived : chain[p] = "final"})
  /\ Published =>
       /\ GrossRevenue = Price * Number({p \in arrived \ Overlooked : chain[p] = "final"})
       /\ KnownMargin = GrossRevenue - KnownCogs - RefundsPaid - KnownFees
       /\ (\A r \in Requests : Exists(r) => Resolved(r)) =>
            KnownMargin = SumOver(RealizedMargin, {r \in Requests : Exists(r)})
=============================================================================
