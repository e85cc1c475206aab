---------------------------- MODULE HostedReport ----------------------------
(***************************************************************************)
(* What the operator of Inferrail Hosted reads off the ledger: the report  *)
(* of adoption, money and liabilities, without the traffic of his own      *)
(* (report.build), and the statement of a workspace.  All are computed     *)
(* from one snapshot of the tables; counted events are left out.           *)
(***************************************************************************)
EXTENDS Hosted, Money

CONSTANTS
  Internal,         \* workspaces of the founder and of tests
  InternalPayments  \* payments from test wallets

External == workspaces \ Internal

-----------------------------------------------------------------------------
(* Adoption. *)

AnsweredRuns(w) == {id \in RunIds : id[1] = w /\ runs[id].state = "billed"}

PaidAnswered(w) == AnsweredRuns(w) \cap Paid(w)

-----------------------------------------------------------------------------
(* Purchases and money. *)

Made == {p \in Payments : grants[p] # None}

ExternalGrants == {p \in Made : grants[p] \notin Internal /\ p \notin InternalPayments}

GrantsOf(w) == {p \in ExternalGrants : grants[p] = w}

RefundedOf(ps) == Total([p \in Payments |-> reversals[p].cents], ps)

TakenBack(ps) == Total([p \in Payments |-> reversals[p].runs], ps)

Gross == PackCents * Cardinality(ExternalGrants)

NetCash == Gross - RefundedOf(ExternalGrants)

VerifiedRefunds == RefundCents * Cardinality({t \in Refunds : proofs[t] \in ExternalGrants})

WithoutProof == PositivePart(RefundedOf(ExternalGrants \cap Buys) - VerifiedRefunds)

NetRuns(w)  == PackRuns * Cardinality(GrantsOf(w)) - TakenBack(GrantsOf(w))

NetCents(w) == PackCents * Cardinality(GrantsOf(w)) - RefundedOf(GrantsOf(w))

Customers == {w \in Workspaces : NetRuns(w) > 0}

Consumed(w) ==
  LET answered == IF w \in External THEN Cardinality(PaidAnswered(w)) ELSE 0
  IN  IF answered < NetRuns(w) THEN answered ELSE NetRuns(w)

\* A consumed run is worth the average net price of its workspace; the sum of
\* the fractions is rounded down.
Recognized ==
  LET common == Product([w \in Customers |-> NetRuns(w)], Customers)
      part == [w \in Customers |-> Consumed(w) * NetCents(w) * (common \div NetRuns(w))]
  IN  Total(part, Customers) \div common

\* Mutant: only the credits that no call holds are owed.
DeferredUnheld == Total([w \in Customers |-> PositivePart(Credits(w)) * Price], Customers)

\* What is not consumed is owed at the highest price paid.
Deferred == Total([w \in Customers |-> (NetRuns(w) - Consumed(w)) * Price], Customers)

ExternalPending == {b \in AwaitingPayment : pending[b].ws \notin Internal /\ b \notin InternalPayments}

OwedToExternal == Deferred + PackCents * Cardinality(ExternalPending)

-----------------------------------------------------------------------------
(* The ledger's own figures. *)

StatementOf(w) ==
  [grants |-> Granted(w), reversals |-> {p \in Granted(w) : reversals[p] # NoReversal},
   pending |-> {b \in AwaitingPayment : pending[b].ws = w},
   credits |-> Credits(w)]

\* revenue: by source, net of refunds.
Revenue(source) ==
  LET mine == Made \cap source IN PackCents * Cardinality(mine) - RefundedOf(mine)

(***************************************************************************)
(* Every cent that came in and was not paid back is either earned or owed, *)
(* and no more is earned than came in: also after a partial refund, after  *)
(* a refund of what was already used, and while calls hold credits.  No    *)
(* refund in USDC is recorded without its proof; leaving the operator's    *)
(* own traffic out loses nothing; and a workspace's statement agrees with  *)
(* the report of what it is owed (report.build, revenue, statement).       *)
(***************************************************************************)
ReportAddsUp ==
  /\ Recognized <= NetCash /\ NetCash <= Recognized + Deferred
  /\ WithoutProof = 0
  /\ Revenue(Buys) + Revenue(Sessions)
       = NetCash + PackCents * Cardinality(Made \ ExternalGrants) - RefundedOf(Made \ ExternalGrants)
  /\ OwedToExternal <= OwedIfShutDown
  /\ \A w \in External :
       Granted(w) \cap InternalPayments = {} /\ NetRuns(w) > 0 =>
         PositivePart(StatementOf(w).credits) <= NetRuns(w) - Consumed(w)
=============================================================================
