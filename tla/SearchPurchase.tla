--------------------------- MODULE SearchPurchase ---------------------------
(***************************************************************************)
(* Job-safe search (hosted/job_safe_search): a search is sold for one      *)
(* signed payment, which the service settles, waits to be final, and then  *)
(* spends on one call of a supplier.                                       *)
(*                                                                         *)
(* One process holds the writer lease.  In it run the calls of buyers and  *)
(* a loop that recovers what a call left behind; each is a task, whose     *)
(* awaits (of the facilitator, the chain, the supplier) end a step.  What  *)
(* a task does between two awaits is one step, save where a crash between  *)
(* two of its transactions matters.  Anything awaited may raise, answer    *)
(* late, or not see yet what has happened.                                 *)
(*                                                                         *)
(* A payment here is an authorization that some payer signed: the          *)
(* facilitator, or a proxy of the buyer's, may have it included in the     *)
(* chain while it is valid.  Whether a job's token, or a result in the     *)
(* cache, has expired is for the clock to say: both answers are tried.     *)
(***************************************************************************)
EXTENDS Integers, FiniteSets, Money

CONSTANTS
  Requests,      \* the request_ids, each used for one query in one job
  JobOf, QueryOf,
  Payments,      \* the signed authorizations, (payer, nonce) each
  Calls, Loop,   \* the tasks: calls of buyers, and the recovery loop
  Jobs, Budget,  \* the jobs, and job_budget_usd of each (None: unlimited)
  Price, SupplierBound, FeeBound, RiskCeiling, \* of the deployment's Config
  Costs,         \* what suppliers and facilitators charge, in the end
  RealizedFee,   \* realized_payment_fee, None on mainnet
  None,
  MaxCrashes     \* bound

ASSUME SearchAssumption ==
  /\ IsFiniteSet(Requests) /\ None \notin Requests
  /\ IsFiniteSet(Payments) /\ None \notin Payments
  /\ Loop \notin Calls
  /\ JobOf \in [Requests -> Jobs] /\ Budget \in [Jobs -> Nat \cup {None}]
  /\ Price \in Nat \ {0} /\ SupplierBound \in Nat /\ FeeBound \in Nat
  /\ RiskCeiling \in Nat /\ Costs \subseteq Nat
  /\ None \notin Nat \cup {"carrier", "failed"} /\ RealizedFee \in {None} \cup (0 .. FeeBound)
  /\ MaxCrashes \in Nat

VARIABLES
  purchases, \* table purchases, by request
  committed, \* jobs.committed
  aliases,   \* table aliases: the purchase a request was served from
  observed,  \* table payment_observations: the state of each, and its purchase
  extra,     \* the kinds of EXTRA_.. events each payment has
  chain,     \* what became of each authorization on the chain
  supplied,  \* how often the supplier was called for each purchase
  arrived,   \* the payments that a call brought
  pc,        \* of each task: where it is,
  on,        \* its purchase,
  about,     \* and the payment it reconciles
  row,       \* what the loop read of the purchase: its state and transaction
  crashes,   \* how often the process was restarted,
  recovers   \* and whether it has a block to recover from (recovery_from_block)

process == <<crashes, recovers>>
store == <<purchases, committed, aliases, observed, extra>>
local == <<pc, on, about, row>>
vars  == <<store, chain, supplied, arrived, local, process>>

-----------------------------------------------------------------------------
Tasks == Calls \cup {Loop}

\* The transaction a row names: the one that carries the payment, or another.
Transactions == {None, "carrier", "failed"}

\* unproven is a ghost: it was rejected on the facilitator's answer alone.
NoPurchase == [state |-> "none", pay |-> None, tx |-> None, cogs |-> None, fees |-> None,
               liability |-> 0, refunds |-> 0, credits |-> 0, result |-> FALSE, unproven |-> FALSE]

Reserved(p) == [NoPurchase EXCEPT !.state = "RESERVED", !.pay = p]

NotRead == [state |-> "none", tx |-> None]

NotObserved == [state |-> "none", purchase |-> None]

Exists(r) == purchases[r].state # "none"
Bound(p)  == \E r \in Requests : purchases[r].pay = p
State(r)  == purchases[r].state

\* outstanding
Outstanding(r) == State(r) \notin {"none", "DELIVERED", "PAYMENT_REJECTED", "RESOLVED"}

Interrupted(r) ==
  State(r) \in {"SUPPLIER_INFLIGHT", "SUPPLIER_UNKNOWN", "SERVICE_FAILED", "DELIVERED", "RESOLVED"}
    /\ ~purchases[r].result

\* fulfillment_liability
Owed(r) ==
  LET old == purchases[r]
      unfulfilled == IF Interrupted(r) /\ old.refunds < Price THEN Price - old.refunds ELSE 0
  IN  IF old.liability >= unfulfilled THEN old.liability ELSE unfulfilled

\* production_app: a deployment on mainnet has a block to recover from.
Configurations == {block \in BOOLEAN : RealizedFee = None => block}

Init ==
  /\ purchases = [r \in Requests |-> NoPurchase]
  /\ committed = [j \in Jobs |-> 0]
  /\ aliases = [r \in Requests |-> None]
  /\ observed = [p \in Payments |-> NotObserved]
  /\ extra = [p \in Payments |-> {}]
  /\ chain = [p \in Payments |-> "unused"]
  /\ supplied = [r \in Requests |-> 0]
  /\ arrived = {}
  /\ pc = [t \in Tasks |-> "idle"]
  /\ on = [t \in Tasks |-> None]
  /\ about = [t \in Tasks |-> None]
  /\ row = NotRead
  /\ crashes = 0 /\ recovers \in Configurations

-----------------------------------------------------------------------------
(* The chain, and what it answers.                                         *)

Include(p) == chain[p] = "unused" /\ chain' = [chain EXCEPT ![p] = "included"]
Reorg(p)   == chain[p] = "included" /\ chain' = [chain EXCEPT ![p] = "unused"]
Finalize(p) == chain[p] = "included" /\ chain' = [chain EXCEPT ![p] = "final"]
Expire(p)  == chain[p] = "unused" /\ chain' = [chain EXCEPT ![p] = "expired"]

ChainMoves ==
  /\ \E p \in Payments : Include(p) \/ Reorg(p) \/ Finalize(p) \/ Expire(p)
  /\ UNCHANGED <<store, supplied, arrived, local, process>>

\* find_transaction answers a transaction only once it is included; a bounded
\* scan of the logs may miss it.
Findable(p) == chain[p] \in {"included", "final"}

\* confirmed
Confirmed(p, tx) == tx = "carrier" /\ chain[p] = "final"

\* Mutant: a payment that was not found is taken to be impossible.
ImpossibleUnlessFound(p) == ~Findable(p)

\* settlement_impossible: expired at the finalized head, and its nonce unspent.
Impossible(p) == chain[p] = "expired"

-----------------------------------------------------------------------------
(* The transactions of the store.                                          *)

Updated(old, changes) ==
  [k \in DOMAIN old |-> IF k \in DOMAIN changes THEN changes[k] ELSE old[k]]

Moves(r, expected) == State(r) = expected

Released(target) == IF target = "PAYMENT_REJECTED" THEN Price ELSE 0

(***************************************************************************)
(* transition: a compare-and-set on the state of a purchase.               *)
(***************************************************************************)
Transition(r, expected, target, changes) ==
  IF Moves(r, expected)
    THEN /\ purchases' = [purchases EXCEPT ![r] = Updated([@ EXCEPT !.state = target], changes)]
         /\ committed' = [committed EXCEPT ![JobOf[r]] = @ - Released(target)]
    ELSE UNCHANGED <<purchases, committed>>

NoChange == [state \in {} |-> None]

\* What a purchase is given whose payment may have been made.
PaymentUnknown(tx) == [tx |-> tx, liability |-> Price]

FinalityPending(tx) == [tx |-> tx, liability |-> Price, fees |-> RealizedFee]

Task(t, where, r, p) ==
  /\ pc' = [pc EXCEPT ![t] = where]
  /\ on' = [on EXCEPT ![t] = r]
  /\ about' = [about EXCEPT ![t] = p]

Goto(t, where) == pc' = [pc EXCEPT ![t] = where] /\ UNCHANGED <<on, about>>

Done(t) == Task(t, "idle", None, None)

\* A call goes on to advance the purchase it is about, if it has one.
After(t) == IF on[t] = None THEN Done(t) ELSE Task(t, "advance", on[t], None)

-----------------------------------------------------------------------------
(* Calls of buyers.                                                        *)

\* observe_payment: a payment that no purchase is bound to is remembered before
\* anything is asked about it.
Observe(t, p, r, where) ==
  IF p = None \/ Bound(p)
    THEN /\ UNCHANGED observed
         /\ IF r = None THEN Done(t) ELSE Task(t, "advance", r, None)
    ELSE /\ observed' = IF observed[p] = NotObserved
                          THEN [observed EXCEPT ![p] = [state |-> "OBSERVED", purchase |-> where]]
                          ELSE observed
         /\ IF observed'[p].state = "OBSERVED" THEN Task(t, "observe", r, p)
              ELSE IF r = None THEN Done(t) ELSE Task(t, "advance", r, None)

Arrives(p) == arrived' = arrived \cup ({p} \ {None})

Served(r) == IF Exists(r) THEN r ELSE aliases[r]

(***************************************************************************)
(* A request that is known, or was served from the cache: a payment it     *)
(* brings is not its own, unless it is the one it is bound to.             *)
(***************************************************************************)
Repeat(t, r, p) ==
  /\ pc[t] = "idle"
  /\ Served(r) # None
  /\ Observe(t, IF p = purchases[Served(r)].pay THEN None ELSE p, Served(r), Served(r))
  /\ Arrives(p)
  /\ UNCHANGED <<purchases, committed, aliases, extra, chain, supplied, row, process>>

Live(r) == Exists(r) /\ State(r) \notin {"PAYMENT_REJECTED", "RESOLVED"}

SameQuery(r) == {x \in Requests : Live(x) /\ JobOf[x] = JobOf[r] /\ QueryOf[x] = QueryOf[r]}

\* cached: with the job's token, and a result that is fresh.
ServeFromCache(t, r, p) ==
  /\ pc[t] = "idle"
  /\ Served(r) = None
  /\ \E x \in SameQuery(r) :
       /\ State(x) = "DELIVERED"
       /\ aliases' = [aliases EXCEPT ![r] = x]
       /\ Observe(t, IF p = purchases[x].pay THEN None ELSE p, None, x)
  /\ Arrives(p)
  /\ UNCHANGED <<purchases, committed, extra, chain, supplied, row, process>>

\* Known costs above what the deployment allows for stop new paid work.
SupplierBlocked == \E r \in Requests : Exists(r) /\ purchases[r].cogs # None /\ purchases[r].cogs > SupplierBound
FeeBlocked == \E r \in Requests : Exists(r) /\ purchases[r].fees # None /\ purchases[r].fees > FeeBound
Blocked == SupplierBlocked \/ FeeBlocked

AtLeast(n, known) == IF known = None \/ known < n THEN n ELSE known

\* What an unresolved purchase may still cost: a refund, the supplier and the fees.
Exposure == [r \in Requests |->
  Price + AtLeast(SupplierBound, purchases[r].cogs) + AtLeast(FeeBound, purchases[r].fees)]

Unresolved(r) ==
  /\ Exists(r)
  /\ \/ Outstanding(r) \/ purchases[r].cogs = None \/ purchases[r].fees = None
     \/ purchases[r].liability > 0 \/ purchases[r].credits > 0
     \/ Interrupted(r) /\ purchases[r].refunds < Price

\* extra_liability, for one payment.
OwedExtra(p) ==
  \/ extra[p] \cap {"pending", "settled"} # {} /\ "refunded" \notin extra[p]
  \/ observed[p].state = "OBSERVED"
  \/ observed[p].state = "SETTLED" /\ observed[p].purchase = None

Risk == Total(Exposure, {r \in Requests : Unresolved(r)})
          + Price * Cardinality({p \in Payments : OwedExtra(p)})

WithinRisk == Risk + Price + SupplierBound + FeeBound <= RiskCeiling

WithinBudget(j) == Budget[j] = None \/ committed[j] + Price <= Budget[j]

Free(p) == ~Bound(p) /\ observed[p] = NotObserved

\* Mutant: only a delivered result of the same query is looked for.
NeverInProgress(r) == TRUE

NotInProgress(r) == \A x \in SameQuery(r) : State(x) = "DELIVERED"

(***************************************************************************)
(* reserve: a new purchase, charged to its job and bound to its payment.   *)
(***************************************************************************)
Reserve(t, r, p) ==
  /\ pc[t] = "idle"
  /\ Served(r) = None
  /\ ~Blocked
  /\ NotInProgress(r) /\ WithinBudget(JobOf[r]) /\ WithinRisk /\ Free(p)
  /\ purchases' = [purchases EXCEPT ![r] = Reserved(p)]
  /\ committed' = [committed EXCEPT ![JobOf[r]] = @ + Price]
  /\ Arrives(p)
  /\ Task(t, "advance", r, None)
  /\ UNCHANGED <<aliases, observed, extra, chain, supplied, row, process>>

(***************************************************************************)
(* A call that is refused, whatever the reason: its body did not arrive or *)
(* is not valid, a conflict, the budget, the risk, a breached cost.  A     *)
(* payment that came with it may have been made.                           *)
(***************************************************************************)
Refuse(t, p) ==
  /\ pc[t] = "idle"
  /\ Observe(t, p, None, None)
  /\ Arrives(p)
  /\ UNCHANGED <<purchases, committed, aliases, extra, chain, supplied, row, process>>

Call(t) ==
  \/ \E r \in Requests, p \in Payments \cup {None} : Repeat(t, r, p) \/ ServeFromCache(t, r, p)
  \/ \E r \in Requests, p \in Payments : Reserve(t, r, p)
  \/ \E p \in Payments : Refuse(t, p)

-----------------------------------------------------------------------------
(* reconcile_observation: what became of a payment that bought nothing.    *)

Resolve(p, state) ==
  observed' = IF observed[p].state = "OBSERVED"
                THEN [observed EXCEPT ![p].state = state] ELSE observed

RecordExtra(p, kind) == extra' = [extra EXCEPT ![p] = @ \cup {kind}]

Owner(t) == observed[about[t]].purchase

\* find_transaction raises; finds it, which is noted if it came with a purchase's
\* request; or does not find it.  Without a block to search from it is not called.
FoundObserved(t) ==
  /\ pc[t] = "observe" /\ recovers
  /\ Findable(about[t])
  /\ IF Owner(t) = None THEN UNCHANGED extra ELSE RecordExtra(about[t], "pending")
  /\ Goto(t, "confirm observed")
  /\ UNCHANGED <<purchases, committed, aliases, observed, chain, supplied, arrived, row, process>>

NotFoundObserved(t) ==
  /\ pc[t] = "observe" /\ recovers
  /\ Goto(t, "exclude observed")
  /\ UNCHANGED <<store, chain, supplied, arrived, row, process>>

ConfirmedObserved(t) ==
  /\ pc[t] = "confirm observed"
  /\ Confirmed(about[t], "carrier")
  /\ Goto(t, IF Owner(t) = None THEN "resolve observed" ELSE "record observed")
  /\ UNCHANGED <<store, chain, supplied, arrived, row, process>>

RecordObserved(t) ==
  /\ pc[t] = "record observed"
  /\ RecordExtra(about[t], "settled")
  /\ Goto(t, "resolve observed")
  /\ UNCHANGED <<purchases, committed, aliases, observed, chain, supplied, arrived, row, process>>

ResolveObserved(t) ==
  /\ pc[t] = "resolve observed"
  /\ Resolve(about[t], "SETTLED")
  /\ After(t)
  /\ UNCHANGED <<purchases, committed, aliases, extra, chain, supplied, arrived, row, process>>

ExcludedObserved(t) ==
  /\ pc[t] = "exclude observed"
  /\ Impossible(about[t])
  /\ Resolve(about[t], "NOT_SETTLED")
  /\ After(t)
  /\ UNCHANGED <<purchases, committed, aliases, extra, chain, supplied, arrived, row, process>>

\* The chain cannot say yet, or its answer does not come.
UnsureObserved(t) ==
  /\ pc[t] \in {"observe", "confirm observed", "exclude observed"}
  /\ After(t)
  /\ UNCHANGED <<store, chain, supplied, arrived, row, process>>

Reconcile(t) ==
  \/ FoundObserved(t) \/ NotFoundObserved(t) \/ ConfirmedObserved(t) \/ RecordObserved(t)
  \/ ResolveObserved(t) \/ ExcludedObserved(t) \/ UnsureObserved(t)

-----------------------------------------------------------------------------
(* advance: one purchase, from its payment to the supplier's answer.       *)

Enter(t) ==
  /\ pc[t] = "advance"
  /\ IF State(on[t]) = "RESERVED" /\ ~Blocked
       THEN Transition(on[t], "RESERVED", "VERIFYING", NoChange) /\ Goto(t, "verify")
       ELSE /\ IF State(on[t]) = "FINALITY_PENDING" THEN Goto(t, "confirm") ELSE Done(t)
            /\ UNCHANGED <<purchases, committed>>
  /\ UNCHANGED <<aliases, observed, extra, chain, supplied, arrived, row, process>>

Pay(t) == purchases[on[t]].pay

\* What a purchase is given that is rejected on the facilitator's answer.
Refused == [cogs |-> 0, fees |-> 0, unproven |-> TRUE]

\* verify raises or says no: the payment may have been made already, so it is
\* looked for, if there is a block to search from.  If there is none, a purchase
\* that verify says no to is rejected, as is any for which it names another payer.
\* It says yes: the purchase is SETTLING.
Verify(t) ==
  /\ pc[t] = "verify"
  /\ \/ /\ recovers
        /\ \E answer \in {"find after error", "find after refusal"} : Goto(t, answer)
        /\ UNCHANGED <<purchases, committed>>
     \/ ~recovers /\ Transition(on[t], "VERIFYING", "RESERVED", NoChange) /\ Done(t)
     \/ Transition(on[t], "VERIFYING", "PAYMENT_REJECTED", Refused) /\ Done(t)
     \/ /\ Transition(on[t], "VERIFYING", "SETTLING", NoChange)
        /\ IF Moves(on[t], "VERIFYING") THEN Goto(t, "settle") ELSE Done(t)
  /\ UNCHANGED <<aliases, observed, extra, chain, supplied, arrived, row, process>>

RefusedIs == "PAYMENT_UNKNOWN"

FoundVerified(t) ==
  /\ pc[t] \in {"find after error", "find after refusal"}
  /\ Findable(Pay(t))
  /\ Transition(on[t], "VERIFYING", "FINALITY_PENDING", FinalityPending("carrier"))
  /\ Goto(t, "advance")
  /\ UNCHANGED <<aliases, observed, extra, chain, supplied, arrived, row, process>>

NotFoundVerified(t) ==
  /\ pc[t] \in {"find after error", "find after refusal"}
  /\ \/ Transition(on[t], "VERIFYING", "RESERVED", NoChange) /\ Done(t)
     \/ /\ pc[t] = "find after refusal"
        /\ Transition(on[t], "VERIFYING", RefusedIs, PaymentUnknown(None))
        /\ Done(t)
  /\ UNCHANGED <<aliases, observed, extra, chain, supplied, arrived, row, process>>

\* settle raises; fails, perhaps naming a transaction that failed or that was
\* included after all; or succeeds.
Settle(t) ==
  /\ pc[t] = "settle"
  /\ \/ \E tx \in Transactions :
          /\ tx = "carrier" => Findable(Pay(t))
          /\ Transition(on[t], "SETTLING", "PAYMENT_UNKNOWN", PaymentUnknown(tx))
          /\ Done(t)
     \/ /\ Findable(Pay(t))
        /\ Transition(on[t], "SETTLING", "FINALITY_PENDING", FinalityPending("carrier"))
        /\ Goto(t, "advance")
  /\ UNCHANGED <<aliases, observed, extra, chain, supplied, arrived, row, process>>

\* The chain answers; then the intent is committed before the supplier is called.
Dispatch(t) ==
  /\ pc[t] = "confirm"
  /\ Confirmed(Pay(t), purchases[on[t]].tx) /\ ~Blocked
  /\ Transition(on[t], "FINALITY_PENDING", "SUPPLIER_INFLIGHT", NoChange)
  /\ IF Moves(on[t], "FINALITY_PENDING")
       THEN Goto(t, "search") /\ supplied' = [supplied EXCEPT ![on[t]] = @ + 1]
       ELSE Done(t) /\ UNCHANGED supplied
  /\ UNCHANGED <<aliases, observed, extra, chain, arrived, row, process>>

Unconfirmed(t) ==
  /\ pc[t] = "confirm"
  /\ Done(t)
  /\ UNCHANGED <<store, chain, supplied, arrived, row, process>>

\* What an adapter returns or raises: hits, or a failure, and what it is known to
\* have cost.  Billing is read before the answer is judged, so a failure may carry
\* a cost (an empty result) or none (nothing readable came back).
SupplierAnswers == [cogs : Costs \cup {None}, then : {"deliver", "fail"}]

\* What it charged is recorded before the answer is looked at.
Search(t) ==
  /\ pc[t] = "search"
  /\ \E answer \in SupplierAnswers :
       /\ Transition(on[t], "SUPPLIER_INFLIGHT", "SUPPLIER_INFLIGHT", [cogs |-> answer.cogs])
       /\ answer.cogs # None /\ answer.cogs > SupplierBound => answer.then = "fail"
       /\ Goto(t, answer.then)
  /\ UNCHANGED <<aliases, observed, extra, chain, supplied, arrived, row, process>>

Deliver(t) ==
  /\ pc[t] = "deliver"
  /\ Transition(on[t], "SUPPLIER_INFLIGHT", "DELIVERED", [result |-> TRUE, liability |-> 0])
  /\ Done(t)
  /\ UNCHANGED <<aliases, observed, extra, chain, supplied, arrived, row, process>>

Fail(t) ==
  /\ pc[t] = "fail"
  /\ Transition(on[t], "SUPPLIER_INFLIGHT",
                IF purchases[on[t]].cogs # None THEN "SERVICE_FAILED" ELSE "SUPPLIER_UNKNOWN", NoChange)
  /\ Done(t)
  /\ UNCHANGED <<aliases, observed, extra, chain, supplied, arrived, row, process>>

Advance(t) ==
  \/ Enter(t) \/ Verify(t) \/ FoundVerified(t) \/ NotFoundVerified(t) \/ Settle(t)
  \/ Dispatch(t) \/ Unconfirmed(t) \/ Search(t) \/ Deliver(t) \/ Fail(t)

-----------------------------------------------------------------------------
(* recover: the loop, if there is a block to recover from.  It takes what  *)
(* it lists in any order here, so what it read of a row may be old when it *)
(* comes to it.                                                            *)

TakeObservation(p) ==
  /\ pc[Loop] = "idle" /\ recovers
  /\ observed[p].state = "OBSERVED"
  /\ Task(Loop, "observe", None, p)
  /\ UNCHANGED <<store, chain, supplied, arrived, row, process>>

\* pending_extra_payments
TakeExtra(p) ==
  /\ pc[Loop] = "idle" /\ recovers
  /\ extra[p] \cap {"pending", "settled"} = {"pending"}
  /\ Confirmed(p, "carrier")
  /\ RecordExtra(p, "settled")
  /\ UNCHANGED <<purchases, committed, aliases, observed, chain, supplied, arrived, local, process>>

Recoverable == {"SETTLING", "PAYMENT_UNKNOWN"}

\* The rows in other states it passes over.
TakePurchase(r) ==
  /\ pc[Loop] = "idle" /\ recovers
  /\ \/ /\ State(r) \in {"RESERVED", "FINALITY_PENDING"}
        /\ Task(Loop, "advance", r, None)
        /\ UNCHANGED row
     \/ /\ State(r) \in Recoverable
        /\ row' = [state |-> State(r), tx |-> purchases[r].tx]
        /\ Task(Loop, IF row'.tx # None THEN "confirm recovered" ELSE "find recovered", r, None)
  /\ UNCHANGED <<store, chain, supplied, arrived, process>>

FoundRecovered ==
  /\ pc[Loop] = "find recovered"
  /\ Findable(Pay(Loop))
  /\ row' = [row EXCEPT !.tx = "carrier"]
  /\ Goto(Loop, "confirm recovered")
  /\ UNCHANGED <<store, chain, supplied, arrived, process>>

NotFoundRecovered ==
  /\ pc[Loop] = "find recovered"
  /\ Goto(Loop, "exclude recovered")
  /\ UNCHANGED <<store, chain, supplied, arrived, row, process>>

\* A transaction is known: nothing else than its confirmation moves the purchase.
ConfirmedRecovered ==
  /\ pc[Loop] = "confirm recovered"
  /\ Confirmed(Pay(Loop), row.tx)
  /\ Transition(on[Loop], row.state, "FINALITY_PENDING", FinalityPending(row.tx))
  /\ Goto(Loop, "advance") /\ row' = NotRead
  /\ UNCHANGED <<aliases, observed, extra, chain, supplied, arrived, process>>

ExcludedRecovered ==
  /\ pc[Loop] = "exclude recovered"
  /\ Impossible(Pay(Loop))
  /\ Transition(on[Loop], row.state, "PAYMENT_REJECTED",
                [cogs |-> 0, fees |-> RealizedFee, liability |-> 0])
  /\ Goto(Loop, "advance") /\ row' = NotRead
  /\ UNCHANGED <<aliases, observed, extra, chain, supplied, arrived, process>>

\* The chain cannot say, and the purchase is advanced; or its answer does not come.
UnsureRecovered ==
  /\ \/ pc[Loop] \in {"find recovered", "confirm recovered", "exclude recovered"} /\ Done(Loop)
     \/ pc[Loop] \in {"confirm recovered", "exclude recovered"} /\ Goto(Loop, "advance")
  /\ row' = NotRead
  /\ UNCHANGED <<store, chain, supplied, arrived, process>>

Recover ==
  \/ \E p \in Payments : TakeObservation(p) \/ TakeExtra(p)
  \/ \E r \in Requests : TakePurchase(r)
  \/ FoundRecovered \/ NotFoundRecovered \/ ConfirmedRecovered \/ ExcludedRecovered
  \/ UnsureRecovered

\* Mutant: an interrupted supplier call is made again.
CalledAgain(state) ==
  IF state = "VERIFYING" THEN "RESERVED" ELSE IF state = "SUPPLIER_INFLIGHT" THEN "FINALITY_PENDING" ELSE state

\* create_app: without a block to recover from it starts only with nothing open.
MayStart(block) ==
  \/ block
  \/ /\ \A r \in Requests : ~Outstanding(r)
     /\ \A p \in Payments :
          observed[p].state # "OBSERVED" /\ extra[p] \cap {"pending", "settled"} # {"pending"}

\* prepare_recovery, before anything else runs; where nothing is open it has
\* nothing to do.
Prepared(state) ==
  IF state = "VERIFYING" THEN "RESERVED" ELSE IF state = "SUPPLIER_INFLIGHT" THEN "SUPPLIER_UNKNOWN" ELSE state

Restart ==
  /\ crashes < MaxCrashes
  /\ crashes' = crashes + 1
  /\ recovers' \in {block \in Configurations : MayStart(block)}
  /\ purchases' = [r \in Requests |-> [purchases[r] EXCEPT !.state = Prepared(@)]]
  /\ pc' = [t \in Tasks |-> "idle"]
  /\ on' = [t \in Tasks |-> None]
  /\ about' = [t \in Tasks |-> None]
  /\ row' = NotRead
  /\ UNCHANGED <<committed, aliases, observed, extra, chain, supplied, arrived>>

-----------------------------------------------------------------------------
(* The operator, with evidence, while the service runs or not.             *)

Paid(r) == State(r) \in {"SUPPLIER_UNKNOWN", "SERVICE_FAILED", "DELIVERED", "RESOLVED"} /\ purchases[r].tx # None

NotReduced(known, new) == known # None => new >= known

Fulfilled(r, refunds, credits) == purchases[r].result \/ refunds + credits >= Price

ResolveFinancials(r, cogs, fees, refunds, credits) ==
  LET old == purchases[r]
      rejected == State(r) = "PAYMENT_REJECTED"
  IN
  /\ rejected \/ Paid(r)
  /\ rejected => cogs = 0 /\ refunds = 0 /\ credits = 0
  /\ ~rejected => Fulfilled(r, refunds, credits)
  /\ NotReduced(old.cogs, cogs) /\ NotReduced(old.fees, fees) /\ refunds >= old.refunds
  /\ credits < old.credits => refunds - old.refunds >= old.credits - credits
  /\ purchases' = [purchases EXCEPT ![r] =
       [old EXCEPT !.state = IF rejected THEN old.state ELSE IF old.result THEN "DELIVERED" ELSE "RESOLVED",
                 !.cogs = cogs, !.fees = fees, !.refunds = refunds, !.credits = credits,
                 !.liability = credits]]
  /\ UNCHANGED <<committed, aliases, observed, extra>>

\* A result that was recovered from the supplier.
ReconcileResult(r, cogs) ==
  LET old == purchases[r] IN
  /\ State(r) \in {"SUPPLIER_UNKNOWN", "SERVICE_FAILED"} /\ old.tx # None
  /\ old.cogs \in {None, cogs}
  /\ old.refunds = 0 /\ old.credits = 0
  /\ purchases' = [purchases EXCEPT ![r] =
       [old EXCEPT !.state = "DELIVERED", !.result = TRUE, !.cogs = cogs, !.liability = 0]]
  /\ UNCHANGED <<committed, aliases, observed, extra>>

ReconcileExtraRefund(p) ==
  /\ "settled" \in extra[p] /\ "refunded" \notin extra[p]
  /\ RecordExtra(p, "refunded")
  /\ UNCHANGED <<purchases, committed, aliases, observed>>

ReconcileUnfulfilledRefund(p) ==
  /\ observed[p] = [state |-> "SETTLED", purchase |-> None]
  /\ observed' = [observed EXCEPT ![p].state = "REFUNDED"]
  /\ UNCHANGED <<purchases, committed, aliases, extra>>

Operate ==
  /\ \/ \E r \in Requests, cogs, fees \in Costs \cup {0}, refunds, credits \in {0, Price} :
          ResolveFinancials(r, cogs, fees, refunds, credits)
     \/ \E r \in Requests, cogs \in Costs : ReconcileResult(r, cogs)
     \/ \E p \in Payments : ReconcileExtraRefund(p) \/ ReconcileUnfulfilledRefund(p)
  /\ UNCHANGED <<chain, supplied, arrived, local, process>>

Next ==
  \/ ChainMoves
  \/ \E t \in Calls : Call(t)
  \/ \E t \in Tasks : Reconcile(t) \/ Advance(t)
  \/ Recover
  \/ Restart
  \/ Operate

Spec == Init /\ [][Next]_vars

(***************************************************************************)
(* The loop runs for as long as the process does and comes to every row,   *)
(* and what is awaited answers or raises in the end.  An endpoint that is  *)
(* asked again and again is not down, and has not caught up, for ever.     *)
(***************************************************************************)
Fairness ==
  /\ \A t \in Tasks : WF_vars(Advance(t) \/ Reconcile(t))
  /\ WF_vars(NotFoundRecovered \/ UnsureRecovered)
  /\ \A p \in Payments : SF_vars(TakeObservation(p))
  /\ \A r \in Requests : SF_vars(TakePurchase(r))
  /\ SF_vars(FoundRecovered \/ \E t \in Tasks : FoundObserved(t) \/ FoundVerified(t))
  /\ SF_vars(\E t \in Tasks : NotFoundObserved(t))
  /\ SF_vars(ConfirmedRecovered \/ \E t \in Tasks : ConfirmedObserved(t) \/ Dispatch(t))
  /\ SF_vars(\E t \in Tasks : ExcludedObserved(t))

FairSpec == Spec /\ Fairness

-----------------------------------------------------------------------------
States ==
  {"none", "RESERVED", "VERIFYING", "SETTLING", "PAYMENT_UNKNOWN", "FINALITY_PENDING",
   "SUPPLIER_INFLIGHT", "SUPPLIER_UNKNOWN", "SERVICE_FAILED", "DELIVERED", "PAYMENT_REJECTED",
   "RESOLVED"}

\* The rows and the tasks keep their types, and a task that advances a purchase
\* or reconciles a payment has one.
TypeOK ==
  /\ purchases \in [Requests -> [state : States, pay : Payments \cup {None}, tx : Transactions,
       cogs : Nat \cup {None}, fees : Nat \cup {None}, liability : Nat, refunds : Nat,
       credits : Nat, result : BOOLEAN, unproven : BOOLEAN]]
  /\ \A r \in Requests : (State(r) = "none") = (purchases[r].pay = None)
  /\ committed \in [Jobs -> Nat]
  /\ aliases \in [Requests -> Requests \cup {None}]
  /\ observed \in [Payments ->
       [state : {"none", "OBSERVED", "SETTLED", "NOT_SETTLED", "REFUNDED"},
        purchase : Requests \cup {None}]]
  /\ extra \in [Payments -> SUBSET {"pending", "settled", "refunded"}]
  /\ chain \in [Payments -> {"unused", "included", "final", "expired"}]
  /\ supplied \in [Requests -> Nat]
  /\ arrived \subseteq Payments
  /\ \A t \in Tasks :
       \/ pc[t] = "idle" /\ on[t] = None /\ about[t] = None
       \/ /\ pc[t] \in {"observe", "confirm observed", "exclude observed", "record observed",
                        "resolve observed"}
          /\ on[t] \in Requests \cup {None} /\ about[t] \in Payments
       \/ /\ pc[t] \in {"advance", "verify", "find after error", "find after refusal", "settle",
                        "confirm", "search", "deliver", "fail", "find recovered",
                        "confirm recovered", "exclude recovered"}
          /\ on[t] \in Requests /\ about[t] = None
  /\ row \in [state : States, tx : Transactions]
  /\ crashes \in 0 .. MaxCrashes /\ recovers \in Configurations

\* However calls, the loop and restarts interleave, a purchase calls the supplier
\* at most once, and never before its payment is final (advance, prepare_recovery).
SupplierPaidOnce ==
  \A r \in Requests : supplied[r] # 0 => supplied[r] = 1 /\ chain[purchases[r].pay] = "final"

\* A payment that was made bought its purchase, or is remembered: no observation
\* says that it was not made, and no row but one that was rejected unproven.
NothingWrittenOff ==
  \A p \in Payments : chain[p] = "final" =>
    /\ observed[p].state # "NOT_SETTLED"
    /\ \A r \in Requests : purchases[r].pay = p =>
         State(r) # "PAYMENT_REJECTED" \/ purchases[r].unproven

\* The result of a purchase that was paid is there, or its price is owed, credited
\* or refunded, unless it was rejected unproven.
ServedOrOwed ==
  \A r \in Requests :
    Exists(r) /\ chain[purchases[r].pay] = "final"
      /\ State(r) \notin {"RESERVED", "VERIFYING", "SETTLING"} /\ ~purchases[r].unproven
      => purchases[r].result \/ Owed(r) + purchases[r].refunds >= Price

\* Every payment that a call brought is either bound to one purchase or observed,
\* and one that was made without buying anything is owed until it is refunded.
Remembered ==
  \A p \in arrived :
    /\ Bound(p) # (observed[p] # NotObserved)
    /\ observed[p] # NotObserved /\ chain[p] = "final" =>
         OwedExtra(p) \/ "refunded" \in extra[p] \/ observed[p].state = "REFUNDED"

\* What customers paid is accounted for, through refusals that brought a payment,
\* answers that came late or never, and restarts between two transactions -- all
\* but the payments of purchases that were rejected on the facilitator's answer.
SettledIsAccounted == NothingWrittenOff /\ ServedOrOwed /\ Remembered

\* A job's commitment is the price of its purchases that were not rejected, and
\* never more than its budget; a query of a job is bought by one purchase at a time.
JobsAgree ==
  /\ \A j \in Jobs :
       /\ committed[j] = Price * Cardinality({r \in Requests :
            JobOf[r] = j /\ State(r) \notin {"none", "PAYMENT_REJECTED"}})
       /\ Budget[j] # None => committed[j] <= Budget[j]
  /\ \A r \in Requests : \A x \in SameQuery(r) :
       State(x) # "DELIVERED" => \A y \in SameQuery(r) : y = x \/ State(y) = "DELIVERED"

\* While there is a block to recover from: a payment that became final gets what it
\* bought, or ends where an operator is to make it good - unless a breached cost
\* stopped the service, a settlement answered with a transaction that failed, or
\* its purchase was rejected unproven; and an observed payment that became final,
\* or cannot be made any more, is recognized as what it is.
PaymentsEnd ==
  /\ \A r \in Requests :
       Exists(r) /\ chain[purchases[r].pay] = "final" ~>
         \/ State(r) \in {"SUPPLIER_UNKNOWN", "SERVICE_FAILED", "DELIVERED", "RESOLVED"}
         \/ Blocked \/ purchases[r].tx = "failed" \/ purchases[r].unproven \/ ~recovers
  /\ \A p \in Payments :
       observed[p].state = "OBSERVED" /\ chain[p] \in {"final", "expired"} ~>
         observed[p].state # "OBSERVED" \/ ~recovers

(***************************************************************************)
(* A job's commitment is that of its purchases, one at a time for a query, *)
(* and every variable holds values of its kind.                            *)
(***************************************************************************)
JobsAreSound == TypeOK /\ JobsAgree
=============================================================================
