------------------------------- MODULE Hosted -------------------------------
(***************************************************************************)
(* Inferrail Hosted (hosted/budget_gateway): workspaces whose governed     *)
(* runs are metered against a monthly free allowance and prepaid credits,  *)
(* and the two rails that sell those credits.                              *)
(*                                                                         *)
(* One process holds the lock of the data directory.  Its handlers run on  *)
(* one event loop, reconciliation in a thread beside it, and an operator's *)
(* commands (ops.py) in processes of their own on the same file, so a step *)
(* is one transaction of the ledger, or what a handler does between two    *)
(* awaits.                                                                 *)
(*                                                                         *)
(* What the engine does with an admitted call is BudgetAdmission's: here   *)
(* the provider answers it or does not.  A request that is refused (no     *)
(* key, no allowance, a sales limit) changes nothing and has no action.    *)
(* Both rails sell packs of PackRuns runs at one price per run.            *)
(***************************************************************************)
EXTENDS Integers, FiniteSets

CONSTANTS
  Workspaces, MaxWorkspaces,
  Works,        \* work ids
  Free,         \* free_runs_per_month
  PackRuns, Price, \* a pack, and the cents of a run
  MaxOwed,      \* max_outstanding_credits_usd, in cents
  Requests,     \* the handlers that may be busy at once
  Buys,         \* signed x402 authorizations, (payer, nonce) each
  Sessions,     \* Stripe Checkout sessions, each with its payment intent
  Refunds,      \* transactions that sent USDC back, of RefundCents each
  RefundCents,
  Loop, Operators, \* what reconciles: the server's loop, and operators
  None,
  MaxMonth, MaxCrashes, MaxUnread \* bounds

Reconcilers == {Loop} \cup Operators
Payments    == Buys \cup Sessions
PackCents   == PackRuns * Price

ASSUME HostedAssumption ==
  /\ IsFiniteSet(Workspaces) /\ IsFiniteSet(Works) /\ IsFiniteSet(Requests)
  /\ IsFiniteSet(Payments) /\ Buys \cap Sessions = {} /\ IsFiniteSet(Refunds)
  /\ Loop \notin Operators
  /\ None \notin Workspaces \cup Payments
  /\ MaxWorkspaces \in Nat /\ Free \in Nat /\ MaxOwed \in Nat
  /\ PackRuns \in Nat \ {0} /\ Price \in Nat \ {0} /\ RefundCents \in Nat \ {0}
  /\ MaxMonth \in Nat /\ MaxCrashes \in Nat /\ MaxUnread \in Nat

VARIABLES
  workspaces, \* table workspaces
  runs,       \* table governed_runs
  grants,     \* table credit_grants: the workspace of each payment
  reversals,  \* table credit_reversals
  pending,    \* table pending_purchases
  proofs,     \* table refund_proofs: what each refund's transaction backs
  server,     \* the process: down, starting (its first reconciliation), serving
  req,        \* what each handler is in the middle of
  pass,       \* of each reconciler: the rows it has yet to decide, and an answer
  month,
  used,       \* the authorizations used on the chain
  valid,      \* of each: valid, lapsed (validBefore), past (and the grace too)
  sent,       \* those a facilitator may still get onto the chain
  session,    \* what Stripe has of each session
  wire,       \* Stripe's events that are yet to be delivered, or again
  refunding,  \* refunds that an operator has recorded and not yet applied
  unread,     \* calls of each run whose streamed answer nobody began to read
  missed,     \* sessions whose refund was delivered before their payment
  writtenOff, \* purchases that reconciliation failed
  crashes

tables == <<workspaces, runs, grants, reversals, pending, proofs>>
stripe == <<session, wire, missed>>
chain  == <<used, valid, sent>>
vars   == <<tables, server, req, pass, month, chain, stripe, refunding, unread,
            writtenOff, crashes>>

-----------------------------------------------------------------------------
(***************************************************************************)
(* The ledger: runs, and the balance of a workspace.                       *)
(***************************************************************************)
RunIds == Workspaces \X (0 .. MaxMonth) \X Works

NoRun == [state |-> "none", paid |-> FALSE, inflight |-> 0]

NoReversal == [runs |-> 0, cents |-> 0]

NotPending == [state |-> "none", ws |-> None]

Known(id) == runs[id].state # "none"

MonthRuns(w) == Cardinality({k \in Works : Known(<<w, month, k>>)})

Paid(w) == {id \in RunIds : id[1] = w /\ runs[id].paid}

Granted(w) == {p \in Payments : grants[p] = w}

\* The runs reversed of the payments of w: the sum of reversals[p].runs.
Reversed(w) == Cardinality(UNION {{p} \X (1 .. reversals[p].runs) : p \in Granted(w)})

Credits(w) == PackRuns * Cardinality(Granted(w)) - Reversed(w) - Cardinality(Paid(w))

AwaitingPayment == {b \in Buys : pending[b].state = "pending"}

PositivePart(n) == IF n > 0 THEN n ELSE 0

Owed == Price * Cardinality(UNION {{w} \X (1 .. PositivePart(Credits(w))) : w \in Workspaces})
          + PackCents * Cardinality(AwaitingPayment)

\* The operator's report: runs sold, less those refunded and those of billed runs.
Unspent(w) ==
  LET net    == PackRuns * Cardinality(Granted(w)) - Reversed(w)
      billed == Cardinality({id \in Paid(w) : runs[id].state = "billed"})
  IN PositivePart(net - billed)

OwedIfShutDown ==
  Price * Cardinality(UNION {{w} \X (1 .. Unspent(w)) : w \in Workspaces})
    + PackCents * Cardinality(AwaitingPayment)

MayAdmitWithoutCredit(id) == Known(id) \/ MonthRuns(id[1]) < Free \/ Credits(id[1]) >= 0

MayAdmit(id) == Known(id) \/ MonthRuns(id[1]) < Free \/ Credits(id[1]) > 0

\* hold_run
Hold(id) ==
  runs' = [runs EXCEPT ![id] =
             IF Known(id) THEN [runs[id] EXCEPT !.inflight = @ + 1]
             ELSE [state |-> "held", paid |-> MonthRuns(id[1]) >= Free, inflight |-> 1]]

ClosedKeepingHold(id, answered) ==
  [runs[id] EXCEPT !.inflight = PositivePart(@ - 1), !.state = IF answered THEN "billed" ELSE @]

ClosedUnbilling(id, answered) ==
  IF ~answered /\ runs[id].inflight = 1 THEN NoRun ELSE ClosedKeepingHold(id, answered)

\* The row of a run one of whose calls ended, answered or not.
Closed(id, answered) ==
  LET row == [runs[id] EXCEPT !.inflight = PositivePart(@ - 1)] IN
  IF answered /\ Known(id) THEN [row EXCEPT !.state = "billed"]
  ELSE IF row.state = "held" /\ row.inflight = 0 THEN NoRun ELSE row

FinishCall(id, answered) == runs' = [runs EXCEPT ![id] = Closed(id, answered)]

ReleaseOrphanedHolds ==
  runs' = [id \in RunIds |-> IF runs[id].state = "held" THEN NoRun
                             ELSE [runs[id] EXCEPT !.inflight = 0]]

(***************************************************************************)
(* The ledger: credits.                                                    *)
(***************************************************************************)
Grant(p, w) == grants' = [grants EXCEPT ![p] = IF @ = None THEN w ELSE @]

Larger(m, n) == IF m > n THEN m ELSE n

\* The runs that refunding that many cents of a pack takes back.
Share(cents) == IF cents >= PackCents THEN PackRuns ELSE (PackRuns * cents) \div PackCents

\* apply_refund of a payment that was granted.
Reverse(p, refunded) ==
  LET cents == IF refunded > PackCents THEN PackCents ELSE refunded IN
  reversals' = [reversals EXCEPT ![p].runs = Larger(@, Share(cents)),
                                 ![p].cents = Larger(@, cents)]

RecordPending(b, w) ==
  pending' = [pending EXCEPT ![b] = IF @.state = "none" THEN [state |-> "pending", ws |-> w] ELSE @]

SettlePending(b) ==
  /\ IF pending[b].state = "none" THEN UNCHANGED grants ELSE Grant(b, pending[b].ws)
  /\ pending' = [pending EXCEPT ![b].state = IF @ = "none" THEN @ ELSE "settled"]

FailPending(b) ==
  pending' = [pending EXCEPT ![b].state = IF @ = "pending" THEN "failed" ELSE @]

-----------------------------------------------------------------------------
Idle == [at |-> "idle"]

Call(at, id) == [at |-> at, run |-> id]

Purchase(stage, b) == [at |-> stage, buy |-> b]

NoPass == [todo |-> {}, asked |-> None, answer |-> "none", past |-> {}]

PassOverValid(rows) == [NoPass EXCEPT !.todo = {b \in rows : valid[b] = "valid"}]

PassOver(rows) == [NoPass EXCEPT !.todo = rows, !.past = {b \in Buys : valid[b] = "past"}]

Init ==
  /\ workspaces = {}
  /\ runs = [id \in RunIds |-> NoRun]
  /\ grants = [p \in Payments |-> None]
  /\ reversals = [p \in Payments |-> NoReversal]
  /\ pending = [b \in Buys |-> NotPending]
  /\ proofs = [t \in Refunds |-> None]
  /\ server = "serving"
  /\ req = [q \in Requests |-> Idle]
  /\ pass = [r \in Reconcilers |-> NoPass]
  /\ month = 0
  /\ used = {} /\ sent = {}
  /\ valid = [b \in Buys |-> "valid"]
  /\ session = [s \in Sessions |-> [ws |-> None, paid |-> FALSE, refunded |-> 0]]
  /\ wire = {}
  /\ refunding = {}
  /\ unread = [id \in RunIds |-> 0]
  /\ missed = {}
  /\ writtenOff = {}
  /\ crashes = 0

Authenticated(w) == w \in workspaces

Ready(q) == server = "serving" /\ req[q] = Idle

Go(q, next) == req' = [req EXCEPT ![q] = next]

CreateWorkspace(w) ==
  /\ server = "serving"
  /\ w \notin workspaces /\ Cardinality(workspaces) < MaxWorkspaces
  /\ workspaces' = workspaces \cup {w}
  /\ UNCHANGED <<runs, grants, reversals, pending, proofs, server, req, pass, month, chain,
                 stripe, refunding, unread, writtenOff, crashes>>

(***************************************************************************)
(* A call of a run: admitted, sent to the provider, and closed.  One that  *)
(* asked for a stream, once that is prepared, is closed by the generator   *)
(* of its answer, which only runs if the server began to send it.          *)
(***************************************************************************)
Admit(q, w, k) ==
  LET id == <<w, month, k>> IN
  /\ Ready(q) /\ Authenticated(w)
  /\ MayAdmit(id)
  /\ Hold(id)
  /\ Go(q, Call("called", id))
  /\ UNCHANGED <<workspaces, grants, reversals, pending, proofs, server, pass, month, chain,
                 stripe, refunding, unread, writtenOff, crashes>>

Close(q, answered) ==
  /\ FinishCall(req[q].run, answered)
  /\ Go(q, Idle)
  /\ UNCHANGED <<workspaces, grants, reversals, pending, proofs, server, pass, month, chain,
                 stripe, refunding, unread, writtenOff, crashes>>

Answered(q) == req[q].at = "called" /\ Close(q, TRUE)

NotAnswered(q) == req[q].at = "called" /\ Close(q, FALSE)

StreamPrepared(q) ==
  /\ req[q].at = "called"
  /\ Go(q, Call("reading", req[q].run))
  /\ UNCHANGED <<tables, server, pass, month, chain, stripe, refunding, unread, writtenOff, crashes>>

StreamEnded(q) == req[q].at = "reading" /\ Close(q, TRUE)

NeverRead(q) ==
  /\ req[q].at = "reading"
  /\ unread[req[q].run] < MaxUnread
  /\ unread' = [unread EXCEPT ![req[q].run] = @ + 1]
  /\ Go(q, Idle)
  /\ UNCHANGED <<tables, server, pass, month, chain, stripe, refunding, writtenOff, crashes>>

NextMonth ==
  /\ month < MaxMonth
  /\ month' = month + 1
  /\ UNCHANGED <<tables, server, req, pass, chain, stripe, refunding, unread, writtenOff, crashes>>

-----------------------------------------------------------------------------
(***************************************************************************)
(* Buying a pack over x402.  The middleware verifies the signed payment,   *)
(* the handler records it, the middleware has the facilitator settle it,   *)
(* and a hook tells the ledger how that went, unless it raised.            *)
(***************************************************************************)
Sellable == Owed + PackCents <= MaxOwed

Verified(b) == valid[b] = "valid" /\ b \notin used

Buy(q, b, w) ==
  /\ Ready(q) /\ Authenticated(w) /\ Verified(b)
  /\ Sellable
  /\ RecordPending(b, w)
  /\ Go(q, Purchase("settling", b))
  /\ UNCHANGED <<workspaces, runs, grants, reversals, proofs, server, pass, month, chain, stripe,
                 refunding, unread, writtenOff, crashes>>

Settles(q) ==
  /\ req[q].at = "settling" /\ Verified(req[q].buy)
  /\ used' = used \cup {req[q].buy}
  /\ Go(q, Purchase("paid", req[q].buy))
  /\ UNCHANGED <<tables, server, pass, month, valid, sent, stripe, refunding, unread,
                 writtenOff, crashes>>

SettleRefused(q) ==
  /\ req[q].at = "settling"
  /\ Go(q, Purchase("refused", req[q].buy))
  /\ UNCHANGED <<tables, server, pass, month, chain, stripe, refunding, unread, writtenOff, crashes>>

SettleRaises(q) ==
  /\ req[q].at = "settling"
  /\ sent' = sent \cup {req[q].buy}
  /\ Go(q, Idle)
  /\ UNCHANGED <<tables, server, pass, month, used, valid, stripe, refunding, unread,
                 writtenOff, crashes>>

HookPaid(q) ==
  /\ req[q].at = "paid"
  /\ SettlePending(req[q].buy)
  /\ Go(q, Idle)
  /\ UNCHANGED <<workspaces, runs, reversals, proofs, server, pass, month, chain, stripe,
                 refunding, unread, writtenOff, crashes>>

HookRefused(q) ==
  /\ req[q].at = "refused"
  /\ FailPending(req[q].buy)
  /\ Go(q, Idle)
  /\ UNCHANGED <<workspaces, runs, grants, reversals, proofs, server, pass, month, chain,
                 stripe, refunding, unread, writtenOff, crashes>>

\* A transfer that nobody waits for any more is included after all.
Lands(b) ==
  /\ b \in sent /\ Verified(b)
  /\ used' = used \cup {b}
  /\ UNCHANGED <<tables, server, req, pass, month, valid, sent, stripe, refunding, unread,
                 writtenOff, crashes>>

TimePasses(b) ==
  /\ valid[b] # "past"
  /\ valid' = [valid EXCEPT ![b] = IF @ = "valid" THEN "lapsed" ELSE "past"]
  /\ UNCHANGED <<tables, server, req, pass, month, used, sent, stripe, refunding, unread,
                 writtenOff, crashes>>

(***************************************************************************)
(* Reconciliation: the rows that are pending, each decided by the chain    *)
(* and by the time at which the pass began.  A node may be behind, though  *)
(* by less than the grace.                                                 *)
(***************************************************************************)
BeginPass(r) ==
  /\ pass[r].todo = {} /\ AwaitingPayment # {}
  /\ r = Loop => server = "serving"
  /\ pass' = [pass EXCEPT ![r] = PassOver(AwaitingPayment)]
  /\ UNCHANGED <<tables, server, req, month, chain, stripe, refunding, unread, writtenOff, crashes>>

Ask(r, b, answer) ==
  /\ b \in pass[r].todo /\ pass[r].asked = None
  /\ answer = "used"   => b \in used
  /\ answer = "unused" => b \notin used \/ valid[b] # "past"
  /\ pass' = [pass EXCEPT ![r].asked = b, ![r].answer = answer]
  /\ UNCHANGED <<tables, server, req, month, chain, stripe, refunding, unread, writtenOff, crashes>>

ExpiredAtOnce(r, b) == pass[r].answer = "unused"

Expired(r, b) == pass[r].answer = "unused" /\ b \in pass[r].past

Decide(r) ==
  LET b == pass[r].asked IN
  /\ b # None
  /\ pass' = [pass EXCEPT ![r].todo = @ \ {b}, ![r].asked = None, ![r].answer = "none"]
  /\ IF pass[r].answer = "used" THEN SettlePending(b) /\ UNCHANGED writtenOff
     ELSE IF Expired(r, b)
     THEN /\ FailPending(b) /\ UNCHANGED grants
          /\ writtenOff' = writtenOff \cup ({b} \cap AwaitingPayment)
     ELSE UNCHANGED <<grants, pending, writtenOff>>
  /\ UNCHANGED <<workspaces, runs, reversals, proofs, server, req, month, chain, stripe,
                 refunding, unread, crashes>>

(***************************************************************************)
(* Buying a pack by card.  Stripe tells of payments and refunds by events  *)
(* that arrive late, in any order, and again if no answer was seen.        *)
(***************************************************************************)
PaidEvent(s) == [of |-> s, refunded |-> 0]

RefundEvent(s, cents) == [of |-> s, refunded |-> cents]

Checkout(s, w) ==
  /\ server = "serving" /\ Authenticated(w) /\ session[s].ws = None
  /\ Sellable
  /\ session' = [session EXCEPT ![s].ws = w]
  /\ UNCHANGED <<tables, server, req, pass, month, chain, wire, missed, refunding, unread,
                 writtenOff, crashes>>

CardPaid(s) ==
  /\ session[s].ws # None /\ ~session[s].paid
  /\ session' = [session EXCEPT ![s].paid = TRUE]
  /\ wire' = wire \cup {PaidEvent(s)}
  /\ UNCHANGED <<tables, server, req, pass, month, chain, missed, refunding, unread,
                 writtenOff, crashes>>

CardRefunded(s, cents) ==
  /\ session[s].paid /\ cents \in (session[s].refunded + 1) .. PackCents
  /\ session' = [session EXCEPT ![s].refunded = cents]
  /\ wire' = wire \cup {RefundEvent(s, cents)}
  /\ UNCHANGED <<tables, server, req, pass, month, chain, missed, refunding, unread,
                 writtenOff, crashes>>

Webhook(e, again) ==
  LET s == e.of IN
  /\ server = "serving" /\ e \in wire
  /\ wire' = IF again THEN wire ELSE wire \ {e}
  /\ IF e.refunded = 0 THEN Grant(s, session[s].ws) /\ UNCHANGED <<reversals, missed>>
     ELSE IF grants[s] # None THEN Reverse(s, e.refunded) /\ UNCHANGED <<grants, missed>>
     ELSE missed' = (IF again THEN missed ELSE missed \cup {s}) /\ UNCHANGED <<grants, reversals>>
  /\ UNCHANGED <<workspaces, runs, pending, proofs, server, req, pass, month, chain, session,
                 refunding, unread, writtenOff, crashes>>

(***************************************************************************)
(* ops.py refund-x402: an operator records a transaction that sent USDC    *)
(* back, then, in another transaction of the ledger, reverses the credits. *)
(***************************************************************************)
Backing(b) == {t \in Refunds : proofs[t] = b}

RecordProof(t, b) ==
  /\ grants[b] # None /\ proofs[t] \in {None, b}
  /\ proofs' = [proofs EXCEPT ![t] = b]
  /\ refunding' = refunding \cup {[of |-> b, refunded |-> RefundCents * Cardinality(Backing(b) \cup {t})]}
  /\ UNCHANGED <<workspaces, runs, grants, reversals, pending, server, req, pass, month, chain,
                 stripe, unread, writtenOff, crashes>>

ApplyProof(e) ==
  /\ e \in refunding
  /\ Reverse(e.of, e.refunded)
  /\ refunding' = refunding \ {e}
  /\ UNCHANGED <<workspaces, runs, grants, pending, proofs, server, req, pass, month, chain,
                 stripe, unread, writtenOff, crashes>>

OperatorStops(e) ==
  /\ e \in refunding
  /\ refunding' = refunding \ {e}
  /\ UNCHANGED <<tables, server, req, pass, month, chain, stripe, unread, writtenOff, crashes>>

(***************************************************************************)
(* Crashes.  A facilitator that was asked to settle is not stopped by one. *)
(***************************************************************************)
Crash ==
  /\ server # "down" /\ crashes < MaxCrashes
  /\ crashes' = crashes + 1
  /\ server' = "down"
  /\ sent' = sent \cup {b \in Buys : \E q \in Requests : req[q] = Purchase("settling", b)}
  /\ req' = [q \in Requests |-> Idle]
  /\ pass' = [pass EXCEPT ![Loop] = NoPass]
  /\ UNCHANGED <<tables, month, used, valid, stripe, refunding, unread, writtenOff>>

Start ==
  /\ server = "down"
  /\ server' = "starting"
  /\ ReleaseOrphanedHolds
  /\ unread' = [id \in RunIds |-> 0]
  /\ pass' = [pass EXCEPT ![Loop] = PassOver(AwaitingPayment)]
  /\ UNCHANGED <<workspaces, grants, reversals, pending, proofs, req, month, chain, stripe,
                 refunding, writtenOff, crashes>>

Serve ==
  /\ server = "starting" /\ pass[Loop].todo = {}
  /\ server' = "serving"
  /\ UNCHANGED <<tables, req, pass, month, chain, stripe, refunding, unread, writtenOff, crashes>>

Next ==
  \/ \E w \in Workspaces : CreateWorkspace(w)
  \/ \E q \in Requests, w \in Workspaces, k \in Works : Admit(q, w, k)
  \/ \E q \in Requests : Answered(q) \/ NotAnswered(q) \/ StreamPrepared(q) \/ StreamEnded(q)
                           \/ NeverRead(q)
  \/ NextMonth
  \/ \E q \in Requests, b \in Buys, w \in Workspaces : Buy(q, b, w)
  \/ \E q \in Requests : Settles(q) \/ SettleRefused(q) \/ SettleRaises(q) \/ HookPaid(q)
                           \/ HookRefused(q)
  \/ \E b \in Buys : Lands(b) \/ TimePasses(b)
  \/ \E r \in Reconcilers : BeginPass(r) \/ Decide(r)
  \/ \E r \in Reconcilers, b \in Buys, answer \in {"used", "unused", "unknown"} : Ask(r, b, answer)
  \/ \E s \in Sessions, w \in Workspaces : Checkout(s, w)
  \/ \E s \in Sessions : CardPaid(s)
  \/ \E s \in Sessions, cents \in 1 .. PackCents : CardRefunded(s, cents)
  \/ \E e \in wire, again \in BOOLEAN : Webhook(e, again)
  \/ \E t \in Refunds, b \in Buys : RecordProof(t, b)
  \/ \E e \in refunding : ApplyProof(e) \/ OperatorStops(e)
  \/ Crash \/ Start \/ Serve

Spec == Init /\ [][Next]_vars

(***************************************************************************)
(* The server is started again, and its loop goes on reconciling; whatever *)
(* the chain's nodes fail to answer, one in the end says what was used.    *)
(***************************************************************************)
Fairness ==
  /\ WF_vars(Start) /\ WF_vars(Serve)
  /\ WF_vars(BeginPass(Loop)) /\ WF_vars(Decide(Loop))
  /\ \A b \in Buys : /\ WF_vars(Ask(Loop, b, "unknown"))
                     /\ SF_vars(Ask(Loop, b, "used"))

FairSpec == Spec /\ Fairness

-----------------------------------------------------------------------------
Rows == [state : {"none", "held", "billed"}, paid : BOOLEAN, inflight : Nat]

Doing == [at : {"idle"}] \cup [at : {"called", "reading"}, run : RunIds]
           \cup [at : {"settling", "paid", "refused"}, buy : Buys]

(***************************************************************************)
(* Every variable holds values of its kind; a row nobody inserted is empty,*)
(* a pending purchase names its workspace (the schema of WorkspaceLedger). *)
(***************************************************************************)
TypeOK ==
  /\ workspaces \subseteq Workspaces
  /\ runs \in [RunIds -> Rows]
  /\ \A id \in RunIds : Known(id) => id[1] \in workspaces
  /\ grants \in [Payments -> workspaces \cup {None}]
  /\ reversals \in [Payments -> [runs : 0 .. PackRuns, cents : 0 .. PackCents]]
  /\ pending \in [Buys -> [state : {"none", "pending", "settled", "failed"},
                           ws : workspaces \cup {None}]]
  /\ \A b \in Buys : pending[b].state = "none" <=> pending[b].ws = None
  /\ proofs \in [Refunds -> Buys \cup {None}]
  /\ server \in {"down", "starting", "serving"}
  /\ req \in [Requests -> Doing]
  /\ pass \in [Reconcilers -> [todo : SUBSET Buys, asked : Buys \cup {None}, past : SUBSET Buys,
                               answer : {"none", "used", "unused", "unknown"}]]
  /\ month \in 0 .. MaxMonth
  /\ used \subseteq Buys /\ sent \subseteq Buys /\ writtenOff \subseteq Buys
  /\ valid \in [Buys -> {"valid", "lapsed", "past"}]
  /\ session \in [Sessions -> [ws : workspaces \cup {None}, paid : BOOLEAN, refunded : 0 .. PackCents]]
  /\ wire \subseteq [of : Sessions, refunded : 0 .. PackCents]
  /\ \A e \in refunding : e.of \in Buys /\ grants[e.of] # None
  /\ unread \in [RunIds -> 0 .. MaxUnread]
  /\ missed \subseteq Sessions
  /\ crashes \in 0 .. MaxCrashes

Open(id) == {q \in Requests : req[q].at \in {"called", "reading"} /\ req[q].run = id}

(***************************************************************************)
(* While the server runs, the inflight of a run counts the calls that are  *)
(* open, whatever month they are closed in and however they end, and those *)
(* whose stream was never begun; a run without either holds nothing, so    *)
(* only a call in flight or a billed run uses a slot or a credit           *)
(* (hold_run, finish_call, release_orphaned_holds, _run).                  *)
(***************************************************************************)
HoldsHaveCalls ==
  server # "down" =>
    \A id \in RunIds : /\ runs[id].inflight = Cardinality(Open(id)) + unread[id]
                       /\ runs[id].state = "held" => runs[id].inflight > 0
                       /\ ~Known(id) => runs[id] = NoRun

(***************************************************************************)
(* However new runs race for the last slot or the last credit, and others  *)
(* release theirs, no month has more free runs than the allowance, and a   *)
(* workspace never spends a credit that a payment did not bring: not even  *)
(* when a refund leaves its balance negative.  What the operator's report  *)
(* says would be owed is never less than what the sales limit counts       *)
(* (hold_run, apply_refund, outstanding_liability_cents, report.build).    *)
(***************************************************************************)
NobodyOverspends ==
  /\ Owed <= OwedIfShutDown
  /\ \A w \in Workspaces :
     /\ Cardinality(Paid(w)) <= PackRuns * Cardinality(Granted(w))
     /\ \A m \in 0 .. MaxMonth :
          Cardinality({k \in Works : runs[<<w, m, k>>].state # "none"
                                       /\ ~runs[<<w, m, k>>].paid}) <= Free

(***************************************************************************)
(* A run that was billed stays billed, at no further cost, whatever later  *)
(* calls of it do and through any restart; no other step than an admission *)
(* makes a run cost a credit (finish_call, release_orphaned_holds).        *)
(***************************************************************************)
BilledForGood ==
  [][\A id \in RunIds :
       /\ runs[id].state = "billed" => /\ runs'[id].state = "billed"
                                       /\ runs'[id].paid = runs[id].paid
       /\ runs'[id].paid /\ ~runs[id].paid => runs'[id].state = "held"]_vars

(***************************************************************************)
(* Once Stripe has no event left to deliver, what was reversed of a        *)
(* granted pack is what Stripe says was refunded of it, though its events  *)
(* came twice and in any order, unless a refund came before the payment.   *)
(* A refund in USDC reverses no more than its transactions prove           *)
(* (apply_refund, stripe_webhook, record_refund_proof).                    *)
(***************************************************************************)
RefundsApplied ==
  /\ \A s \in Sessions \ missed :
       grants[s] # None /\ (\A e \in wire : e.of # s) =>
         /\ reversals[s].cents = session[s].refunded
         /\ reversals[s].runs = Share(session[s].refunded)
  /\ \A b \in Buys : reversals[b].cents <= RefundCents * Cardinality(Backing(b))

(***************************************************************************)
(* Nobody is charged over x402 without a row that says so, no credit comes *)
(* of an authorization the chain never used, and a purchase that           *)
(* reconciliation writes off was never charged and never will be, however  *)
(* late its hook, its transfer or the chain's answer is                    *)
(* (buy_credits_x402, after_settle, reconcile_pending).                    *)
(***************************************************************************)
ChargesAreSeen ==
  \A b \in Buys : /\ b \in used => pending[b].state # "none"
                  /\ grants[b] # None => b \in used /\ pending[b].state = "settled"
                  /\ b \in writtenOff => b \notin used /\ valid[b] = "past"

(***************************************************************************)
(* A charge whose purchase is pending is credited in the end: by the hook, *)
(* or after any crash by reconciliation, unless a settlement that was      *)
(* refused meanwhile marks it failed (reconcile, settle_pending).          *)
(***************************************************************************)
ChargeIsDecided ==
  \A b \in Buys : (b \in used /\ pending[b].state = "pending")
                     ~> (grants[b] # None \/ pending[b].state = "failed")

(***************************************************************************)
(* What the agent guide tells a buyer of a purchase listed as failed: you  *)
(* were not charged, you may pay again (_agent_guide).                     *)
(***************************************************************************)
FailedWasNotCharged ==
  \A b \in Buys : pending[b].state = "failed" /\ (\A q \in Requests : req[q] = Idle)
                     => b \notin used

(***************************************************************************)
(* A run holds a slot or a credit only with a call under way or once       *)
(* billed, and every variable holds values of its kind.                    *)
(***************************************************************************)
RunsAreSound == TypeOK /\ HoldsHaveCalls

(***************************************************************************)
(* Credits are spent once and refunds reverse them, in whatever order they *)
(* came.                                                                   *)
(***************************************************************************)
CreditsAreSound == NobodyOverspends /\ RefundsApplied
=============================================================================
