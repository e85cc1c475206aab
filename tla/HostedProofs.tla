---------------------------- MODULE HostedProofs ----------------------------
(***************************************************************************)
(* What Hosted guarantees for any number of workspaces, runs, handlers,    *)
(* payments and restarts: that a run holds a slot or a credit only with a  *)
(* call under way or once billed, that nobody overspends, that refunds are *)
(* applied once whatever the order of Stripe's events, that nobody is      *)
(* charged over x402 without a row that says so, and that the operator's   *)
(* report of all this adds up.                                             *)
(***************************************************************************)
EXTENDS HostedReport, FiniteSetTheorems, TLAPS

-----------------------------------------------------------------------------
(***************************************************************************)
(* The inductive invariant: the types, and four parts that rest on them.   *)
(***************************************************************************)
TypesSound == TypeOK /\ \A e \in refunding : e \in [of : Buys, refunded : Nat]

\* Nothing is under way unless the server serves.
RunsSound ==
  /\ HoldsHaveCalls
  /\ \A id \in RunIds : ~Known(id) => runs[id] = NoRun
  /\ server # "serving" => \A q \in Requests : req[q] = Idle

FreeRuns(w, m) == {k \in Works : runs[<<w, m, k>>].state # "none" /\ ~runs[<<w, m, k>>].paid}

AllowanceSound ==
  \A w \in Workspaces :
    /\ Cardinality(Paid(w)) <= PackRuns * Cardinality(Granted(w))
    /\ \A m \in 0 .. MaxMonth : Cardinality(FreeRuns(w, m)) <= Free

(***************************************************************************)
(* Whoever may still have an authorization used - a handler that settles   *)
(* it, a facilitator that sends it - has its row before it; and what a     *)
(* pass has read of the chain stays true until it is written: an           *)
(* authorization that was used is used, and one that was past its grace    *)
(* when the pass began, and unused when the pass asked, never will be.     *)
(***************************************************************************)
HandlersSound ==
  \A q \in Requests :
    /\ req[q].at \in {"settling", "refused", "paid"} => pending[req[q].buy].state # "none"
    /\ req[q].at = "paid" => req[q].buy \in used

PassSound(p) ==
  /\ \A b \in p.past : valid[b] = "past"
  /\ p.answer = "used" => p.asked \in used
  /\ p.answer = "unused" /\ p.asked \in p.past => p.asked \notin used

PassesSound == \A r \in Reconcilers : PassSound(pass[r])

ChargesSound ==
  /\ ChargesAreSeen
  /\ \A b \in sent : pending[b].state # "none"
  /\ HandlersSound
  /\ PassesSound

(***************************************************************************)
(* The largest refund of a session is applied, or its event is still on    *)
(* the wire, or it came before the payment.                                *)
(***************************************************************************)
RefundsSound ==
  /\ \A p \in Payments : reversals[p].runs = Share(reversals[p].cents)
  /\ \A e \in wire : e.refunded <= session[e.of].refunded
  /\ \A s \in Sessions :
       /\ reversals[s].cents <= session[s].refunded
       /\ \/ s \in missed \/ reversals[s].cents = session[s].refunded
          \/ RefundEvent(s, session[s].refunded) \in wire
  /\ \A b \in Buys : reversals[b].cents <= RefundCents * Cardinality(Backing(b))
  /\ \A e \in refunding : e.refunded <= RefundCents * Cardinality(Backing(e.of))

-----------------------------------------------------------------------------
(***************************************************************************)
(* Arithmetic of the shares of a pack, and the sizes of the sets counted.  *)
(***************************************************************************)
LEMMA PackIs == PackRuns \in Nat \ {0} /\ PackCents \in Nat \ {0} /\ RefundCents \in Nat \ {0}
BY HostedAssumption DEF PackCents

LEMMA ShareIs ==
  /\ Share(0) = 0
  /\ \A c \in Nat : Share(c) \in 0 .. PackRuns
  /\ \A c, d \in Nat : c <= d => Share(c) <= Share(d)
<1>1. ASSUME NEW c \in Nat, NEW d \in Nat, c <= d
      PROVE  (PackRuns * c) \div PackCents \in Nat
               /\ (PackRuns * c) \div PackCents <= (PackRuns * d) \div PackCents
  <2>1. PackRuns * c \in Nat /\ PackRuns * d \in Nat /\ PackRuns * c <= PackRuns * d
    BY <1>1, PackIs, ProductGrows
  <2> QED
    BY <2>1, PackIs, DivisionGrows
<1>2. (PackRuns * PackCents) \div PackCents = PackRuns
  <2> DEFINE n == PackCents
  <2>1. n \in Nat \ {0} /\ PackRuns \in Nat
    BY PackIs
  <2> HIDE DEF n
  <2>2. (PackRuns * n) \div n = PackRuns
    BY <2>1, Z3
  <2> QED
    BY <2>2 DEF n
<1>3. (PackRuns * 0) \div PackCents = 0
  BY PackIs
<1>4. \A c \in Nat : Share(c) \in 0 .. PackRuns
  <2> TAKE c \in Nat
  <2>1. CASE c >= PackCents
    BY <2>1, PackIs DEF Share
  <2>2. CASE ~(c >= PackCents)
    <3>1. c <= PackCents /\ PackCents \in Nat
      BY <2>2, PackIs
    <3> QED
      BY <1>1, <1>2, <2>2, <3>1, PackIs DEF Share
  <2> QED
    BY <2>1, <2>2
<1>5. ASSUME NEW c \in Nat, NEW d \in Nat, c <= d
      PROVE  Share(c) <= Share(d)
  <2>1. CASE d >= PackCents
    BY <1>4, <2>1, PackIs DEF Share
  <2>2. CASE ~(d >= PackCents)
    <3>1. ~(c >= PackCents)
      BY <1>5, <2>2, PackIs
    <3> QED
      BY <1>1, <1>5, <2>2, <3>1 DEF Share
  <2> QED
    BY <2>1, <2>2
<1>6. Share(0) = 0
  BY <1>3, PackIs DEF Share
<1> QED
  BY <1>4, <1>5, <1>6

LEMMA RunIdsFinite == IsFiniteSet(RunIds)
<1>1. IsFiniteSet(0 .. MaxMonth)
  BY FS_Interval, HostedAssumption
<1>2. IsFiniteSet((Workspaces \X (0 .. MaxMonth)) \X Works)
  BY <1>1, FS_Product, HostedAssumption
<1> DEFINE f == [p \in (Workspaces \X (0 .. MaxMonth)) \X Works |-> <<p[1][1], p[1][2], p[2]>>]
<1>3. f \in Surjection((Workspaces \X (0 .. MaxMonth)) \X Works, RunIds)
  <2>1. f \in [(Workspaces \X (0 .. MaxMonth)) \X Works -> RunIds]
    BY DEF RunIds
  <2>2. ASSUME NEW id \in RunIds
        PROVE  \E p \in (Workspaces \X (0 .. MaxMonth)) \X Works : f[p] = id
    <3>1. PICK w \in Workspaces, m \in 0 .. MaxMonth, k \in Works : id = <<w, m, k>>
      BY DEF RunIds
    <3>2. <<<<w, m>>, k>> \in (Workspaces \X (0 .. MaxMonth)) \X Works
      OBVIOUS
    <3>3. f[<<<<w, m>>, k>>] = id
      BY <3>1, <3>2
    <3> QED
      BY <3>2, <3>3
  <2> QED
    BY <2>1, <2>2 DEF Surjection
<1> QED
  BY <1>2, <1>3, FS_Surjection

-----------------------------------------------------------------------------
(***************************************************************************)
(* Types.  A call, once closed, leaves a row or none; a refund reverses a  *)
(* part of a pack.                                                         *)
(***************************************************************************)
LEMMA RunIdIs ==
  ASSUME NEW w \in Workspaces, NEW m \in 0 .. MaxMonth, NEW k \in Works
  PROVE  <<w, m, k>> \in RunIds /\ <<w, m, k>>[1] = w /\ <<w, m, k>>[2] = m
BY DEF RunIds

LEMMA ClosedIsARow ==
  ASSUME TypeOK, NEW id \in RunIds, NEW answered \in BOOLEAN
  PROVE  /\ Closed(id, answered) \in Rows
         /\ Closed(id, answered).state # "none" => Known(id)
         /\ Closed(id, answered).state = "none" \/ Closed(id, answered).paid = runs[id].paid
<1>1. runs[id] \in Rows
  BY DEF TypeOK
<1> DEFINE row == [runs[id] EXCEPT !.inflight = PositivePart(@ - 1)]
<1>2. /\ row \in Rows /\ row.state = runs[id].state /\ row.paid = runs[id].paid
  BY <1>1 DEF Rows, PositivePart
<1>3. [row EXCEPT !.state = "billed"] \in Rows /\ NoRun \in Rows /\ NoRun.state = "none"
  BY <1>2 DEF Rows, NoRun
<1>4. /\ Closed(id, answered) \in {[row EXCEPT !.state = "billed"], NoRun, row}
      /\ Closed(id, answered) = [row EXCEPT !.state = "billed"] => Known(id) \/ Closed(id, answered) \in {NoRun, row}
  BY DEF Closed
<1>5. [row EXCEPT !.state = "billed"].paid = runs[id].paid
  BY <1>2 DEF Rows
<1> HIDE DEF row
<1> QED
  BY <1>2, <1>3, <1>4, <1>5 DEF Known

LEMMA HeldIsARow ==
  ASSUME TypeOK, NEW w \in workspaces, NEW k \in Works, Hold(<<w, month, k>>)
  PROVE  /\ runs' \in [RunIds -> Rows]
         /\ \A id \in RunIds : Known(id)' => id[1] \in workspaces
<1> DEFINE id == <<w, month, k>>
<1>1. id \in RunIds /\ id[1] = w
  BY RunIdIs DEF TypeOK
<1>2. runs \in [RunIds -> Rows] /\ runs[id] \in Rows
  BY <1>1 DEF TypeOK
<1>3. [runs[id] EXCEPT !.inflight = @ + 1] \in Rows
  BY <1>2 DEF Rows
<1>4. [state |-> "held", paid |-> MonthRuns(id[1]) >= Free, inflight |-> 1] \in Rows
  BY DEF Rows
<1>5. PICK row \in Rows : runs' = [runs EXCEPT ![id] = row]
  BY <1>3, <1>4 DEF Hold
<1> HIDE DEF id
<1> QED
  BY <1>1, <1>2, <1>5 DEF TypeOK, Known

Capped(n) == IF n > PackCents THEN PackCents ELSE n

LEMMA ReverseIs ==
  ASSUME TypeOK, NEW p \in Payments, NEW n \in Nat, Reverse(p, n)
  PROVE  /\ reversals' = [reversals EXCEPT ![p] =
              [runs |-> Larger(reversals[p].runs, Share(Capped(n))),
               cents |-> Larger(reversals[p].cents, Capped(n))]]
         /\ reversals' \in [Payments -> [runs : 0 .. PackRuns, cents : 0 .. PackCents]]
<1> DEFINE a == Larger(reversals[p].runs, Share(Capped(n)))
           c == Larger(reversals[p].cents, Capped(n))
<1>1. reversals \in [Payments -> [runs : 0 .. PackRuns, cents : 0 .. PackCents]]
  BY DEF TypeOK
<1>2. reversals' = [reversals EXCEPT ![p].runs = a, ![p].cents = c]
  BY DEF Reverse, Capped
<1>3. Capped(n) \in 0 .. PackCents /\ Share(Capped(n)) \in 0 .. PackRuns
  BY PackIs, ShareIs DEF Capped
<1>4. a \in 0 .. PackRuns /\ c \in 0 .. PackCents
  BY <1>1, <1>3, PackIs DEF Larger
<1> HIDE DEF a, c
<1>5. [reversals EXCEPT ![p].runs = a, ![p].cents = c] = [reversals EXCEPT ![p] = [runs |-> a, cents |-> c]]
  <2> DEFINE mid == [reversals[p] EXCEPT !.runs = a]
             f   == [reversals EXCEPT ![p] = mid]
  <2>1. mid = [runs |-> a, cents |-> reversals[p].cents]
    BY <1>1
  <2>2. f \in [Payments -> [runs : {a} \cup (0 .. PackRuns), cents : 0 .. PackCents]] /\ f[p] = mid
    BY <1>1, <2>1
  <2>3. [f[p] EXCEPT !.cents = c] = [runs |-> a, cents |-> c]
    <3>1. f[p] = [runs |-> a, cents |-> reversals[p].cents]
      BY <2>1, <2>2
    <3> HIDE DEF f, mid
    <3> QED
      BY <3>1
  <2>4. [f EXCEPT ![p] = [runs |-> a, cents |-> c]] = [reversals EXCEPT ![p] = [runs |-> a, cents |-> c]]
    BY <1>1
  <2> QED
    BY <2>3, <2>4
<1> QED
  BY <1>1, <1>2, <1>4, <1>5 DEF a, c

LEMMA BackingFinite ==
  \A b : /\ IsFiniteSet(Backing(b)) /\ Cardinality(Backing(b)) \in Nat
         /\ RefundCents * Cardinality(Backing(b)) \in Nat
<1> TAKE b
<1>1. IsFiniteSet(Backing(b)) /\ Cardinality(Backing(b)) \in Nat
  BY FS_Subset, FS_CardinalityType, HostedAssumption DEF Backing
<1> QED
  BY <1>1, PackIs

LEMMA SettleTypes ==
  ASSUME TypeOK, NEW b \in Buys, SettlePending(b)
  PROVE  /\ grants' \in [Payments -> workspaces \cup {None}]
         /\ \A p \in Payments : grants[p] # None => grants'[p] = grants[p]
         /\ pending' \in [Buys -> [state : {"none", "pending", "settled", "failed"},
                                   ws : workspaces \cup {None}]]
         /\ \A x \in Buys : pending'[x].state = "none" <=> pending'[x].ws = None
<1>1. /\ b \in Payments /\ grants \in [Payments -> workspaces \cup {None}]
      /\ pending \in [Buys -> [state : {"none", "pending", "settled", "failed"},
                               ws : workspaces \cup {None}]]
      /\ \A x \in Buys : pending[x].state = "none" <=> pending[x].ws = None
  BY DEF TypeOK, Payments
<1>2. \/ UNCHANGED grants
      \/ grants' = [grants EXCEPT ![b] = IF grants[b] = None THEN pending[b].ws ELSE grants[b]]
  BY DEF SettlePending, Grant
<1>3. PICK state \in {"none", "settled"} :
        /\ pending' = [pending EXCEPT ![b] = [pending[b] EXCEPT !.state = state]]
        /\ state = "none" <=> pending[b].state = "none"
  BY DEF SettlePending
<1> QED
  BY <1>1, <1>2, <1>3

LEMMA PendingTypes ==
  ASSUME TypeOK, NEW b \in Buys, FailPending(b) \/ \E w \in workspaces : RecordPending(b, w)
  PROVE  /\ pending' \in [Buys -> [state : {"none", "pending", "settled", "failed"},
                                   ws : workspaces \cup {None}]]
         /\ \A x \in Buys : pending'[x].state = "none" <=> pending'[x].ws = None
<1>1. /\ pending \in [Buys -> [state : {"none", "pending", "settled", "failed"},
                               ws : workspaces \cup {None}]]
      /\ \A x \in Buys : pending[x].state = "none" <=> pending[x].ws = None
      /\ None \notin workspaces
  BY HostedAssumption DEF TypeOK
<1>2. CASE FailPending(b)
  <2>1. PICK state \in {"none", "pending", "settled", "failed"} :
          /\ pending' = [pending EXCEPT ![b] = [pending[b] EXCEPT !.state = state]]
          /\ state = "none" <=> pending[b].state = "none"
    BY <1>1, <1>2 DEF FailPending
  <2> QED
    BY <1>1, <2>1
<1>3. ASSUME NEW w \in workspaces, RecordPending(b, w)
      PROVE  /\ pending' \in [Buys -> [state : {"none", "pending", "settled", "failed"},
                                   ws : workspaces \cup {None}]]
             /\ \A x \in Buys : pending'[x].state = "none" <=> pending'[x].ws = None
  BY <1>1, <1>3 DEF RecordPending
<1> QED
  BY <1>2, <1>3

Passes == [todo : SUBSET Buys, asked : Buys \cup {None}, past : SUBSET Buys,
           answer : {"none", "used", "unused", "unknown"}]

\* A reconciler takes a row off its pass, or asks about one.
LEMMA PassTypes ==
  ASSUME TypeOK, NEW r \in Reconcilers
  PROVE  /\ \A b \in Buys : [pass EXCEPT ![r].asked = b] \in [Reconcilers -> Passes]
         /\ [pass EXCEPT ![r].todo = @ \ {pass[r].asked}] \in [Reconcilers -> Passes]
<1>1. pass \in [Reconcilers -> Passes]
  BY DEF TypeOK, Passes
<1> QED
  BY <1>1 DEF Passes

LEMMA TypesStep ==
  ASSUME TypesSound, [Next]_vars
  PROVE  TypesSound'
<1>1. TypeOK /\ \A e \in refunding : e \in [of : Buys, refunded : Nat]
  BY DEF TypesSound
<1> USE DEF vars, tables, stripe, chain
<1>2. CASE UNCHANGED vars
  BY <1>1, <1>2 DEF TypesSound, TypeOK, Known
<1>3. ASSUME NEW w \in Workspaces, CreateWorkspace(w)
      PROVE  TypesSound'
  BY <1>1, <1>3 DEF TypesSound, TypeOK, Known, CreateWorkspace
<1>4. ASSUME NEW q \in Requests, NEW w \in Workspaces, NEW k \in Works, Admit(q, w, k)
      PROVE  TypesSound'
  <2>1. w \in workspaces /\ Hold(<<w, month, k>>)
    BY <1>4 DEF Admit, Authenticated
  <2>2. Call("called", <<w, month, k>>) \in Doing
    BY <1>1, RunIdIs DEF Call, Doing, TypeOK
  <2>3. /\ runs' \in [RunIds -> Rows]
        /\ \A id \in RunIds : Known(id)' => id[1] \in workspaces
    BY <1>1, <2>1, HeldIsARow
  <2> QED
    BY <1>1, <1>4, <2>2, <2>3 DEF TypesSound, TypeOK, Admit, Go
<1>5. ASSUME NEW q \in Requests, NEW answered \in BOOLEAN, Close(q, answered),
             req[q].at \in {"called", "reading"}
      PROVE  TypesSound'
  <2>1. req[q] \in Doing
    BY <1>1 DEF TypeOK
  <2>2. PICK id \in RunIds : id = req[q].run
    BY <1>5, <2>1 DEF Doing
  <2>3. PICK row \in Rows : /\ runs' = [runs EXCEPT ![id] = row]
                            /\ row.state # "none" => Known(id)
    BY <1>1, <1>5, <2>2, ClosedIsARow DEF Close, FinishCall
  <2>4. /\ runs' \in [RunIds -> Rows]
        /\ \A x \in RunIds : Known(x)' => x[1] \in workspaces
    BY <1>1, <2>3 DEF TypeOK, Known
  <2>5. Idle \in Doing
    BY DEF Idle, Doing
  <2> QED
    BY <1>1, <1>5, <2>4, <2>5 DEF TypesSound, TypeOK, Close, Go
<1>6. ASSUME NEW q \in Requests, StreamPrepared(q) \/ NeverRead(q)
      PROVE  TypesSound'
  <2>1. req[q] \in Doing
    BY <1>1 DEF TypeOK
  <2>2. req[q].run \in RunIds /\ Idle \in Doing /\ Call("reading", req[q].run) \in Doing
    BY <1>6, <2>1 DEF StreamPrepared, NeverRead, Doing, Call, Idle
  <2>3. CASE StreamPrepared(q)
    BY <1>1, <2>2, <2>3 DEF TypesSound, TypeOK, Known, StreamPrepared, Go
  <2>4. CASE NeverRead(q)
    <3>1. unread' \in [RunIds -> 0 .. MaxUnread]
      <4>1. unread \in [RunIds -> 0 .. MaxUnread] /\ unread[req[q].run] + 1 \in 0 .. MaxUnread
        BY <1>1, <2>2, <2>4, HostedAssumption DEF TypeOK, NeverRead
      <4> QED
        BY <2>4, <4>1 DEF NeverRead
    <3> QED
      BY <1>1, <2>2, <2>4, <3>1 DEF TypesSound, TypeOK, Known, NeverRead, Go
  <2> QED
    BY <1>6, <2>3, <2>4
<1>7. CASE NextMonth
  BY <1>1, <1>7, HostedAssumption DEF TypesSound, TypeOK, Known, NextMonth
<1>8. ASSUME NEW q \in Requests, NEW b \in Buys, NEW w \in Workspaces, Buy(q, b, w)
      PROVE  TypesSound'
  <2>1. w \in workspaces /\ RecordPending(b, w) /\ Purchase("settling", b) \in Doing
    BY <1>8 DEF Buy, Authenticated, Purchase, Doing
  <2>2. /\ pending' \in [Buys -> [state : {"none", "pending", "settled", "failed"},
                                   ws : workspaces \cup {None}]]
        /\ \A x \in Buys : pending'[x].state = "none" <=> pending'[x].ws = None
    BY <1>1, <2>1, PendingTypes
  <2> QED
    BY <1>1, <1>8, <2>1, <2>2 DEF TypesSound, TypeOK, Known, Buy, Go
<1>9. ASSUME NEW q \in Requests,
             Settles(q) \/ SettleRefused(q) \/ SettleRaises(q) \/ HookPaid(q) \/ HookRefused(q)
      PROVE  TypesSound'
  <2>1. req[q] \in Doing
    BY <1>1 DEF TypeOK
  <2>2. PICK b \in Buys : b = req[q].buy
    BY <1>9, <2>1 DEF Settles, SettleRefused, SettleRaises, HookPaid, HookRefused, Doing
  <2>3. Idle \in Doing /\ Purchase("paid", b) \in Doing /\ Purchase("refused", b) \in Doing
    BY DEF Idle, Purchase, Doing
  <2>4. CASE Settles(q)
    BY <1>1, <2>2, <2>3, <2>4 DEF TypesSound, TypeOK, Known, Settles, Go
  <2>5. CASE SettleRefused(q)
    BY <1>1, <2>2, <2>3, <2>5 DEF TypesSound, TypeOK, Known, SettleRefused, Go
  <2>6. CASE SettleRaises(q)
    BY <1>1, <2>2, <2>3, <2>6 DEF TypesSound, TypeOK, Known, SettleRaises, Go
  <2>7. CASE HookPaid(q)
    <3>1. SettlePending(b)
      BY <2>2, <2>7 DEF HookPaid
    <3> QED
      BY <1>1, <2>3, <2>7, <3>1, SettleTypes DEF TypesSound, TypeOK, Known, HookPaid, Go, Payments
  <2>8. CASE HookRefused(q)
    <3>1. FailPending(b)
      BY <2>2, <2>8 DEF HookRefused
    <3> QED
      BY <1>1, <2>3, <2>8, <3>1, PendingTypes DEF TypesSound, TypeOK, Known, HookRefused, Go
  <2> QED
    BY <1>9, <2>4, <2>5, <2>6, <2>7, <2>8
<1>10. ASSUME NEW b \in Buys, Lands(b) \/ TimePasses(b)
       PROVE  TypesSound'
  BY <1>1, <1>10 DEF TypesSound, TypeOK, Known, Lands, TimePasses
<1>11. ASSUME NEW r \in Reconcilers, BeginPass(r)
       PROVE  TypesSound'
  <2>1. PassOver(AwaitingPayment) \in Passes
    BY DEF PassOver, NoPass, AwaitingPayment, Passes
  <2> QED
    BY <1>1, <1>11, <2>1 DEF TypesSound, TypeOK, Known, BeginPass, Passes
<1>12. ASSUME NEW r \in Reconcilers, NEW b \in Buys, NEW answer \in {"used", "unused", "unknown"},
              Ask(r, b, answer)
       PROVE  TypesSound'
  <2>1. pass' \in [Reconcilers -> Passes]
    <3> DEFINE f == [pass EXCEPT ![r].asked = b]
    <3>1. f \in [Reconcilers -> Passes]
      BY <1>1, PassTypes
    <3>2. pass' = [f EXCEPT ![r].answer = answer]
      BY <1>12 DEF Ask
    <3> HIDE DEF f
    <3> QED
      BY <3>1, <3>2 DEF Passes
  <2> QED
    BY <1>1, <1>12, <2>1 DEF TypesSound, TypeOK, Known, Ask, Passes
<1>13. ASSUME NEW r \in Reconcilers, Decide(r)
       PROVE  TypesSound'
  <2>1. pass' \in [Reconcilers -> Passes]
    <3> DEFINE f == [pass EXCEPT ![r].todo = @ \ {pass[r].asked}]
               g == [f EXCEPT ![r].asked = None]
    <3>1. f \in [Reconcilers -> Passes]
      BY <1>1, PassTypes
    <3>2. pass' = [g EXCEPT ![r].answer = "none"]
      BY <1>13 DEF Decide
    <3> HIDE DEF f
    <3>3. g \in [Reconcilers -> Passes]
      BY <3>1 DEF Passes
    <3> HIDE DEF g
    <3> QED
      BY <3>2, <3>3 DEF Passes
  <2>2. PICK b \in Buys : b = pass[r].asked
    BY <1>1, <1>13 DEF TypeOK, Decide
  <2>3. /\ \/ SettlePending(b)
           \/ FailPending(b) /\ UNCHANGED grants
           \/ UNCHANGED <<grants, pending>>
        /\ writtenOff' \subseteq writtenOff \cup {b}
    BY <1>13, <2>2 DEF Decide
  <2>4. /\ grants' \in [Payments -> workspaces \cup {None}]
        /\ \A p \in Payments : grants[p] # None => grants'[p] = grants[p]
        /\ pending' \in [Buys -> [state : {"none", "pending", "settled", "failed"},
                                  ws : workspaces \cup {None}]]
        /\ \A x \in Buys : pending'[x].state = "none" <=> pending'[x].ws = None
    <3>1. CASE SettlePending(b)
      BY <1>1, <3>1, SettleTypes
    <3>2. CASE FailPending(b) /\ UNCHANGED grants
      BY <1>1, <3>2, PendingTypes DEF TypeOK
    <3>3. CASE UNCHANGED <<grants, pending>>
      BY <1>1, <3>3 DEF TypeOK
    <3> QED
      BY <2>3, <3>1, <3>2, <3>3
  <2> QED
    BY <1>1, <1>13, <2>1, <2>3, <2>4 DEF TypesSound, TypeOK, Known, Decide, Passes, Payments
<1>14. ASSUME NEW s \in Sessions, NEW w \in Workspaces, Checkout(s, w)
       PROVE  TypesSound'
  <2>1. session' \in [Sessions -> [ws : workspaces \cup {None}, paid : BOOLEAN, refunded : 0 .. PackCents]]
    BY <1>1, <1>14 DEF TypeOK, Checkout, Authenticated
  <2> QED
    BY <1>1, <1>14, <2>1 DEF TypesSound, TypeOK, Known, Checkout
<1>15. ASSUME NEW s \in Sessions, CardPaid(s)
       PROVE  TypesSound'
  <2>1. /\ session' \in [Sessions -> [ws : workspaces \cup {None}, paid : BOOLEAN, refunded : 0 .. PackCents]]
        /\ PaidEvent(s) \in [of : Sessions, refunded : 0 .. PackCents]
    <3>1. session' = [session EXCEPT ![s].paid = TRUE] /\ 0 \in 0 .. PackCents
      BY <1>15, PackIs DEF CardPaid
    <3>2. session \in [Sessions -> [ws : workspaces \cup {None}, paid : BOOLEAN, refunded : 0 .. PackCents]]
      BY <1>1 DEF TypeOK
    <3> QED
      BY <3>1, <3>2 DEF PaidEvent
  <2> QED
    BY <1>1, <1>15, <2>1 DEF TypesSound, TypeOK, Known, CardPaid
<1>16. ASSUME NEW s \in Sessions, NEW cents \in 1 .. PackCents, CardRefunded(s, cents)
       PROVE  TypesSound'
  <2>1. /\ session' \in [Sessions -> [ws : workspaces \cup {None}, paid : BOOLEAN, refunded : 0 .. PackCents]]
        /\ RefundEvent(s, cents) \in [of : Sessions, refunded : 0 .. PackCents]
    <3>1. session' = [session EXCEPT ![s].refunded = cents] /\ cents \in 0 .. PackCents
      BY <1>16, PackIs DEF CardRefunded
    <3>2. session \in [Sessions -> [ws : workspaces \cup {None}, paid : BOOLEAN, refunded : 0 .. PackCents]]
      BY <1>1 DEF TypeOK
    <3> QED
      BY <3>1, <3>2 DEF RefundEvent
  <2> QED
    BY <1>1, <1>16, <2>1 DEF TypesSound, TypeOK, Known, CardRefunded
<1>17. ASSUME NEW e \in wire, NEW again \in BOOLEAN, Webhook(e, again)
       PROVE  TypesSound'
  <2>1. e.of \in Sessions /\ e.refunded \in 0 .. PackCents /\ e.of \in Payments
    BY <1>1 DEF TypeOK, Payments
  <2>2. wire' \subseteq wire /\ missed' \subseteq missed \cup {e.of}
    BY <1>17 DEF Webhook
  <2>3. /\ grants' \in [Payments -> workspaces \cup {None}]
        /\ \A p \in Payments : grants[p] # None => grants'[p] = grants[p]
    <3>1. UNCHANGED grants \/ Grant(e.of, session[e.of].ws)
      BY <1>17 DEF Webhook
    <3> QED
      BY <1>1, <2>1, <3>1 DEF TypeOK, Grant
  <2>4. reversals' \in [Payments -> [runs : 0 .. PackRuns, cents : 0 .. PackCents]]
    <3>1. UNCHANGED reversals \/ Reverse(e.of, e.refunded)
      BY <1>17 DEF Webhook
    <3>2. e.refunded \in Nat
      BY <2>1, PackIs
    <3> QED
      BY <1>1, <2>1, <3>1, <3>2, ReverseIs DEF TypeOK
  <2> QED
    BY <1>1, <1>17, <2>1, <2>2, <2>3, <2>4 DEF TypesSound, TypeOK, Known, Webhook, Payments
<1>18. ASSUME NEW t \in Refunds, NEW b \in Buys, RecordProof(t, b)
       PROVE  TypesSound'
  <2>1. RefundCents * Cardinality(Backing(b) \cup {t}) \in Nat
    BY BackingFinite, FS_AddElement, FS_CardinalityType, PackIs
  <2>2. proofs' \in [Refunds -> Buys \cup {None}]
    BY <1>1, <1>18 DEF TypeOK, RecordProof
  <2>3. \A e \in refunding' : e \in refunding \/ e = [of |-> b, refunded |-> RefundCents * Cardinality(Backing(b) \cup {t})]
    BY <1>18 DEF RecordProof
  <2>4. \A e \in refunding' : e \in [of : Buys, refunded : Nat] /\ grants[e.of] # None
    BY <1>1, <1>18, <2>1, <2>3 DEF TypeOK, RecordProof
  <2> QED
    BY <1>1, <1>18, <2>2, <2>4 DEF TypesSound, TypeOK, Known, RecordProof
<1>19. ASSUME NEW e \in refunding, ApplyProof(e) \/ OperatorStops(e)
       PROVE  TypesSound'
  <2>1. e.of \in Payments /\ e.refunded \in Nat
    BY <1>1 DEF Payments
  <2>2. reversals' \in [Payments -> [runs : 0 .. PackRuns, cents : 0 .. PackCents]]
    BY <1>1, <1>19, <2>1, ReverseIs DEF TypeOK, ApplyProof, OperatorStops
  <2>3. refunding' \subseteq refunding
    BY <1>19 DEF ApplyProof, OperatorStops
  <2> QED
    BY <1>1, <1>19, <2>2, <2>3 DEF TypesSound, TypeOK, Known, ApplyProof, OperatorStops
<1>20. CASE Crash
  <2>1. Idle \in Doing /\ NoPass \in Passes
    BY DEF Idle, Doing, NoPass, Passes
  <2>2. crashes' \in 0 .. MaxCrashes
    BY <1>1, <1>20, HostedAssumption DEF TypeOK, Crash
  <2> QED
    BY <1>1, <1>20, <2>1, <2>2 DEF TypesSound, TypeOK, Known, Crash, Passes
<1>21. CASE Start
  <2>1. /\ runs' \in [RunIds -> Rows] /\ \A id \in RunIds : Known(id)' => Known(id)
    <3>1. \A id \in RunIds : runs[id] \in Rows /\ NoRun \in Rows /\ NoRun.state = "none"
      BY <1>1 DEF TypeOK, NoRun, Rows
    <3>2. \A id \in RunIds : /\ [runs[id] EXCEPT !.inflight = 0] \in Rows
                             /\ [runs[id] EXCEPT !.inflight = 0].state = runs[id].state
      BY <3>1 DEF Rows
    <3>3. runs' = [id \in RunIds |-> IF runs[id].state = "held" THEN NoRun
                                     ELSE [runs[id] EXCEPT !.inflight = 0]]
      BY <1>21 DEF Start, ReleaseOrphanedHolds
    <3> QED
      BY <3>1, <3>2, <3>3 DEF Known
  <2>2. PassOver(AwaitingPayment) \in Passes
    BY DEF PassOver, NoPass, AwaitingPayment, Passes
  <2>3. unread' \in [RunIds -> 0 .. MaxUnread]
    BY <1>21, HostedAssumption DEF Start
  <2> QED
    BY <1>1, <1>21, <2>1, <2>2, <2>3 DEF TypesSound, TypeOK, Start, Passes
<1>22. CASE Serve
  BY <1>1, <1>22 DEF TypesSound, TypeOK, Known, Serve
<1> QED
  BY <1>2, <1>3, <1>4, <1>5, <1>6, <1>7, <1>8, <1>9, <1>10, <1>11, <1>12, <1>13, <1>14, <1>15,
     <1>16, <1>17, <1>18, <1>19, <1>20, <1>21, <1>22
     DEF Next, Answered, NotAnswered, StreamEnded

-----------------------------------------------------------------------------
(***************************************************************************)
(* The calls that are open, as handlers take them up and put them down.    *)
(***************************************************************************)
IsCall(next) == next.at \in {"called", "reading"}

LEMMA OpenFinite ==
  \A id : IsFiniteSet(Open(id)) /\ Cardinality(Open(id)) \in Nat
BY FS_Subset, FS_CardinalityType, HostedAssumption DEF Open

LEMMA OpenStays ==
  ASSUME TypeOK, NEW q \in Requests, NEW next, Go(q, next),
         \/ ~IsCall(req[q]) /\ ~IsCall(next)
         \/ IsCall(req[q]) /\ IsCall(next) /\ next.run = req[q].run
  PROVE  \A id : Open(id)' = Open(id)
<1>1. /\ req' = [req EXCEPT ![q] = next]
      /\ \A x \in Requests : req'[x] = IF x = q THEN next ELSE req[x]
  BY DEF TypeOK, Go
<1> QED
  BY <1>1 DEF Open, IsCall

LEMMA OpenMore ==
  ASSUME TypeOK, NEW q \in Requests, NEW id, Go(q, Call("called", id)), ~IsCall(req[q])
  PROVE  /\ \A x : x # id => Open(x)' = Open(x)
         /\ Cardinality(Open(id)') = Cardinality(Open(id)) + 1
<1>1. \A x \in Requests : req'[x] = IF x = q THEN Call("called", id) ELSE req[x]
  BY DEF TypeOK, Go
<1>2. Call("called", id).at = "called" /\ Call("called", id).run = id
  BY DEF Call
<1>3. \A x : x # id => Open(x)' = Open(x)
  BY <1>1, <1>2 DEF Open, IsCall
<1>4. Open(id)' = Open(id) \cup {q} /\ q \notin Open(id)
  BY <1>1, <1>2 DEF Open, IsCall
<1> QED
  BY <1>3, <1>4, OpenFinite, FS_AddElement

LEMMA OpenLess ==
  ASSUME TypeOK, NEW q \in Requests, NEW id, Go(q, Idle), IsCall(req[q]), req[q].run = id
  PROVE  /\ \A x : x # id => Open(x)' = Open(x)
         /\ Cardinality(Open(id)') = Cardinality(Open(id)) - 1
         /\ Cardinality(Open(id)) > 0
<1>1. \A x \in Requests : req'[x] = IF x = q THEN Idle ELSE req[x]
  BY DEF TypeOK, Go
<1>2. Idle.at \notin {"called", "reading"}
  BY DEF Idle
<1>3. \A x : x # id => Open(x)' = Open(x)
  BY <1>1, <1>2 DEF Open, IsCall
<1>4. Open(id)' = Open(id) \ {q} /\ q \in Open(id)
  BY <1>1, <1>2 DEF Open, IsCall
<1>5. /\ Cardinality(Open(id)') = Cardinality(Open(id)) - 1
      /\ Cardinality(Open(id)) > 0
  BY <1>4, OpenFinite, FS_RemoveElement, FS_EmptySet
<1> QED
  BY <1>3, <1>5

(***************************************************************************)
(* A step that keeps the rows, or closes or opens one call, keeps what the *)
(* rows say of the calls.                                                  *)
(***************************************************************************)
RowSound(id) ==
  /\ server # "down" => /\ runs[id].inflight = Cardinality(Open(id)) + unread[id]
                        /\ runs[id].state = "held" => runs[id].inflight > 0
  /\ ~Known(id) => runs[id] = NoRun

LEMMA RunsSoundIs ==
  RunsSound <=> /\ \A id \in RunIds : RowSound(id)
                /\ server # "serving" => \A q \in Requests : req[q] = Idle
BY DEF RunsSound, HoldsHaveCalls, RowSound

LEMMA RunsKept ==
  ASSUME RunsSound, UNCHANGED <<runs, unread, server>>, \A id \in RunIds : Open(id)' = Open(id),
         server # "serving" => \A q \in Requests : req'[q] = Idle
  PROVE  RunsSound'
<1>1. ASSUME NEW id \in RunIds
      PROVE  RowSound(id)'
  <2>1. RowSound(id) /\ Cardinality(Open(id)') = Cardinality(Open(id))
    BY RunsSoundIs
  <2> QED
    BY <2>1 DEF RowSound, Known
<1> QED
  BY <1>1, RunsSoundIs DEF RunsSound, HoldsHaveCalls, RowSound

LEMMA ClosedSound ==
  ASSUME TypeOK, RunsSound, NEW q \in Requests, NEW id \in RunIds, NEW answered \in BOOLEAN,
         Go(q, Idle), IsCall(req[q]), req[q].run = id, FinishCall(id, answered),
         UNCHANGED <<unread, server>>
  PROVE  RunsSound'
<1>1. /\ \A x : x # id => Open(x)' = Open(x)
      /\ Cardinality(Open(id)') = Cardinality(Open(id)) - 1
      /\ Cardinality(Open(id)) > 0 /\ Cardinality(Open(id)) \in Nat
  BY OpenLess, OpenFinite
<1>2. server = "serving"
  BY DEF RunsSound, IsCall, Idle
<1>3. /\ runs' = [runs EXCEPT ![id] = Closed(id, answered)]
      /\ runs \in [RunIds -> Rows] /\ runs[id] \in Rows /\ unread[id] \in Nat
  BY HostedAssumption DEF FinishCall, TypeOK
<1>4. /\ runs[id].inflight = Cardinality(Open(id)) + unread[id]
      /\ runs[id].inflight > 0 /\ runs[id].inflight \in Nat
  BY <1>1, <1>2, <1>3 DEF RunsSound, HoldsHaveCalls, Rows
<1>5. Known(id)
  BY <1>4 DEF RunsSound, NoRun
<1> DEFINE row == [runs[id] EXCEPT !.inflight = PositivePart(@ - 1)]
<1>6. row \in Rows /\ row.inflight = runs[id].inflight - 1 /\ row.state = runs[id].state
  BY <1>3, <1>4 DEF Rows, PositivePart
<1>7. Closed(id, answered) = IF answered THEN [row EXCEPT !.state = "billed"]
                             ELSE IF row.state = "held" /\ row.inflight = 0 THEN NoRun ELSE row
  BY <1>5 DEF Closed
<1> HIDE DEF row
<1>8. /\ Closed(id, answered).inflight = runs[id].inflight - 1
      /\ Closed(id, answered).state = "held" => runs[id].inflight - 1 > 0
      /\ Closed(id, answered).state = "none" => Closed(id, answered) = NoRun
  <2>1. CASE answered
    BY <1>6, <1>7, <2>1 DEF Rows
  <2>2. CASE ~answered /\ row.state = "held" /\ row.inflight = 0
    <3>1. Closed(id, answered) = NoRun
      BY <1>7, <2>2
    <3>2. NoRun.inflight = 0 /\ NoRun.state = "none"
      BY DEF NoRun
    <3> QED
      BY <1>6, <2>2, <3>1, <3>2
  <2>3. CASE ~answered /\ ~(row.state = "held" /\ row.inflight = 0)
    BY <1>4, <1>5, <1>6, <1>7, <2>3 DEF Known
  <2> QED
    BY <2>1, <2>2, <2>3
<1>9. ASSUME NEW x \in RunIds
      PROVE  RowSound(x)'
  <2>1. CASE x = id
    <3>1. runs'[id] = Closed(id, answered) /\ unread' = unread
      BY <1>3
    <3> QED
      BY <1>1, <1>3, <1>4, <1>8, <2>1, <3>1 DEF RowSound, Known
  <2>2. CASE x # id
    <3>1. runs'[x] = runs[x] /\ Cardinality(Open(x)') = Cardinality(Open(x)) /\ unread' = unread
      BY <1>1, <1>3, <2>2
    <3>2. RowSound(x)
      BY RunsSoundIs
    <3> QED
      BY <3>1, <3>2 DEF RowSound, Known
  <2> QED
    BY <2>1, <2>2
<1> QED
  BY <1>2, <1>9 DEF RunsSound, HoldsHaveCalls, RowSound

LEMMA AdmitSound ==
  ASSUME TypesSound, RunsSound, NEW q \in Requests, NEW w \in Workspaces, NEW k \in Works,
         Admit(q, w, k)
  PROVE  RunsSound'
<1>1. TypeOK /\ ~IsCall(req[q]) /\ server = "serving" /\ server' = server /\ unread' = unread
  BY DEF TypesSound, Admit, Ready, IsCall, Idle
<1>2. PICK id \in RunIds : /\ id = <<w, month, k>>
                           /\ Hold(id) /\ Go(q, Call("called", id))
  BY <1>1, RunIdIs DEF Admit, TypeOK
<1>3. /\ \A x : x # id => Open(x)' = Open(x)
      /\ Cardinality(Open(id)') = Cardinality(Open(id)) + 1
      /\ Cardinality(Open(id)) \in Nat
  BY <1>1, <1>2, OpenMore, OpenFinite
<1>4. runs \in [RunIds -> Rows] /\ runs[id] \in Rows /\ unread[id] \in Nat
  BY <1>1, HostedAssumption DEF TypeOK
<1>5. /\ runs[id].inflight = Cardinality(Open(id)) + unread[id]
      /\ ~Known(id) => runs[id] = NoRun
  BY <1>1 DEF RunsSound, HoldsHaveCalls
<1>6. PICK row : /\ runs' = [runs EXCEPT ![id] = row]
                 /\ row.inflight = runs[id].inflight + 1 /\ row.state # "none"
  <2>1. CASE Known(id)
    <3>1. [runs[id] EXCEPT !.inflight = @ + 1].inflight = runs[id].inflight + 1
          /\ [runs[id] EXCEPT !.inflight = @ + 1].state = runs[id].state
      BY <1>4 DEF Rows
    <3> QED
      BY <1>2, <2>1, <3>1 DEF Hold, Known
  <2>2. CASE ~Known(id)
    <3>1. runs[id].inflight = 0
      BY <1>5, <2>2 DEF NoRun
    <3>2. PICK row : row = [state |-> "held", paid |-> MonthRuns(id[1]) >= Free, inflight |-> 1]
      OBVIOUS
    <3>3. row.inflight = 1 /\ row.state = "held" /\ runs' = [runs EXCEPT ![id] = row]
      BY <1>2, <2>2, <3>2 DEF Hold
    <3>4. row.inflight = runs[id].inflight + 1 /\ row.state # "none"
      BY <3>1, <3>3
    <3> QED
      BY <3>3, <3>4
  <2> QED
    BY <2>1, <2>2
<1>7. ASSUME NEW x \in RunIds
      PROVE  RowSound(x)'
  <2>1. CASE x = id
    <3>1. runs'[id] = row
      BY <1>4, <1>6
    <3> QED
      BY <1>1, <1>3, <1>4, <1>5, <1>6, <2>1, <3>1 DEF RowSound, Known
  <2>2. CASE x # id
    <3>1. runs'[x] = runs[x] /\ Cardinality(Open(x)') = Cardinality(Open(x))
      BY <1>3, <1>4, <1>6, <2>2
    <3>2. RowSound(x)
      BY RunsSoundIs
    <3> QED
      BY <1>1, <3>1, <3>2 DEF RowSound, Known
  <2> QED
    BY <2>1, <2>2
<1> QED
  BY <1>1, <1>7 DEF RunsSound, HoldsHaveCalls, RowSound

LEMMA NeverReadSound ==
  ASSUME TypesSound, RunsSound, NEW q \in Requests, NeverRead(q)
  PROVE  RunsSound'
<1>1. TypeOK /\ req[q] \in Doing /\ UNCHANGED <<runs, server>> /\ server = "serving"
  BY DEF TypesSound, TypeOK, NeverRead, tables, RunsSound, Idle
<1>2. PICK id \in RunIds : id = req[q].run
  BY <1>1 DEF NeverRead, Doing
<1>3. /\ \A x : x # id => Open(x)' = Open(x)
      /\ Cardinality(Open(id)') = Cardinality(Open(id)) - 1
      /\ Cardinality(Open(id)) \in Nat
  BY <1>1, <1>2, OpenLess, OpenFinite DEF NeverRead, IsCall
<1>4. unread' = [unread EXCEPT ![id] = @ + 1] /\ unread \in [RunIds -> 0 .. MaxUnread]
  BY <1>1, <1>2 DEF NeverRead, TypeOK
<1>5. ASSUME NEW x \in RunIds
      PROVE  Cardinality(Open(x)') + unread'[x] = Cardinality(Open(x)) + unread[x]
  <2>1. CASE x = id
    BY <1>3, <1>4, <2>1, HostedAssumption
  <2>2. CASE x # id
    <3>1. Open(x)' = Open(x) /\ unread'[x] = unread[x]
      BY <1>3, <1>4, <2>2
    <3> QED
      BY <3>1
  <2> QED
    BY <2>1, <2>2
<1>6. ASSUME NEW x \in RunIds
      PROVE  RowSound(x)'
  BY <1>1, <1>5, RunsSoundIs DEF RowSound, Known
<1> QED
  BY <1>1, <1>6 DEF RunsSound, HoldsHaveCalls, RowSound

LEMMA RunsStep ==
  ASSUME TypesSound, RunsSound, [Next]_vars
  PROVE  RunsSound'
<1>1. /\ TypeOK /\ Idle.at = "idle" /\ req \in [Requests -> Doing]
      /\ server # "serving" => \A q \in Requests : req[q] = Idle
  BY DEF TypesSound, TypeOK, RunsSound, Idle
<1> USE DEF tables, stripe, chain
<1>2. ASSUME UNCHANGED <<runs, req, server, unread>>
      PROVE  RunsSound'
  BY <1>1, <1>2, RunsKept DEF Open
<1>3. CASE \/ UNCHANGED vars \/ NextMonth
           \/ \E w \in Workspaces : CreateWorkspace(w)
           \/ \E b \in Buys : Lands(b) \/ TimePasses(b)
           \/ \E r \in Reconcilers : BeginPass(r) \/ Decide(r)
           \/ \E r \in Reconcilers, b \in Buys, answer \in {"used", "unused", "unknown"} : Ask(r, b, answer)
  BY <1>2, <1>3 DEF vars, CreateWorkspace, NextMonth, Lands, TimePasses, BeginPass, Decide, Ask
<1>4. CASE \/ \E s \in Sessions, w \in Workspaces : Checkout(s, w)
           \/ \E s \in Sessions : CardPaid(s)
           \/ \E s \in Sessions, cents \in 1 .. PackCents : CardRefunded(s, cents)
           \/ \E e \in wire, again \in BOOLEAN : Webhook(e, again)
           \/ \E t \in Refunds, b \in Buys : RecordProof(t, b)
           \/ \E e \in refunding : ApplyProof(e) \/ OperatorStops(e)
  BY <1>2, <1>4 DEF Checkout, CardPaid, CardRefunded, Webhook, RecordProof, ApplyProof, OperatorStops
\* A handler that buys has no call, before and after.
<1>5. ASSUME NEW q \in Requests, NEW next, Go(q, next), UNCHANGED <<runs, server, unread>>,
             server = "serving",
             \/ ~IsCall(req[q]) /\ ~IsCall(next)
             \/ IsCall(req[q]) /\ IsCall(next) /\ next.run = req[q].run
      PROVE  RunsSound'
  BY <1>1, <1>5, OpenStays, RunsKept
<1>6. ASSUME NEW q \in Requests, NEW b \in Buys, NEW w \in Workspaces, Buy(q, b, w)
      PROVE  RunsSound'
  <2>1. /\ Go(q, Purchase("settling", b)) /\ UNCHANGED <<runs, server, unread>>
        /\ server = "serving" /\ req[q] = Idle /\ Purchase("settling", b).at = "settling"
    BY <1>6 DEF Buy, Ready, Purchase
  <2> QED
    BY <1>1, <1>5, <2>1 DEF IsCall
<1>7. ASSUME NEW q \in Requests,
             Settles(q) \/ SettleRefused(q) \/ SettleRaises(q) \/ HookPaid(q) \/ HookRefused(q)
      PROVE  RunsSound'
  <2>1. /\ UNCHANGED <<runs, server, unread>> /\ ~IsCall(req[q]) /\ req[q].at # "idle"
        /\ \/ Go(q, Idle) \/ Go(q, Purchase("paid", req[q].buy)) \/ Go(q, Purchase("refused", req[q].buy))
    BY <1>7 DEF Settles, SettleRefused, SettleRaises, HookPaid, HookRefused, IsCall
  <2>2. server = "serving"
    BY <1>1, <2>1
  <2>3. \A b : Purchase("paid", b).at = "paid" /\ Purchase("refused", b).at = "refused"
    BY DEF Purchase
  <2> QED
    BY <1>1, <1>5, <2>1, <2>2, <2>3 DEF IsCall
<1>8. ASSUME NEW q \in Requests, StreamPrepared(q)
      PROVE  RunsSound'
  <2>1. /\ Go(q, Call("reading", req[q].run)) /\ UNCHANGED <<runs, server, unread>>
        /\ req[q].at = "called"
    BY <1>8 DEF StreamPrepared
  <2>2. /\ Call("reading", req[q].run).at = "reading" /\ Call("reading", req[q].run).run = req[q].run
    BY DEF Call
  <2>3. server = "serving"
    BY <1>1, <2>1
  <2> QED
    BY <1>5, <2>1, <2>2, <2>3 DEF IsCall
<1>9. ASSUME NEW q \in Requests, NEW answered \in BOOLEAN, Close(q, answered), IsCall(req[q])
      PROVE  RunsSound'
  <2>1. PICK id \in RunIds : id = req[q].run
    BY <1>1, <1>9 DEF Doing, IsCall
  <2> QED
    BY <1>1, <1>9, <2>1, ClosedSound DEF Close
<1>10. CASE Crash
  <2>1. /\ server' = "down" /\ runs' = runs /\ req' = [q \in Requests |-> Idle]
    BY <1>10 DEF Crash
  <2>2. \A id \in RunIds : RowSound(id)'
    BY <2>1, RunsSoundIs DEF RowSound, Known
  <2> QED
    BY <2>1, <2>2 DEF RunsSound, HoldsHaveCalls, RowSound
<1>11. CASE Start
  <2>1. /\ server = "down" /\ req' = req /\ server' = "starting"
        /\ unread' = [id \in RunIds |-> 0]
        /\ runs' = [id \in RunIds |-> IF runs[id].state = "held" THEN NoRun
                                      ELSE [runs[id] EXCEPT !.inflight = 0]]
    BY <1>11 DEF Start, ReleaseOrphanedHolds
  <2>2. ASSUME NEW id \in RunIds
        PROVE  RowSound(id)'
    <3>1. runs[id] \in Rows /\ NoRun.state = "none" /\ NoRun.inflight = 0
      BY <1>1 DEF TypeOK, NoRun
    <3>2. Cardinality(Open(id)') = 0
      BY <1>1, <2>1, FS_EmptySet DEF Open
    <3>3. /\ [runs[id] EXCEPT !.inflight = 0].inflight = 0
          /\ [runs[id] EXCEPT !.inflight = 0].state = runs[id].state
      BY <3>1 DEF Rows
    <3>4. [NoRun EXCEPT !.inflight = 0] = NoRun
      BY DEF NoRun
    <3>5. ~Known(id) => [runs[id] EXCEPT !.inflight = 0] = NoRun
      BY <3>4 DEF RunsSound
    <3>6. /\ runs'[id] = IF runs[id].state = "held" THEN NoRun ELSE [runs[id] EXCEPT !.inflight = 0]
          /\ unread'[id] = 0
      BY <2>1
    <3> QED
      BY <3>1, <3>2, <3>3, <3>5, <3>6 DEF RowSound, Known
  <2> QED
    BY <1>1, <2>1, <2>2 DEF RunsSound, HoldsHaveCalls, RowSound
<1>12. CASE Serve
  <2>1. UNCHANGED <<runs, req, unread>> /\ server = "starting" /\ server' = "serving"
    BY <1>12 DEF Serve
  <2>2. \A id \in RunIds : RowSound(id)'
    BY <2>1, RunsSoundIs DEF RowSound, Known, Open
  <2> QED
    BY <2>1, <2>2 DEF RunsSound, HoldsHaveCalls, RowSound
<1> QED
  BY <1>3, <1>4, <1>6, <1>7, <1>8, <1>9, <1>10, <1>11, <1>12, AdmitSound, NeverReadSound
     DEF Next, Answered, NotAnswered, StreamEnded, IsCall

-----------------------------------------------------------------------------
(***************************************************************************)
(* The rows of one step: one run is admitted, one call of a run ends, or   *)
(* what a restart finds held is released.                                  *)
(***************************************************************************)
Admitted(id) ==
  /\ ~Known(id) /\ id[2] = month
  /\ runs' = [runs EXCEPT ![id] =
       [state |-> "held", paid |-> MonthRuns(id[1]) >= Free, inflight |-> 1]]
  /\ MonthRuns(id[1]) < Free \/ Credits(id[1]) > 0

\* A row that is rewritten costs what it did, or is gone; a billed one stays.
Follows(old, new) ==
  /\ new.state = "none" => ~new.paid
  /\ new.state # "none" => old.state # "none" /\ new.paid = old.paid
  /\ old.state = "billed" => new.state = "billed"

RowsFollow == \A id \in RunIds : Follows(runs[id], runs'[id])

LEMMA RowsOfStep ==
  ASSUME TypesSound, RunsSound, [Next]_vars
  PROVE  \/ RowsFollow /\ runs' \in [RunIds -> Rows]
         \/ \E id \in RunIds : Admitted(id) /\ UNCHANGED <<grants, reversals>>
<1>1. /\ TypeOK /\ runs \in [RunIds -> Rows] /\ runs' \in [RunIds -> Rows]
      /\ \A id \in RunIds : runs[id].state = "none" => ~runs[id].paid
  BY TypesStep DEF TypesSound, TypeOK, RunsSound, Known, NoRun
<1> USE DEF tables, stripe, chain
<1>2. CASE UNCHANGED runs
  BY <1>1, <1>2 DEF RowsFollow, Follows
<1>3. ASSUME NEW q \in Requests, NEW w \in Workspaces, NEW k \in Works, Admit(q, w, k)
      PROVE  RowsFollow \/ \E id \in RunIds : Admitted(id) /\ UNCHANGED <<grants, reversals>>
  <2> DEFINE named == <<w, month, k>>
  <2>1. PICK id \in RunIds : id = named /\ id[2] = month /\ id[1] = w
    <3>1. month \in 0 .. MaxMonth
      BY <1>1 DEF TypeOK
    <3>2. named \in RunIds /\ named[1] = w /\ named[2] = month
      BY <3>1, RunIdIs
    <3> HIDE DEF named
    <3> QED
      BY <3>2
  <2>2. Hold(id) /\ MayAdmit(id) /\ UNCHANGED <<grants, reversals>>
    BY <1>3, <2>1 DEF Admit
  <2>3. CASE Known(id)
    <3>1. runs' = [runs EXCEPT ![id] = [runs[id] EXCEPT !.inflight = @ + 1]]
      BY <2>2, <2>3 DEF Hold
    <3>2. /\ [runs[id] EXCEPT !.inflight = @ + 1].state = runs[id].state
          /\ [runs[id] EXCEPT !.inflight = @ + 1].paid = runs[id].paid
      BY <1>1 DEF Rows
    <3> QED
      BY <1>1, <3>1, <3>2 DEF RowsFollow, Follows
  <2>4. CASE ~Known(id)
    BY <2>1, <2>2, <2>4 DEF Hold, MayAdmit, Admitted
  <2> QED
    BY <2>3, <2>4
<1>4. ASSUME NEW q \in Requests, NEW answered \in BOOLEAN, Close(q, answered), IsCall(req[q])
      PROVE  RowsFollow
  <2>1. req[q] \in Doing
    BY <1>1 DEF TypeOK
  <2>2. PICK id \in RunIds : id = req[q].run
    BY <1>4, <2>1 DEF Doing, IsCall
  <2>3. runs' = [runs EXCEPT ![id] = Closed(id, answered)]
    BY <1>4, <2>2 DEF Close, FinishCall
  <2> DEFINE row == [runs[id] EXCEPT !.inflight = PositivePart(@ - 1)]
  <2>4. row.state = runs[id].state /\ row.paid = runs[id].paid /\ row \in Rows
    BY <1>1 DEF Rows, PositivePart
  <2>5. Closed(id, answered) = IF answered /\ Known(id) THEN [row EXCEPT !.state = "billed"]
                               ELSE IF row.state = "held" /\ row.inflight = 0 THEN NoRun ELSE row
    BY DEF Closed
  <2> HIDE DEF row
  <2>6. /\ NoRun.state = "none" /\ NoRun.paid = FALSE
        /\ [row EXCEPT !.state = "billed"].state = "billed"
        /\ [row EXCEPT !.state = "billed"].paid = row.paid
    BY <2>4 DEF NoRun, Rows
  <2>7. Follows(runs[id], Closed(id, answered))
    BY <1>1, <2>4, <2>5, <2>6 DEF Follows, Known
  <2> QED
    BY <1>1, <2>3, <2>7 DEF RowsFollow, Follows
<1>5. CASE Start
  <2>1. runs' = [id \in RunIds |-> IF runs[id].state = "held" THEN NoRun
                                   ELSE [runs[id] EXCEPT !.inflight = 0]]
    BY <1>5 DEF Start, ReleaseOrphanedHolds
  <2>2. ASSUME NEW id \in RunIds
        PROVE  Follows(runs[id], runs'[id])
    <3>1. PICK row \in Rows : row = runs[id]
      BY <1>1
    <3>2. [row EXCEPT !.inflight = 0].state = row.state /\ [row EXCEPT !.inflight = 0].paid = row.paid
      BY DEF Rows
    <3>3. NoRun.state = "none" /\ NoRun.paid = FALSE
      BY DEF NoRun
    <3> DEFINE new == [row EXCEPT !.inflight = 0]
    <3>4. runs'[id] = IF row.state = "held" THEN NoRun ELSE new
      BY <2>1, <3>1
    <3>40. new.state = row.state /\ new.paid = row.paid
      BY <3>2
    <3> HIDE DEF new
    <3>5. row.state = "none" => ~row.paid
      BY <1>1, <3>1
    <3>6. Follows(row, runs'[id])
      <4>1. CASE row.state = "held"
        BY <3>3, <3>4, <4>1 DEF Follows
      <4>2. CASE row.state # "held"
        <5>1. runs'[id].state = row.state /\ runs'[id].paid = row.paid
          BY <3>4, <3>40, <4>2
        <5> QED
          BY <3>5, <5>1 DEF Follows
      <4> QED
        BY <4>1, <4>2
    <3> QED
      BY <3>1, <3>6
  <2> QED
    BY <1>1, <2>2 DEF RowsFollow
<1>6. CASE \/ UNCHANGED vars \/ NextMonth \/ Crash \/ Serve
           \/ \E w \in Workspaces : CreateWorkspace(w)
           \/ \E b \in Buys : Lands(b) \/ TimePasses(b)
           \/ \E r \in Reconcilers : BeginPass(r) \/ Decide(r)
           \/ \E r \in Reconcilers, b \in Buys, answer \in {"used", "unused", "unknown"} : Ask(r, b, answer)
  BY <1>1, <1>2, <1>6 DEF vars, CreateWorkspace, NextMonth, Lands, TimePasses, BeginPass, Decide, Ask,
                          Crash, Serve
<1>7. CASE \/ \E s \in Sessions, w \in Workspaces : Checkout(s, w)
           \/ \E s \in Sessions : CardPaid(s)
           \/ \E s \in Sessions, cents \in 1 .. PackCents : CardRefunded(s, cents)
           \/ \E e \in wire, again \in BOOLEAN : Webhook(e, again)
           \/ \E t \in Refunds, b \in Buys : RecordProof(t, b)
           \/ \E e \in refunding : ApplyProof(e) \/ OperatorStops(e)
  BY <1>1, <1>2, <1>7 DEF Checkout, CardPaid, CardRefunded, Webhook, RecordProof, ApplyProof,
                          OperatorStops
<1>8. CASE \/ \E q \in Requests, b \in Buys, w \in Workspaces : Buy(q, b, w)
           \/ \E q \in Requests : Settles(q) \/ SettleRefused(q) \/ SettleRaises(q) \/ HookPaid(q)
                                    \/ HookRefused(q) \/ StreamPrepared(q) \/ NeverRead(q)
  BY <1>1, <1>2, <1>8 DEF Buy, Settles, SettleRefused, SettleRaises, HookPaid, HookRefused,
                          StreamPrepared, NeverRead
<1> QED
  BY <1>1, <1>3, <1>4, <1>5, <1>6, <1>7, <1>8
     DEF Next, Answered, NotAnswered, StreamEnded, IsCall

(***************************************************************************)
(* A payment is granted once, and a refund takes back no fewer runs.       *)
(***************************************************************************)
LEMMA GrantsOfStep ==
  ASSUME TypesSound, [Next]_vars
  PROVE  \A p \in Payments : grants[p] # None => grants'[p] = grants[p]
<1>1. TypeOK /\ grants \in [Payments -> workspaces \cup {None}] /\ Buys \subseteq Payments
  BY DEF TypesSound, TypeOK, Payments
<1> USE DEF tables, stripe, chain
<1>2. CASE UNCHANGED grants
  BY <1>2
<1>3. ASSUME NEW b \in Buys, SettlePending(b)
      PROVE  \A p \in Payments : grants[p] # None => grants'[p] = grants[p]
  BY <1>1, <1>3, SettleTypes
<1>4. ASSUME NEW q \in Requests, HookPaid(q)
      PROVE  \A p \in Payments : grants[p] # None => grants'[p] = grants[p]
  <2>1. req[q] \in Doing
    BY <1>1 DEF TypeOK
  <2>2. req[q].buy \in Buys
    BY <1>4, <2>1 DEF HookPaid, Doing
  <2> QED
    BY <1>3, <1>4, <2>2 DEF HookPaid
<1>5. ASSUME NEW r \in Reconcilers, Decide(r)
      PROVE  \A p \in Payments : grants[p] # None => grants'[p] = grants[p]
  <2>1. pass[r].asked \in Buys
    BY <1>1, <1>5 DEF TypeOK, Decide
  <2>2. SettlePending(pass[r].asked) \/ UNCHANGED grants
    BY <1>5 DEF Decide
  <2> QED
    BY <1>2, <1>3, <2>1, <2>2
<1>6. ASSUME NEW e \in wire, NEW again \in BOOLEAN, Webhook(e, again)
      PROVE  \A p \in Payments : grants[p] # None => grants'[p] = grants[p]
  <2>1. UNCHANGED grants \/ Grant(e.of, session[e.of].ws)
    BY <1>6 DEF Webhook
  <2> QED
    BY <1>1, <2>1 DEF Grant
<1>7. CASE \/ UNCHANGED vars \/ NextMonth \/ Crash \/ Start \/ Serve
           \/ \E w \in Workspaces : CreateWorkspace(w)
           \/ \E b \in Buys : Lands(b) \/ TimePasses(b)
           \/ \E r \in Reconcilers : BeginPass(r)
           \/ \E r \in Reconcilers, b \in Buys, answer \in {"used", "unused", "unknown"} : Ask(r, b, answer)
  BY <1>2, <1>7 DEF vars, CreateWorkspace, NextMonth, Lands, TimePasses, BeginPass, Ask, Crash, Start,
                    Serve
<1>8. CASE \/ \E s \in Sessions, w \in Workspaces : Checkout(s, w)
           \/ \E s \in Sessions : CardPaid(s)
           \/ \E s \in Sessions, cents \in 1 .. PackCents : CardRefunded(s, cents)
           \/ \E t \in Refunds, b \in Buys : RecordProof(t, b)
           \/ \E e \in refunding : ApplyProof(e) \/ OperatorStops(e)
  BY <1>2, <1>8 DEF Checkout, CardPaid, CardRefunded, RecordProof, ApplyProof, OperatorStops
<1>9. CASE \/ \E q \in Requests, b \in Buys, w \in Workspaces : Buy(q, b, w)
           \/ \E q \in Requests, w \in Workspaces, k \in Works : Admit(q, w, k)
           \/ \E q \in Requests, answered \in BOOLEAN : Close(q, answered)
           \/ \E q \in Requests : Settles(q) \/ SettleRefused(q) \/ SettleRaises(q)
                                    \/ HookRefused(q) \/ StreamPrepared(q) \/ NeverRead(q)
  BY <1>2, <1>9 DEF Buy, Admit, Close, Settles, SettleRefused, SettleRaises, HookRefused,
                    StreamPrepared, NeverRead
<1> QED
  BY <1>4, <1>5, <1>6, <1>7, <1>8, <1>9 DEF Next, Answered, NotAnswered, StreamEnded

(***************************************************************************)
(* What a workspace has is counted: its paid runs, the payments it was     *)
(* granted, what was reversed of them, and its free runs of a month.       *)
(***************************************************************************)
LEMMA CountsFinite ==
  ASSUME TypeOK, NEW w \in Workspaces
  PROVE  /\ IsFiniteSet(Paid(w)) /\ Cardinality(Paid(w)) \in Nat
         /\ IsFiniteSet(Granted(w)) /\ Cardinality(Granted(w)) \in Nat
         /\ PackRuns * Cardinality(Granted(w)) \in Nat
         /\ Reversed(w) \in Nat /\ MonthRuns(w) \in Nat
         /\ \A m \in 0 .. MaxMonth : /\ IsFiniteSet(FreeRuns(w, m))
                                     /\ Cardinality(FreeRuns(w, m)) \in Nat
<1>1. IsFiniteSet(Paid(w)) /\ Cardinality(Paid(w)) \in Nat
  BY RunIdsFinite, FS_Subset, FS_CardinalityType DEF Paid
<1>2. IsFiniteSet(Granted(w)) /\ Cardinality(Granted(w)) \in Nat
  BY HostedAssumption, FS_Subset, FS_CardinalityType DEF Granted
<1>3. PackRuns * Cardinality(Granted(w)) \in Nat
  BY <1>2, PackIs
<1>4. Reversed(w) \in Nat
  <2> DEFINE U == Payments \X (1 .. PackRuns)
  <2>1. IsFiniteSet(1 .. PackRuns)
    BY FS_Interval, PackIs
  <2>2. IsFiniteSet(U)
    BY <2>1, FS_Product, HostedAssumption
  <2>3. UNION {{p} \X (1 .. reversals[p].runs) : p \in Granted(w)} \subseteq U
    <3>1. ASSUME NEW p \in Granted(w)
          PROVE  {p} \X (1 .. reversals[p].runs) \subseteq U
      <4>1. p \in Payments /\ reversals[p].runs \in 0 .. PackRuns
        BY DEF Granted, TypeOK
      <4> QED
        BY <4>1, PackIs
    <3> QED
      BY <3>1
  <2> QED
    BY <2>2, <2>3, FS_Subset, FS_CardinalityType DEF Reversed
<1>5. MonthRuns(w) \in Nat
  BY HostedAssumption, FS_Subset, FS_CardinalityType DEF MonthRuns
<1>6. \A m \in 0 .. MaxMonth : IsFiniteSet(FreeRuns(w, m)) /\ Cardinality(FreeRuns(w, m)) \in Nat
  BY HostedAssumption, FS_Subset, FS_CardinalityType DEF FreeRuns
<1> QED
  BY <1>1, <1>2, <1>3, <1>4, <1>5, <1>6

(***************************************************************************)
(* No step lets a workspace overspend.                                     *)
(***************************************************************************)
LEMMA AllowanceStep ==
  ASSUME TypesSound, RunsSound, AllowanceSound, [Next]_vars
  PROVE  AllowanceSound'
<1>1. /\ TypeOK /\ TypesSound' /\ TypeOK' /\ runs \in [RunIds -> Rows]
      /\ \A p \in Payments : grants[p] # None => grants'[p] = grants[p]
  BY TypesStep, GrantsOfStep DEF TypesSound, TypeOK
<1>2. ASSUME NEW w \in Workspaces
      PROVE  PackRuns * Cardinality(Granted(w)) <= PackRuns * Cardinality(Granted(w)')
  <2>1. Granted(w) \subseteq Granted(w)' /\ IsFiniteSet(Granted(w)')
    <3>1. Granted(w)' \subseteq Payments
      BY DEF Granted
    <3>2. IsFiniteSet(Granted(w)')
      BY <3>1, HostedAssumption, FS_Subset
    <3> QED
      BY <1>1, <3>2, HostedAssumption DEF Granted
  <2> DEFINE a == Cardinality(Granted(w))
             b == Cardinality(Granted(w)')
  <2>2. a \in Nat /\ b \in Nat /\ a <= b
    BY <2>1, FS_Subset, FS_CardinalityType
  <2> HIDE DEF a, b
  <2> QED
    BY <2>2, PackIs, ProductGrows DEF a, b
<1>3. ASSUME RowsFollow, NEW w \in Workspaces
      PROVE  /\ Cardinality(Paid(w)') <= PackRuns * Cardinality(Granted(w)')
             /\ \A m \in 0 .. MaxMonth : Cardinality(FreeRuns(w, m)') <= Free
  <2>1. Paid(w)' \subseteq Paid(w)
    BY <1>3 DEF RowsFollow, Follows, Paid
  <2>2. /\ Cardinality(Paid(w)') <= Cardinality(Paid(w)) /\ Cardinality(Paid(w)') \in Nat
        /\ Cardinality(Paid(w)) <= PackRuns * Cardinality(Granted(w))
    BY <1>1, <2>1, CountsFinite, FS_Subset, FS_CardinalityType DEF AllowanceSound
  <2>3. /\ PackRuns * Cardinality(Granted(w)) <= PackRuns * Cardinality(Granted(w)')
        /\ PackRuns * Cardinality(Granted(w)) \in Nat /\ Cardinality(Paid(w)) \in Nat
        /\ PackRuns * Cardinality(Granted(w)') \in Nat
    <3>1. \A x \in Workspaces : PackRuns * Cardinality(Granted(x)') \in Nat
      <4>1. TypeOK' => \A x \in Workspaces : PackRuns * Cardinality(Granted(x)') \in Nat
        <5>1. ASSUME NEW x \in Workspaces
              PROVE  Granted(x)' \subseteq Payments
          BY DEF Granted
        <5>2. ASSUME NEW x \in Workspaces
              PROVE  Cardinality(Granted(x)') \in Nat
          BY <5>1, FS_Subset, FS_CardinalityType, HostedAssumption
        <5> QED
          BY <5>2, PackIs
      <4> QED
        BY <1>1, <4>1
    <3> QED
      BY <1>1, <1>2, <3>1, CountsFinite
  <2>4. ASSUME NEW m \in 0 .. MaxMonth
        PROVE  Cardinality(FreeRuns(w, m)') <= Free
    <3>1. FreeRuns(w, m)' \subseteq FreeRuns(w, m)
      <4>1. \A k \in Works : <<w, m, k>> \in RunIds
        BY RunIdIs
      <4> QED
        BY <1>3, <4>1 DEF RowsFollow, Follows, FreeRuns
    <3>2. /\ Cardinality(FreeRuns(w, m)') <= Cardinality(FreeRuns(w, m))
          /\ Cardinality(FreeRuns(w, m)') \in Nat /\ Cardinality(FreeRuns(w, m)) \in Nat
          /\ Cardinality(FreeRuns(w, m)) <= Free
      BY <1>1, <3>1, CountsFinite, FS_Subset, FS_CardinalityType DEF AllowanceSound
    <3> QED
      BY <3>2, HostedAssumption
  <2> QED
    BY <2>2, <2>3, <2>4
<1>4. ASSUME NEW id \in RunIds, Admitted(id), UNCHANGED <<grants, reversals>>, NEW w \in Workspaces
      PROVE  /\ Cardinality(Paid(w)') <= PackRuns * Cardinality(Granted(w)')
             /\ \A m \in 0 .. MaxMonth : Cardinality(FreeRuns(w, m)') <= Free
  <2> DEFINE row == [state |-> "held", paid |-> MonthRuns(id[1]) >= Free, inflight |-> 1]
  <2>1. /\ runs' = [runs EXCEPT ![id] = row] /\ runs[id].state = "none" /\ ~runs[id].paid
        /\ row.state = "held" /\ row.paid = (MonthRuns(id[1]) >= Free) /\ id[2] = month
        /\ MonthRuns(id[1]) < Free \/ Credits(id[1]) > 0
    BY <1>4 DEF Admitted, Known, RunsSound, NoRun
  <2> HIDE DEF row
  <2>2. \A x \in RunIds : runs'[x] = IF x = id THEN row ELSE runs[x]
    BY <1>1, <2>1
  <2>3. PICK u \in Workspaces, m \in 0 .. MaxMonth, k \in Works : id = <<u, m, k>>
    BY DEF RunIds
  <2>4. id[1] = u /\ m = month /\ MonthRuns(u) \in Nat /\ Free \in Nat
    BY <1>1, <2>1, <2>3, CountsFinite, HostedAssumption
  <2>9. /\ row.paid => MonthRuns(u) >= Free /\ Credits(u) > 0
        /\ ~row.paid => MonthRuns(u) < Free
    <3> DEFINE n == MonthRuns(u)
    <3>1. n \in Nat /\ Free \in Nat
      BY <2>4
    <3>2. row.paid = (n >= Free) /\ (n < Free \/ Credits(u) > 0)
      <4>1. id[1] = u
        BY <2>4
      <4> QED
        BY <2>1, <4>1
    <3> HIDE DEF n
    <3>3. (n >= Free) <=> ~(n < Free)
      BY <3>1
    <3>4. row.paid \/ ~row.paid
      OBVIOUS
    <3>5. (row.paid => n >= Free /\ Credits(u) > 0) /\ (~row.paid => n < Free)
      BY <3>2, <3>3
    <3> QED
      BY <3>5 DEF n
  <2>5. Granted(w)' = Granted(w)
    BY <1>4 DEF Granted
  <2>6. /\ Cardinality(Paid(w)) <= PackRuns * Cardinality(Granted(w))
        /\ PackRuns * Cardinality(Granted(w)) \in Nat /\ Cardinality(Paid(w)) \in Nat
        /\ Reversed(w) \in Nat
    BY <1>1, CountsFinite DEF AllowanceSound
  <2>7. Cardinality(Paid(w)') <= PackRuns * Cardinality(Granted(w))
    <3>1. CASE w = u /\ row.paid
      <4>1. Paid(w)' = Paid(w) \cup {id} /\ id \notin Paid(w)
        BY <2>1, <2>2, <2>4, <3>1 DEF Paid
      <4>2. Cardinality(Paid(w)') = Cardinality(Paid(w)) + 1
        BY <1>1, <4>1, CountsFinite, FS_AddElement
      <4>3. Credits(w) > 0
        BY <2>9, <3>1
      <4> QED
        BY <2>6, <4>2, <4>3 DEF Credits
    <3>2. CASE ~(w = u /\ row.paid)
      <4>1. Paid(w)' = Paid(w)
        BY <2>1, <2>2, <2>4, <3>2 DEF Paid
      <4> QED
        BY <2>6, <4>1
    <3> QED
      BY <3>1, <3>2
  <2>8. ASSUME NEW n \in 0 .. MaxMonth
        PROVE  Cardinality(FreeRuns(w, n)') <= Free
    <3>1. Cardinality(FreeRuns(w, n)) <= Free
      BY DEF AllowanceSound
    <3>2. \A x \in Works : /\ <<w, n, x>> \in RunIds
                           /\ <<w, n, x>> = id <=> w = u /\ n = m /\ x = k
      BY <2>3, RunIdIs
    <3>3. CASE w = u /\ n = m /\ ~row.paid
      <4>1. FreeRuns(w, n)' = FreeRuns(w, n) \cup {k}
        BY <2>1, <2>2, <3>2, <3>3 DEF FreeRuns
      <4>2. /\ FreeRuns(w, n) \subseteq {x \in Works : Known(<<w, month, x>>)}
            /\ IsFiniteSet({x \in Works : Known(<<w, month, x>>)})
        BY <2>4, <3>3, HostedAssumption, FS_Subset DEF FreeRuns, Known
      <4>3. Cardinality(FreeRuns(w, n)) <= MonthRuns(w)
        BY <4>2, FS_Subset DEF MonthRuns
      <4>4. MonthRuns(w) < Free
        BY <2>9, <3>3
      <4>5. /\ Cardinality(FreeRuns(w, n)') <= Cardinality(FreeRuns(w, n)) + 1
            /\ Cardinality(FreeRuns(w, n)') \in Nat /\ Cardinality(FreeRuns(w, n)) \in Nat
        <5>1. IsFiniteSet(FreeRuns(w, n)) /\ Cardinality(FreeRuns(w, n)) \in Nat
          BY <1>1, CountsFinite
        <5> DEFINE S == FreeRuns(w, n)
        <5>2. IsFiniteSet(S) /\ Cardinality(S) \in Nat
          BY <5>1
        <5> HIDE DEF S
        <5>3. /\ IsFiniteSet(S \cup {k})
              /\ Cardinality(S \cup {k}) = IF k \in S THEN Cardinality(S) ELSE Cardinality(S) + 1
          BY <5>2, FS_AddElement
        <5>4. Cardinality(S \cup {k}) <= Cardinality(S) + 1 /\ Cardinality(S \cup {k}) \in Nat
          BY <5>2, <5>3
        <5> QED
          BY <5>2, <5>4, <4>1 DEF S
      <4> QED
        BY <2>4, <3>3, <4>3, <4>4, <4>5
    <3>4. CASE ~(w = u /\ n = m /\ ~row.paid)
      <4>1. FreeRuns(w, n)' = FreeRuns(w, n)
        BY <2>1, <2>2, <3>2, <3>4 DEF FreeRuns
      <4> QED
        BY <3>1, <4>1
    <3> QED
      BY <3>3, <3>4
  <2> QED
    BY <2>5, <2>7, <2>8
<1> QED
  BY <1>3, <1>4, RowsOfStep DEF AllowanceSound


-----------------------------------------------------------------------------
(***************************************************************************)
(* The chain: what is used stays used, only a valid authorization with a   *)
(* row before it is used, and time does not go back.                       *)
(***************************************************************************)
LEMMA ChainOfStep ==
  ASSUME TypesSound, ChargesSound, [Next]_vars
  PROVE  /\ used \subseteq used'
         /\ \A b \in used' \ used : valid[b] = "valid" /\ pending[b].state # "none"
         /\ \A b \in Buys : valid[b] = "past" => valid'[b] = "past"
<1>1. /\ valid \in [Buys -> {"valid", "lapsed", "past"}] /\ req \in [Requests -> Doing]
      /\ \A b \in sent : pending[b].state # "none"
      /\ \A q \in Requests : req[q].at = "settling" => pending[req[q].buy].state # "none"
  BY DEF TypesSound, TypeOK, ChargesSound, HandlersSound
<1> USE DEF tables, stripe, chain
<1>2. CASE UNCHANGED <<used, valid>>
  BY <1>2
<1>3. ASSUME NEW q \in Requests, Settles(q)
      PROVE  /\ used \subseteq used' /\ UNCHANGED valid
             /\ \A b \in used' \ used : valid[b] = "valid" /\ pending[b].state # "none"
  BY <1>1, <1>3 DEF Settles, Verified
<1>4. ASSUME NEW b \in Buys, Lands(b)
      PROVE  /\ used \subseteq used' /\ UNCHANGED valid
             /\ \A x \in used' \ used : valid[x] = "valid" /\ pending[x].state # "none"
  BY <1>1, <1>4 DEF Lands, Verified
<1>5. ASSUME NEW b \in Buys, TimePasses(b)
      PROVE  UNCHANGED used /\ \A x \in Buys : valid[x] = "past" => valid'[x] = "past"
  BY <1>1, <1>5 DEF TimePasses
<1>6. CASE \/ UNCHANGED vars \/ NextMonth \/ Crash \/ Start \/ Serve
           \/ \E w \in Workspaces : CreateWorkspace(w)
           \/ \E r \in Reconcilers : BeginPass(r) \/ Decide(r)
           \/ \E r \in Reconcilers, b \in Buys, answer \in {"used", "unused", "unknown"} : Ask(r, b, answer)
  BY <1>2, <1>6 DEF vars, CreateWorkspace, NextMonth, BeginPass, Decide, Ask, Crash, Start, Serve
<1>7. CASE \/ \E s \in Sessions, w \in Workspaces : Checkout(s, w)
           \/ \E s \in Sessions : CardPaid(s)
           \/ \E s \in Sessions, cents \in 1 .. PackCents : CardRefunded(s, cents)
           \/ \E e \in wire, again \in BOOLEAN : Webhook(e, again)
           \/ \E t \in Refunds, b \in Buys : RecordProof(t, b)
           \/ \E e \in refunding : ApplyProof(e) \/ OperatorStops(e)
  BY <1>2, <1>7 DEF Checkout, CardPaid, CardRefunded, Webhook, RecordProof, ApplyProof, OperatorStops
<1>8. CASE \/ \E q \in Requests, b \in Buys, w \in Workspaces : Buy(q, b, w)
           \/ \E q \in Requests, w \in Workspaces, k \in Works : Admit(q, w, k)
           \/ \E q \in Requests, answered \in BOOLEAN : Close(q, answered)
           \/ \E q \in Requests : SettleRefused(q) \/ SettleRaises(q) \/ HookPaid(q)
                                    \/ HookRefused(q) \/ StreamPrepared(q) \/ NeverRead(q)
  BY <1>2, <1>8 DEF Buy, Admit, Close, SettleRefused, SettleRaises, HookPaid, HookRefused,
                    StreamPrepared, NeverRead
<1> QED
  BY <1>3, <1>4, <1>5, <1>6, <1>7, <1>8 DEF Next, Answered, NotAnswered, StreamEnded

(***************************************************************************)
(* The rows of the purchases: one that is recorded stays, one that is      *)
(* settled stays settled, and only one the chain used is ever granted.     *)
(***************************************************************************)
LEMMA SettleIs ==
  ASSUME TypesSound, ChargesAreSeen, NEW b \in Buys, b \in used, SettlePending(b)
  PROVE  \A x \in Buys : /\ pending[x].state # "none" => pending'[x].state # "none"
                         /\ pending[x].state = "settled" => pending'[x].state = "settled"
                         /\ grants'[x] # None =>
                              grants[x] # None \/ (x \in used /\ pending'[x].state = "settled")
<1>1. /\ b \in Payments /\ Buys \subseteq Payments
      /\ grants \in [Payments -> workspaces \cup {None}]
      /\ pending \in [Buys -> [state : {"none", "pending", "settled", "failed"},
                               ws : workspaces \cup {None}]]
  BY DEF TypesSound, TypeOK, Payments
<1>2. pending[b].state # "none"
  BY DEF ChargesAreSeen
<1>3. pending' = [pending EXCEPT ![b] = [pending[b] EXCEPT !.state = "settled"]]
  BY <1>2 DEF SettlePending
<1>4. /\ pending'[b].state = "settled"
      /\ \A x \in Buys \ {b} : pending'[x] = pending[x]
  BY <1>1, <1>3
<1>5. \A x \in Payments \ {b} : grants'[x] = grants[x]
  BY <1>1, <1>2 DEF SettlePending, Grant
<1> QED
  BY <1>1, <1>4, <1>5

LEMMA PurchasesOfStep ==
  ASSUME TypesSound, ChargesSound, [Next]_vars
  PROVE  /\ \A b \in Buys : /\ pending[b].state # "none" => pending'[b].state # "none"
                            /\ pending[b].state = "settled" => pending'[b].state = "settled"
                            /\ grants'[b] # None =>
                                 grants[b] # None \/ (b \in used /\ pending'[b].state = "settled")
         /\ \A b \in writtenOff' : b \in writtenOff \/ (b \notin used' /\ valid'[b] = "past")
<1> DEFINE Kept ==
             \A b \in Buys :
               /\ pending[b].state # "none" => pending'[b].state # "none"
               /\ pending[b].state = "settled" => pending'[b].state = "settled"
               /\ grants'[b] # None =>
                    grants[b] # None \/ (b \in used /\ pending'[b].state = "settled")
           Written == \A b \in writtenOff' : b \in writtenOff \/ (b \notin used' /\ valid'[b] = "past")
<1> SUFFICES Kept /\ Written
  OBVIOUS
<1>1. /\ TypeOK /\ Buys \subseteq Payments /\ Buys \cap Sessions = {}
      /\ pending \in [Buys -> [state : {"none", "pending", "settled", "failed"},
                               ws : workspaces \cup {None}]]
      /\ grants \in [Payments -> workspaces \cup {None}]
      /\ ChargesAreSeen /\ HandlersSound /\ PassesSound
  BY HostedAssumption DEF TypesSound, TypeOK, Payments, ChargesSound
<1> USE DEF tables, stripe, chain
<1>2. CASE UNCHANGED <<pending, grants, writtenOff>>
  BY <1>2
<1>3. ASSUME NEW b \in Buys, FailPending(b)
      PROVE  \A x \in Buys : /\ pending[x].state # "none" => pending'[x].state # "none"
                             /\ pending[x].state = "settled" => pending'[x].state = "settled"
  <2>1. PICK state : /\ pending' = [pending EXCEPT ![b] = [pending[b] EXCEPT !.state = state]]
                     /\ state = IF pending[b].state = "pending" THEN "failed" ELSE pending[b].state
    BY <1>3 DEF FailPending
  <2>2. \A x \in Buys : pending'[x].state = IF x = b THEN state ELSE pending[x].state
    BY <1>1, <2>1
  <2> QED
    BY <2>1, <2>2
<1>4. ASSUME NEW q \in Requests, NEW b \in Buys, NEW w \in Workspaces, Buy(q, b, w)
      PROVE  Kept /\ Written
  <2>1. /\ pending' = [pending EXCEPT ![b] = IF @.state = "none" THEN [state |-> "pending", ws |-> w] ELSE @]
        /\ UNCHANGED <<grants, writtenOff>>
    BY <1>4 DEF Buy, RecordPending
  <2> QED
    BY <1>1, <2>1
<1>5. ASSUME NEW q \in Requests, HookPaid(q) \/ HookRefused(q)
      PROVE  Kept /\ Written
  <2>1. req[q] \in Doing
    BY <1>1 DEF TypeOK
  <2>2. PICK b \in Buys : b = req[q].buy
    BY <1>5, <2>1 DEF HookPaid, HookRefused, Doing
  <2>3. CASE HookPaid(q)
    <3>1. b \in used /\ SettlePending(b) /\ UNCHANGED writtenOff
      BY <1>1, <2>2, <2>3 DEF HandlersSound, HookPaid
    <3> QED
      BY <1>1, <3>1, SettleIs
  <2>4. CASE HookRefused(q)
    <3>1. FailPending(b) /\ UNCHANGED <<grants, writtenOff>>
      BY <2>2, <2>4 DEF HookRefused
    <3> QED
      BY <1>1, <1>3, <3>1
  <2> QED
    BY <1>5, <2>3, <2>4
<1>6. ASSUME NEW r \in Reconcilers, Decide(r)
      PROVE  Kept /\ Written
  <2>1. PICK b \in Buys : b = pass[r].asked
    BY <1>1, <1>6 DEF TypeOK, Decide
  <2>2. UNCHANGED <<used, valid>>
    BY <1>6 DEF Decide
  <2>3. CASE pass[r].answer = "used"
    <3>1. b \in used /\ SettlePending(b) /\ UNCHANGED writtenOff
      BY <1>1, <1>6, <2>1, <2>3 DEF Decide, PassesSound, PassSound
    <3> QED
      BY <1>1, <3>1, SettleIs
  <2>4. CASE pass[r].answer # "used" /\ Expired(r, b)
    <3>1. /\ FailPending(b) /\ UNCHANGED grants
          /\ writtenOff' \subseteq writtenOff \cup {b}
      BY <1>6, <2>1, <2>4 DEF Decide
    <3>2. b \notin used /\ valid[b] = "past"
      BY <1>1, <2>1, <2>4 DEF PassesSound, PassSound, Expired
    <3> QED
      BY <1>1, <1>3, <2>2, <3>1, <3>2
  <2>5. CASE pass[r].answer # "used" /\ ~Expired(r, b)
    BY <1>2, <1>6, <2>1, <2>5 DEF Decide
  <2> QED
    BY <2>3, <2>4, <2>5
<1>7. ASSUME NEW e \in wire, NEW again \in BOOLEAN, Webhook(e, again)
      PROVE  Kept /\ Written
  <2>1. e.of \in Sessions /\ UNCHANGED <<pending, writtenOff>>
    BY <1>1, <1>7 DEF TypeOK, Webhook
  <2>2. UNCHANGED grants \/ Grant(e.of, session[e.of].ws)
    BY <1>7 DEF Webhook
  <2> QED
    BY <1>1, <2>1, <2>2 DEF Grant
<1>8. CASE \/ UNCHANGED vars \/ NextMonth \/ Crash \/ Start \/ Serve
           \/ \E w \in Workspaces : CreateWorkspace(w)
           \/ \E b \in Buys : Lands(b) \/ TimePasses(b)
           \/ \E r \in Reconcilers : BeginPass(r)
           \/ \E r \in Reconcilers, b \in Buys, answer \in {"used", "unused", "unknown"} : Ask(r, b, answer)
  BY <1>2, <1>8 DEF vars, CreateWorkspace, NextMonth, Lands, TimePasses, BeginPass, Ask, Crash, Start,
                    Serve
<1>9. CASE \/ \E s \in Sessions, w \in Workspaces : Checkout(s, w)
           \/ \E s \in Sessions : CardPaid(s)
           \/ \E s \in Sessions, cents \in 1 .. PackCents : CardRefunded(s, cents)
           \/ \E t \in Refunds, b \in Buys : RecordProof(t, b)
           \/ \E e \in refunding : ApplyProof(e) \/ OperatorStops(e)
  BY <1>2, <1>9 DEF Checkout, CardPaid, CardRefunded, RecordProof, ApplyProof, OperatorStops
<1>10. CASE \/ \E q \in Requests, w \in Workspaces, k \in Works : Admit(q, w, k)
            \/ \E q \in Requests, answered \in BOOLEAN : Close(q, answered)
            \/ \E q \in Requests : Settles(q) \/ SettleRefused(q) \/ SettleRaises(q)
                                     \/ StreamPrepared(q) \/ NeverRead(q)
  BY <1>2, <1>10 DEF Admit, Close, Settles, SettleRefused, SettleRaises, StreamPrepared, NeverRead
<1> HIDE DEF Kept, Written
<1> QED
  BY <1>4, <1>5, <1>6, <1>7, <1>8, <1>9, <1>10 DEF Next, Answered, NotAnswered, StreamEnded

(***************************************************************************)
(* Whatever a handler or a pass goes on with is still so after a step.     *)
(***************************************************************************)
LEMMA HandlersStep ==
  ASSUME TypesSound, ChargesSound, [Next]_vars
  PROVE  HandlersSound' /\ \A b \in sent' : pending'[b].state # "none"
<1> DEFINE At(q, h) == /\ h.at \in {"settling", "refused", "paid"} => pending'[h.buy].state # "none"
                       /\ h.at = "paid" => h.buy \in used'
           Seen == \A b \in sent' : b \in sent \/ pending'[b].state # "none"
<1>1. /\ req \in [Requests -> Doing] /\ sent \subseteq Buys /\ used \subseteq used'
      /\ \A b \in Buys : pending[b].state # "none" => pending'[b].state # "none"
      /\ \A q \in Requests :
           /\ req[q].at \in {"settling", "refused", "paid"} => pending[req[q].buy].state # "none"
           /\ req[q].at = "paid" => req[q].buy \in used
      /\ \A b \in sent : pending[b].state # "none"
      /\ pending \in [Buys -> [state : {"none", "pending", "settled", "failed"},
                               ws : workspaces \cup {None}]]
  BY ChainOfStep, PurchasesOfStep DEF TypesSound, TypeOK, ChargesSound, HandlersSound
<1>2. \A q \in Requests : At(q, req[q])
  <2>1. ASSUME NEW q \in Requests, req[q].at \in {"settling", "refused", "paid"}
        PROVE  req[q].buy \in Buys
    <3>1. req[q] \in Doing
      BY <1>1
    <3> QED
      BY <2>1, <3>1 DEF Doing
  <2> QED
    BY <1>1, <2>1
<1>3. \A q \in Requests : At(q, Idle) /\ \A id \in RunIds : At(q, Call("called", id)) /\ At(q, Call("reading", id))
  BY DEF Idle, Call
<1>4. SUFFICES (\A q \in Requests : At(q, req'[q])) /\ Seen
  BY <1>1 DEF HandlersSound
<1> USE DEF tables, stripe, chain
<1>5. CASE UNCHANGED <<req, sent>>
  BY <1>2, <1>5
<1>6. ASSUME NEW q \in Requests, NEW h, At(q, h), Go(q, h)
      PROVE  \A x \in Requests : At(x, req'[x])
  <2>1. \A x \in Requests : req'[x] = IF x = q THEN h ELSE req[x]
    BY <1>1, <1>6 DEF Go
  <2> HIDE DEF At
  <2>2. ASSUME NEW x \in Requests
        PROVE  At(x, req'[x])
    <3>1. CASE x = q
      BY <1>6, <2>1, <3>1
    <3>2. CASE x # q
      BY <1>2, <2>1, <3>2
    <3> QED
      BY <3>1, <3>2
  <2> QED
    BY <2>2
<1>7. ASSUME NEW q \in Requests, NEW w \in Workspaces, NEW k \in Works, Admit(q, w, k)
      PROVE  (\A x \in Requests : At(x, req'[x])) /\ Seen
  <2>1. At(q, Call("called", <<w, month, k>>)) /\ Go(q, Call("called", <<w, month, k>>)) /\ Seen
    BY <1>7 DEF Admit, Call
  <2> HIDE DEF At, Seen
  <2> QED
    BY <1>6, <2>1
<1>8. ASSUME NEW q \in Requests,
             (\E answered \in BOOLEAN : Close(q, answered)) \/ StreamPrepared(q) \/ NeverRead(q)
      PROVE  (\A x \in Requests : At(x, req'[x])) /\ Seen
  <2>1. Go(q, Idle) \/ Go(q, Call("reading", req[q].run))
    BY <1>8 DEF Close, StreamPrepared, NeverRead
  <2>2. At(q, Idle) /\ At(q, Call("reading", req[q].run)) /\ Seen
    BY <1>8 DEF Close, StreamPrepared, NeverRead, Idle, Call
  <2> HIDE DEF At, Seen
  <2> QED
    BY <1>6, <2>1, <2>2
<1>9. ASSUME NEW q \in Requests, NEW b \in Buys, NEW w \in Workspaces, Buy(q, b, w)
      PROVE  (\A x \in Requests : At(x, req'[x])) /\ Seen
  <2>1. Go(q, Purchase("settling", b)) /\ RecordPending(b, w) /\ UNCHANGED sent
    BY <1>9 DEF Buy
  <2>2. pending'[b].state # "none"
    BY <1>1, <2>1 DEF RecordPending
  <2>3. At(q, Purchase("settling", b)) /\ Seen
    BY <2>1, <2>2 DEF Purchase
  <2> HIDE DEF At, Seen
  <2> QED
    BY <1>6, <2>1, <2>3
<1>10. ASSUME NEW q \in Requests,
              Settles(q) \/ SettleRefused(q) \/ SettleRaises(q) \/ HookPaid(q) \/ HookRefused(q)
       PROVE  (\A x \in Requests : At(x, req'[x])) /\ Seen
  <2>1. /\ req[q].at \in {"settling", "refused", "paid"}
        /\ \/ Go(q, Idle)
           \/ Go(q, Purchase("refused", req[q].buy))
           \/ Go(q, Purchase("paid", req[q].buy)) /\ req[q].buy \in used'
        /\ sent' \subseteq sent \cup {req[q].buy}
    BY <1>10 DEF Settles, SettleRefused, SettleRaises, HookPaid, HookRefused
  <2>2. pending'[req[q].buy].state # "none"
    BY <1>2, <2>1
  <2>3. /\ At(q, Idle) /\ At(q, Purchase("refused", req[q].buy)) /\ Seen
        /\ req[q].buy \in used' => At(q, Purchase("paid", req[q].buy))
    BY <2>1, <2>2 DEF Idle, Purchase
  <2> HIDE DEF At, Seen
  <2> QED
    BY <1>6, <2>1, <2>3
<1>11. CASE Crash
  <2>1. /\ req' = [q \in Requests |-> Idle]
        /\ sent' = sent \cup {b \in Buys : \E q \in Requests : req[q] = Purchase("settling", b)}
    BY <1>11 DEF Crash
  <2>2. ASSUME NEW b \in Buys, NEW q \in Requests, req[q] = Purchase("settling", b)
        PROVE  pending'[b].state # "none"
    BY <1>2, <2>2 DEF Purchase
  <2>3. Seen
    BY <2>1, <2>2
  <2>4. ASSUME NEW q \in Requests
        PROVE  At(q, req'[q])
    <3>1. At(q, Idle) /\ req'[q] = Idle
      BY <1>3, <2>1
    <3> HIDE DEF At
    <3> QED
      BY <3>1
  <2> QED
    BY <2>3, <2>4
<1>12. CASE \/ UNCHANGED vars \/ NextMonth \/ Start \/ Serve
            \/ \E w \in Workspaces : CreateWorkspace(w)
            \/ \E b \in Buys : Lands(b) \/ TimePasses(b)
            \/ \E r \in Reconcilers : BeginPass(r) \/ Decide(r)
            \/ \E r \in Reconcilers, b \in Buys, answer \in {"used", "unused", "unknown"} : Ask(r, b, answer)
  BY <1>5, <1>12 DEF vars, CreateWorkspace, NextMonth, Lands, TimePasses, BeginPass, Decide, Ask, Start,
                     Serve
<1>13. CASE \/ \E s \in Sessions, w \in Workspaces : Checkout(s, w)
            \/ \E s \in Sessions : CardPaid(s)
            \/ \E s \in Sessions, cents \in 1 .. PackCents : CardRefunded(s, cents)
            \/ \E e \in wire, again \in BOOLEAN : Webhook(e, again)
            \/ \E t \in Refunds, b \in Buys : RecordProof(t, b)
            \/ \E e \in refunding : ApplyProof(e) \/ OperatorStops(e)
  BY <1>5, <1>13 DEF Checkout, CardPaid, CardRefunded, Webhook, RecordProof, ApplyProof, OperatorStops
<1> HIDE DEF At, Seen
<1> QED
  BY <1>7, <1>8, <1>9, <1>10, <1>11, <1>12, <1>13 DEF Next, Answered, NotAnswered, StreamEnded

(***************************************************************************)
(* What a pass that goes on, begins, asks or decides knows of the chain.   *)
(***************************************************************************)
LEMMA PassesStep ==
  ASSUME TypesSound, ChargesSound, [Next]_vars
  PROVE  PassesSound'
<1>1. /\ pass \in [Reconcilers -> Passes] /\ used \subseteq Buys
      /\ used \subseteq used'
      /\ \A b \in used' \ used : valid[b] = "valid"
      /\ \A b \in Buys : valid[b] = "past" => valid'[b] = "past"
      /\ \A r \in Reconcilers : PassSound(pass[r])
  BY ChainOfStep DEF TypesSound, TypeOK, ChargesSound, PassesSound, Passes
<1> DEFINE Knows(p) == /\ \A b \in p.past : valid'[b] = "past"
                       /\ p.answer = "used" => p.asked \in used'
                       /\ p.answer = "unused" /\ p.asked \in p.past => p.asked \notin used'
<1>2. SUFFICES \A r \in Reconcilers : Knows(pass'[r])
  BY DEF PassesSound, PassSound
<1>3. \A r \in Reconcilers : Knows(pass[r])
  <2>1. ASSUME NEW r \in Reconcilers
        PROVE  Knows(pass[r])
    <3>1. PassSound(pass[r]) /\ pass[r].past \subseteq Buys
      BY <1>1 DEF Passes
    <3> QED
      BY <1>1, <3>1 DEF PassSound
  <2> QED
    BY <2>1
<1>4. Knows(NoPass)
  BY DEF NoPass
<1>5. Knows(PassOver(AwaitingPayment))
  <2>1. /\ PassOver(AwaitingPayment).past = {b \in Buys : valid[b] = "past"}
        /\ PassOver(AwaitingPayment).answer = "none"
    BY DEF PassOver, NoPass
  <2> QED
    BY <1>1, <2>1
<1> USE DEF tables, stripe, chain
<1>6. CASE UNCHANGED pass
  BY <1>3, <1>6
<1>7. ASSUME NEW r \in Reconcilers, NEW p, Knows(p), pass' = [pass EXCEPT ![r] = p]
      PROVE  \A x \in Reconcilers : Knows(pass'[x])
  <2>1. \A x \in Reconcilers : pass'[x] = IF x = r THEN p ELSE pass[x]
    BY <1>1, <1>7
  <2> HIDE DEF Knows
  <2>2. ASSUME NEW x \in Reconcilers
        PROVE  Knows(pass'[x])
    <3>1. CASE x = r
      BY <1>7, <2>1, <3>1
    <3>2. CASE x # r
      BY <1>3, <2>1, <3>2
    <3> QED
      BY <3>1, <3>2
  <2> QED
    BY <2>2
<1>8. ASSUME NEW r \in Reconcilers, BeginPass(r)
      PROVE  \A x \in Reconcilers : Knows(pass'[x])
  <2>1. pass' = [pass EXCEPT ![r] = PassOver(AwaitingPayment)]
    BY <1>8 DEF BeginPass
  <2> HIDE DEF Knows
  <2> QED
    BY <1>5, <1>7, <2>1
<1>9. CASE Crash \/ Start
  <2>1. \/ pass' = [pass EXCEPT ![Loop] = NoPass]
        \/ pass' = [pass EXCEPT ![Loop] = PassOver(AwaitingPayment)]
    BY <1>9 DEF Crash, Start
  <2> HIDE DEF Knows
  <2> QED
    BY <1>4, <1>5, <1>7, <2>1 DEF Reconcilers
<1>10. ASSUME NEW r \in Reconcilers, NEW b \in Buys, NEW answer \in {"used", "unused", "unknown"},
              Ask(r, b, answer)
       PROVE  \A x \in Reconcilers : Knows(pass'[x])
  <2> DEFINE p == [pass[r] EXCEPT !.asked = b, !.answer = answer]
  <2>1. /\ pass' = [pass EXCEPT ![r] = p] /\ UNCHANGED <<used, valid>>
        /\ answer = "used" => b \in used
        /\ answer = "unused" => b \notin used \/ valid[b] # "past"
    BY <1>1, <1>10 DEF Ask
  <2>2. p.asked = b /\ p.answer = answer /\ p.past = pass[r].past /\ PassSound(pass[r])
    BY <1>1 DEF Passes
  <2> HIDE DEF p
  <2>3. Knows(p)
    BY <2>1, <2>2 DEF PassSound
  <2> HIDE DEF Knows
  <2> QED
    BY <1>7, <2>1, <2>3
<1>11. ASSUME NEW r \in Reconcilers, Decide(r)
       PROVE  \A x \in Reconcilers : Knows(pass'[x])
  <2> DEFINE p == [pass[r] EXCEPT !.todo = @ \ {pass[r].asked}, !.asked = None, !.answer = "none"]
  <2>1. pass' = [pass EXCEPT ![r] = p] /\ UNCHANGED <<used, valid>>
    BY <1>1, <1>11 DEF Decide
  <2>2. p.answer = "none" /\ p.past = pass[r].past /\ PassSound(pass[r])
    BY <1>1 DEF Passes
  <2> HIDE DEF p
  <2>3. Knows(p)
    BY <2>1, <2>2 DEF PassSound
  <2> HIDE DEF Knows
  <2> QED
    BY <1>7, <2>1, <2>3
<1>12. CASE \/ UNCHANGED vars \/ NextMonth \/ Serve
            \/ \E w \in Workspaces : CreateWorkspace(w)
            \/ \E b \in Buys : Lands(b) \/ TimePasses(b)
  BY <1>6, <1>12 DEF vars, CreateWorkspace, NextMonth, Lands, TimePasses, Serve
<1>13. CASE \/ \E s \in Sessions, w \in Workspaces : Checkout(s, w)
            \/ \E s \in Sessions : CardPaid(s)
            \/ \E s \in Sessions, cents \in 1 .. PackCents : CardRefunded(s, cents)
            \/ \E e \in wire, again \in BOOLEAN : Webhook(e, again)
            \/ \E t \in Refunds, b \in Buys : RecordProof(t, b)
            \/ \E e \in refunding : ApplyProof(e) \/ OperatorStops(e)
  BY <1>6, <1>13 DEF Checkout, CardPaid, CardRefunded, Webhook, RecordProof, ApplyProof, OperatorStops
<1>14. CASE \/ \E q \in Requests, b \in Buys, w \in Workspaces : Buy(q, b, w)
            \/ \E q \in Requests, w \in Workspaces, k \in Works : Admit(q, w, k)
            \/ \E q \in Requests, answered \in BOOLEAN : Close(q, answered)
            \/ \E q \in Requests : Settles(q) \/ SettleRefused(q) \/ SettleRaises(q) \/ HookPaid(q)
                                     \/ HookRefused(q) \/ StreamPrepared(q) \/ NeverRead(q)
  BY <1>6, <1>14 DEF Buy, Admit, Close, Settles, SettleRefused, SettleRaises, HookPaid, HookRefused,
                     StreamPrepared, NeverRead
<1> HIDE DEF Knows
<1> QED
  BY <1>8, <1>9, <1>10, <1>11, <1>12, <1>13, <1>14 DEF Next, Answered, NotAnswered, StreamEnded

LEMMA ChargesStep ==
  ASSUME TypesSound, ChargesSound, [Next]_vars
  PROVE  ChargesSound'
<1>1. TypesSound' /\ HandlersSound' /\ PassesSound' /\ \A b \in sent' : pending'[b].state # "none"
  BY TypesStep, HandlersStep, PassesStep
<1>2. /\ ChargesAreSeen /\ used \subseteq used' /\ writtenOff' \subseteq Buys
      /\ \A b \in used' \ used : valid[b] = "valid" /\ pending[b].state # "none"
      /\ \A b \in Buys : valid[b] = "past" => valid'[b] = "past"
      /\ \A b \in Buys : /\ pending[b].state # "none" => pending'[b].state # "none"
                         /\ pending[b].state = "settled" => pending'[b].state = "settled"
                         /\ grants'[b] # None =>
                              grants[b] # None \/ (b \in used /\ pending'[b].state = "settled")
      /\ \A b \in writtenOff' : b \in writtenOff \/ (b \notin used' /\ valid'[b] = "past")
  BY <1>1, ChainOfStep, PurchasesOfStep DEF ChargesSound, TypesSound, TypeOK
<1>3. ChargesAreSeen'
  <2>1. ASSUME NEW b \in Buys
        PROVE  /\ b \in used' => pending'[b].state # "none"
               /\ grants'[b] # None => b \in used' /\ pending'[b].state = "settled"
               /\ b \in writtenOff' => b \notin used' /\ valid'[b] = "past"
    <3>1. /\ b \in used => pending[b].state # "none"
          /\ grants[b] # None => b \in used /\ pending[b].state = "settled"
          /\ b \in writtenOff => b \notin used /\ valid[b] = "past"
      BY <1>2 DEF ChargesAreSeen
    <3>2. b \in used' => pending'[b].state # "none"
      BY <1>2, <3>1
    <3>3. grants'[b] # None => b \in used' /\ pending'[b].state = "settled"
      BY <1>2, <3>1
    <3>4. b \in writtenOff' => b \notin used' /\ valid'[b] = "past"
      BY <1>2, <3>1
    <3> QED
      BY <3>2, <3>3, <3>4
  <2> QED
    BY <2>1 DEF ChargesAreSeen
<1> QED
  BY <1>1, <1>3 DEF ChargesSound

-----------------------------------------------------------------------------
(***************************************************************************)
(* What a refund leaves reversed of its payment: no less than before, and  *)
(* the runs that the cents are worth.                                      *)
(***************************************************************************)
LEMMA ReversedIs ==
  ASSUME TypeOK, NEW p \in Payments, NEW n \in Nat, Reverse(p, n),
         \A x \in Payments : reversals[x].runs = Share(reversals[x].cents)
  PROVE  /\ \A x \in Payments : reversals'[x].runs = Share(reversals'[x].cents)
         /\ \A x \in Payments \ {p} : reversals'[x] = reversals[x]
         /\ reversals'[p].cents = Larger(reversals[p].cents, Capped(n))
<1> DEFINE c == reversals[p].cents
           d == Capped(n)
<1>1. reversals \in [Payments -> [runs : 0 .. PackRuns, cents : 0 .. PackCents]]
  BY DEF TypeOK
<1>2. reversals' = [reversals EXCEPT ![p] = [runs |-> Larger(Share(c), Share(d)), cents |-> Larger(c, d)]]
  BY ReverseIs
<1>3. c \in Nat /\ d \in Nat
  BY <1>1, PackIs DEF Capped
<1>4. Larger(Share(c), Share(d)) = Share(Larger(c, d))
  <2> HIDE DEF c, d
  <2>1. Share(c) \in Nat /\ Share(d) \in Nat
    BY <1>3, ShareIs, PackIs
  <2>2. CASE c > d
    <3>1. d <= c
      BY <1>3, <2>2
    <3>2. Share(d) <= Share(c)
      BY <1>3, <3>1, ShareIs
    <3> QED
      BY <2>1, <2>2, <3>2 DEF Larger
  <2>3. CASE ~(c > d)
    <3>1. c <= d
      BY <1>3, <2>3
    <3>2. Share(c) <= Share(d)
      BY <1>3, <3>1, ShareIs
    <3> QED
      BY <2>1, <2>3, <3>2 DEF Larger
  <2> QED
    BY <2>2, <2>3
<1>5. /\ \A x \in Payments \ {p} : reversals'[x] = reversals[x]
      /\ reversals'[p].runs = Larger(Share(c), Share(d)) /\ reversals'[p].cents = Larger(c, d)
  <2> HIDE DEF c, d
  <2> QED
    BY <1>1, <1>2
<1> QED
  BY <1>4, <1>5

LEMMA RefundsStep ==
  ASSUME TypesSound, RefundsSound, [Next]_vars
  PROVE  RefundsSound'
<1> DEFINE Proved(b) == RefundCents * Cardinality(Backing(b))
           Told(s, r, k, m, w) == /\ r.cents <= k
                                  /\ s \in m \/ r.cents = k \/ RefundEvent(s, k) \in w
<1>01. Sessions \subseteq Payments /\ \A b \in Buys : b \notin Sessions
  BY HostedAssumption DEF Payments
<1>1. /\ TypeOK /\ TypesSound' /\ TypeOK'
      /\ reversals \in [Payments -> [runs : 0 .. PackRuns, cents : 0 .. PackCents]]
      /\ session \in [Sessions -> [ws : workspaces \cup {None}, paid : BOOLEAN, refunded : 0 .. PackCents]]
      /\ wire \subseteq [of : Sessions, refunded : 0 .. PackCents]
      /\ proofs \in [Refunds -> Buys \cup {None}]
      /\ \A e \in refunding : e \in [of : Buys, refunded : Nat]
      /\ Buys \subseteq Payments /\ Sessions \subseteq Payments /\ Buys \cap Sessions = {}
      /\ None \notin Buys
  BY TypesStep, HostedAssumption DEF TypesSound, TypeOK, Payments
<1>2. /\ \A p \in Payments : reversals[p].runs = Share(reversals[p].cents)
      /\ \A e \in wire : e.refunded <= session[e.of].refunded
      /\ \A s \in Sessions : Told(s, reversals[s], session[s].refunded, missed, wire)
      /\ \A b \in Buys : reversals[b].cents <= Proved(b)
      /\ \A e \in refunding : e.refunded <= Proved(e.of)
  BY DEF RefundsSound
<1> USE DEF tables, stripe, chain
<1>3. CASE UNCHANGED <<reversals, proofs, session, wire, missed>> /\ refunding' \subseteq refunding
  BY <1>2, <1>3 DEF RefundsSound, Backing
<1>4. ASSUME NEW s \in Sessions, NEW w \in Workspaces, Checkout(s, w)
      PROVE  RefundsSound'
  <2>1. /\ session' = [session EXCEPT ![s].ws = w]
        /\ UNCHANGED <<reversals, proofs, wire, missed, refunding>>
    BY <1>4 DEF Checkout
  <2>2. \A x \in Sessions : session'[x].refunded = session[x].refunded
    BY <1>1, <2>1
  <2>3. \A e \in wire : e.of \in Sessions
    BY <1>1
  <2> QED
    BY <1>2, <2>1, <2>2, <2>3 DEF RefundsSound, Backing
<1>5. ASSUME NEW s \in Sessions, CardPaid(s)
      PROVE  RefundsSound'
  <2>1. /\ session' = [session EXCEPT ![s].paid = TRUE]
        /\ wire' = wire \cup {PaidEvent(s)}
        /\ UNCHANGED <<reversals, proofs, missed, refunding>>
    BY <1>5 DEF CardPaid
  <2>2. \A x \in Sessions : session'[x].refunded = session[x].refunded
    BY <1>1, <2>1
  <2>3. \A e \in wire : e.of \in Sessions
    BY <1>1
  <2>4. PaidEvent(s).of = s /\ PaidEvent(s).refunded = 0 /\ 0 <= session[s].refunded
    BY <1>1, PackIs DEF PaidEvent
  <2> QED
    BY <1>2, <2>1, <2>2, <2>3, <2>4 DEF RefundsSound, Backing
<1>6. ASSUME NEW s \in Sessions, NEW cents \in 1 .. PackCents, CardRefunded(s, cents)
      PROVE  RefundsSound'
  <2>1. /\ session' = [session EXCEPT ![s].refunded = cents]
        /\ wire' = wire \cup {RefundEvent(s, cents)}
        /\ cents > session[s].refunded
        /\ UNCHANGED <<reversals, proofs, missed, refunding>>
    BY <1>1, <1>6, PackIs DEF CardRefunded
  <2>2. /\ \A x \in Sessions : session'[x].refunded = IF x = s THEN cents ELSE session[x].refunded
        /\ \A x \in Sessions : session[x].refunded \in Nat /\ reversals[x].cents \in Nat
        /\ cents \in Nat
    BY <1>1, <2>1, PackIs
  <2>3. \A e \in wire' : /\ e.of \in Sessions /\ e.refunded \in Nat
                         /\ e \in wire \/ (e.of = s /\ e.refunded = cents)
    BY <1>1, <2>1, <2>2, PackIs DEF RefundEvent
  <2>4. \A e \in wire' : e.refunded <= session'[e.of].refunded
    BY <1>2, <2>1, <2>2, <2>3
  <2>5. \A x \in Sessions : Told(x, reversals'[x], session'[x].refunded, missed', wire')
    BY <1>2, <2>1, <2>2
  <2> QED
    BY <1>2, <2>1, <2>4, <2>5 DEF RefundsSound, Backing
<1>7. ASSUME NEW e \in wire, NEW again \in BOOLEAN, Webhook(e, again)
      PROVE  RefundsSound'
  <2>1. PICK s \in Sessions : s = e.of
    BY <1>1
  <2>2. /\ e.refunded \in 0 .. PackCents /\ e.refunded \in Nat /\ e.refunded <= session[s].refunded
        /\ session[s].refunded \in Nat /\ reversals[s].cents \in Nat
        /\ Capped(e.refunded) = e.refunded
    BY <1>1, <1>2, <2>1, PackIs DEF Capped
  <2>3. /\ wire' \subseteq wire /\ wire \ {e} \subseteq wire' /\ missed \subseteq missed'
        /\ UNCHANGED <<session, proofs, refunding>>
    BY <1>7 DEF Webhook
  <2>4. \A k : RefundEvent(s, k) = e => k = e.refunded
    BY DEF RefundEvent
  <2>5. \A x \in Sessions \ {s}, k \in Nat : RefundEvent(x, k) \in wire => RefundEvent(x, k) \in wire'
    <3>1. \A x \in Sessions \ {s}, k \in Nat : RefundEvent(x, k).of # e.of
      BY <2>1 DEF RefundEvent
    <3> QED
      BY <2>3, <3>1
  <2>6. \A x \in Sessions : session[x].refunded \in Nat
    BY <1>1, PackIs
  <2>7. CASE UNCHANGED reversals /\ (e.refunded = 0 \/ s \in missed' \/ wire' = wire)
    <3>1. Told(s, reversals[s], session[s].refunded, missed', wire')
      <4>1. CASE e.refunded = 0
        <5>1. reversals[s].cents <= session[s].refunded
          BY <1>2
        <5>2. RefundEvent(s, session[s].refunded) = e => reversals[s].cents = session[s].refunded
          BY <2>2, <2>4, <4>1, <5>1
        <5>3. s \in missed \/ reversals[s].cents = session[s].refunded
                \/ RefundEvent(s, session[s].refunded) \in wire
          BY <1>2
        <5> QED
          BY <2>3, <5>1, <5>2, <5>3
      <4>2. CASE s \in missed'
        BY <1>2, <4>2
      <4>3. CASE wire' = wire
        BY <1>2, <2>3, <4>3
      <4> QED
        BY <2>7, <4>1, <4>2, <4>3
    <3>2. \A x \in Sessions \ {s} : Told(x, reversals[x], session[x].refunded, missed', wire')
      BY <1>2, <2>3, <2>5, <2>6
    <3>3. \A x \in Sessions : Told(x, reversals'[x], session'[x].refunded, missed', wire')
      BY <2>3, <2>7, <3>1, <3>2
    <3> QED
      BY <1>2, <2>3, <2>7, <3>3 DEF RefundsSound, Backing
  <2>8. CASE Reverse(s, e.refunded)
    <3>1. /\ \A x \in Payments : reversals'[x].runs = Share(reversals'[x].cents)
          /\ \A x \in Payments \ {s} : reversals'[x] = reversals[x]
          /\ reversals'[s].cents = Larger(reversals[s].cents, e.refunded)
      BY <1>1, <1>2, <2>2, <2>8, ReversedIs
    <3>2. Told(s, reversals'[s], session[s].refunded, missed', wire')
      <4>1. reversals[s].cents <= session[s].refunded
        BY <1>2
      <4>2. /\ reversals'[s].cents <= session[s].refunded
            /\ reversals[s].cents = session[s].refunded => reversals'[s].cents = session[s].refunded
            /\ e.refunded = session[s].refunded => reversals'[s].cents = session[s].refunded
        BY <2>2, <3>1, <4>1 DEF Larger
      <4>3. s \in missed \/ reversals[s].cents = session[s].refunded
              \/ RefundEvent(s, session[s].refunded) \in wire
        BY <1>2
      <4> QED
        BY <2>3, <2>4, <4>2, <4>3
    <3>3. \A x \in Sessions : Told(x, reversals'[x], session'[x].refunded, missed', wire')
      <4>1. \A x \in Sessions \ {s} : Told(x, reversals[x], session[x].refunded, missed', wire')
        BY <1>2, <2>3, <2>5, <2>6
      <4> QED
        BY <1>1, <2>3, <3>1, <3>2, <4>1
    <3>4. \A b \in Buys : reversals'[b] = reversals[b]
      BY <1>1, <3>1
    <3> QED
      BY <1>2, <2>3, <3>1, <3>3, <3>4 DEF RefundsSound, Backing
  <2> QED
    BY <1>7, <2>1, <2>7, <2>8 DEF Webhook
<1>8. ASSUME NEW t \in Refunds, NEW b \in Buys, RecordProof(t, b)
      PROVE  RefundsSound'
  <2>1. /\ proofs' = [proofs EXCEPT ![t] = b] /\ proofs[t] \in {None, b}
        /\ UNCHANGED <<reversals, session, wire, missed>>
        /\ refunding' = refunding \cup {[of |-> b, refunded |-> RefundCents * Cardinality(Backing(b) \cup {t})]}
    BY <1>8 DEF RecordProof
  <2>2. ASSUME NEW x \in Buys
        PROVE  Proved(x) <= Proved(x)' /\ Proved(x) \in Nat /\ Proved(x)' \in Nat
    <3>1. Backing(x) \subseteq Backing(x)' /\ Backing(x)' \subseteq Refunds
      BY <1>1, <2>1 DEF Backing
    <3>2. /\ IsFiniteSet(Backing(x)') /\ Cardinality(Backing(x)) <= Cardinality(Backing(x)')
          /\ Cardinality(Backing(x)) \in Nat /\ Cardinality(Backing(x)') \in Nat
      <4>1. IsFiniteSet(Backing(x)')
        BY <3>1, FS_Subset, HostedAssumption
      <4> QED
        BY <3>1, <4>1, FS_Subset, FS_CardinalityType
    <3> QED
      BY <3>2, PackIs, ProductGrows
  <2>3. Backing(b)' = Backing(b) \cup {t}
    BY <1>1, <2>1 DEF Backing
  <2>4. \A e \in refunding' : e \in refunding \/ (e.of = b /\ e.refunded = Proved(b)')
    BY <2>1, <2>3
  <2>5. \A p \in Buys : reversals[p].cents \in Nat
    BY <1>1, PackIs
  <2>6. \A x \in Buys : reversals'[x].cents <= Proved(x)'
    <3>1. ASSUME NEW x \in Buys
          PROVE  reversals'[x].cents <= Proved(x)'
      <4>1. /\ reversals[x].cents \in Nat /\ reversals[x].cents <= Proved(x)
            /\ UNCHANGED reversals
        BY <1>2, <2>1, <2>5
      <4>2. Proved(x) <= Proved(x)' /\ Proved(x) \in Nat /\ Proved(x)' \in Nat
        BY <2>2
      <4> HIDE DEF Proved
      <4> QED
        BY <4>1, <4>2
    <3> QED
      BY <3>1
  <2>7. \A e \in refunding' : e.refunded <= RefundCents * Cardinality(Backing(e.of)')
    <3>1. ASSUME NEW e \in refunding'
          PROVE  e.refunded <= RefundCents * Cardinality(Backing(e.of)')
      <4>1. CASE e \in refunding
        <5>1. e.of \in Buys /\ e.refunded \in Nat /\ e.refunded <= Proved(e.of)
          BY <1>1, <1>2, <4>1
        <5>2. PICK x \in Buys : x = e.of
          BY <5>1
        <5>3. Proved(x) <= Proved(x)' /\ Proved(x) \in Nat /\ Proved(x)' \in Nat
          BY <2>2
        <5>4. e.refunded <= RefundCents * Cardinality(Backing(x)')
          BY <5>1, <5>2, <5>3
        <5> QED
          BY <5>2, <5>4
      <4>2. CASE e.of = b /\ e.refunded = Proved(b)'
        <5>1. Proved(b)' \in Nat
          BY <2>2
        <5>2. e.refunded <= RefundCents * Cardinality(Backing(b)')
          BY <4>2, <5>1
        <5> QED
          BY <4>2, <5>2
      <4> QED
        BY <2>4, <4>1, <4>2
    <3> QED
      BY <3>1
  <2> QED
    BY <1>2, <2>1, <2>6, <2>7 DEF RefundsSound
<1>9. ASSUME NEW e \in refunding, ApplyProof(e)
      PROVE  RefundsSound'
  <2>1. PICK b \in Buys : b = e.of
    BY <1>1
  <2>2. e.refunded \in Nat /\ e.refunded <= Proved(b) /\ Proved(b) \in Nat
    BY <1>1, <1>2, <2>1, BackingFinite
  <2>3. /\ Reverse(b, e.refunded) /\ refunding' \subseteq refunding
        /\ UNCHANGED <<session, wire, missed, proofs>>
    BY <1>9, <2>1 DEF ApplyProof
  <2>4. /\ \A x \in Payments : reversals'[x].runs = Share(reversals'[x].cents)
        /\ \A x \in Payments \ {b} : reversals'[x] = reversals[x]
        /\ reversals'[b].cents = Larger(reversals[b].cents, Capped(e.refunded))
    BY <1>1, <1>2, <2>2, <2>3, ReversedIs
  <2>5. reversals'[b].cents <= Proved(b)
    <3>1. reversals[b].cents <= Proved(b) /\ Capped(e.refunded) <= Proved(b)
      <4>1. Capped(e.refunded) <= e.refunded /\ Capped(e.refunded) \in Nat
        BY <2>2, PackIs DEF Capped
      <4> HIDE DEF Proved
      <4> QED
        BY <1>2, <2>2, <4>1
    <3> QED
      BY <2>4, <3>1 DEF Larger
  <2>6. \A x \in Buys : reversals'[x].cents <= Proved(x)
    BY <1>1, <1>2, <2>4, <2>5
  <2>7. \A s \in Sessions : reversals'[s] = reversals[s]
    <3>1. Sessions \subseteq Payments /\ b \notin Sessions
      BY <1>01
    <3> QED
      BY <2>4, <3>1, Zenon
  <2> QED
    BY <1>2, <2>3, <2>4, <2>6, <2>7 DEF RefundsSound, Backing
<1>10. CASE \/ UNCHANGED vars \/ NextMonth \/ Crash \/ Start \/ Serve
            \/ \E w \in Workspaces : CreateWorkspace(w)
            \/ \E b \in Buys : Lands(b) \/ TimePasses(b)
            \/ \E r \in Reconcilers : BeginPass(r) \/ Decide(r)
            \/ \E r \in Reconcilers, b \in Buys, answer \in {"used", "unused", "unknown"} : Ask(r, b, answer)
            \/ \E e \in refunding : OperatorStops(e)
  BY <1>3, <1>10 DEF vars, CreateWorkspace, NextMonth, Lands, TimePasses, BeginPass, Decide, Ask,
                     Crash, Start, Serve, OperatorStops
<1>11. CASE \/ \E q \in Requests, b \in Buys, w \in Workspaces : Buy(q, b, w)
            \/ \E q \in Requests, w \in Workspaces, k \in Works : Admit(q, w, k)
            \/ \E q \in Requests, answered \in BOOLEAN : Close(q, answered)
            \/ \E q \in Requests : Settles(q) \/ SettleRefused(q) \/ SettleRaises(q) \/ HookPaid(q)
                                     \/ HookRefused(q) \/ StreamPrepared(q) \/ NeverRead(q)
  BY <1>3, <1>11 DEF Buy, Admit, Close, Settles, SettleRefused, SettleRaises, HookPaid, HookRefused,
                     StreamPrepared, NeverRead
<1> QED
  BY <1>4, <1>5, <1>6, <1>7, <1>8, <1>9, <1>10, <1>11 DEF Next, Answered, NotAnswered, StreamEnded

-----------------------------------------------------------------------------
(***************************************************************************)
(* Together: the invariant, and what it says of every run.                 *)
(***************************************************************************)
IInv == TypesSound /\ RunsSound /\ AllowanceSound /\ ChargesSound /\ RefundsSound

LEMMA InitIInv ==
  ASSUME Init
  PROVE  IInv
<1> USE DEF Init
<1>1. /\ NoRun \in Rows /\ NoRun.state = "none" /\ NoRun.paid = FALSE /\ NoRun.inflight = 0
      /\ Idle \in Doing /\ Idle.at = "idle" /\ NoPass \in Passes
      /\ NoReversal \in [runs : 0 .. PackRuns, cents : 0 .. PackCents]
      /\ 0 \in 0 .. PackCents
  BY PackIs DEF NoRun, Rows, Idle, Doing, NoPass, Passes, NoReversal
<1>2. TypesSound
  BY <1>1, HostedAssumption DEF TypesSound, TypeOK, Known, NotPending, Passes
<1>3. RunsSound
  <2>1. \A id \in RunIds : Open(id) = {} /\ unread[id] = 0 /\ runs[id] = NoRun
    BY <1>1 DEF Open
  <2>2. Cardinality({}) = 0
    BY FS_EmptySet
  <2>3. ASSUME NEW id \in RunIds
        PROVE  runs[id].inflight = Cardinality(Open(id)) + unread[id] /\ runs[id].state = "none"
    <3>1. runs[id].inflight = 0 /\ runs[id].state = "none" /\ unread[id] = 0
      BY <1>1, <2>1
    <3>2. Cardinality(Open(id)) = 0
      BY <2>1, <2>2
    <3> QED
      BY <3>1, <3>2
  <2> QED
    BY <2>1, <2>3 DEF RunsSound, HoldsHaveCalls
<1>4. AllowanceSound
  <2>1. ASSUME NEW w \in Workspaces
        PROVE  /\ Cardinality(Paid(w)) <= PackRuns * Cardinality(Granted(w))
               /\ \A m \in 0 .. MaxMonth : Cardinality(FreeRuns(w, m)) <= Free
    <3>1. Paid(w) = {}
      BY <1>1 DEF Paid
    <3>2. ASSUME NEW m \in 0 .. MaxMonth
          PROVE  FreeRuns(w, m) = {}
      BY <1>1, RunIdIs DEF FreeRuns
    <3>3. Cardinality({}) = 0
      BY FS_EmptySet
    <3>4. PackRuns * Cardinality(Granted(w)) \in Nat
      BY <1>2, CountsFinite DEF TypesSound
    <3>5. 0 <= Free /\ Cardinality(Paid(w)) <= PackRuns * Cardinality(Granted(w))
      BY <3>1, <3>3, <3>4, HostedAssumption
    <3> QED
      BY <3>2, <3>3, <3>5
  <2> QED
    BY <2>1 DEF AllowanceSound
<1>5. ChargesSound
  <2>1. \A p \in Payments : grants[p] = None
    OBVIOUS
  <2> QED
    BY <1>1, <2>1 DEF ChargesSound, ChargesAreSeen, HandlersSound, PassesSound, PassSound, NoPass, Payments
<1>6. RefundsSound
  <2>1. \A p \in Payments : reversals[p].runs = 0 /\ reversals[p].cents = 0
    BY DEF NoReversal
  <2>2. \A b \in Buys : reversals[b].cents <= RefundCents * Cardinality(Backing(b))
    <3>1. \A b \in Buys : b \in Payments /\ RefundCents * Cardinality(Backing(b)) \in Nat
      BY BackingFinite DEF Payments
    <3> QED
      BY <2>1, <3>1
  <2>3. \A s \in Sessions : s \in Payments /\ session[s].refunded = 0
    BY DEF Payments
  <2> QED
    BY <2>1, <2>2, <2>3, ShareIs DEF RefundsSound
<1> QED
  BY <1>2, <1>3, <1>4, <1>5, <1>6 DEF IInv

LEMMA StepIInv ==
  ASSUME IInv, [Next]_vars
  PROVE  IInv'
<1>1. TypesSound' /\ RunsSound' /\ AllowanceSound'
  BY TypesStep, RunsStep, AllowanceStep DEF IInv
<1>2. ChargesSound' /\ RefundsSound'
  BY ChargesStep, RefundsStep DEF IInv
<1> QED
  BY <1>1, <1>2 DEF IInv

LEMMA AlwaysIInv == Spec => []IInv
<1>1. Init => IInv
  BY InitIInv
<1>2. IInv /\ [Next]_vars => IInv'
  BY StepIInv
<1> QED
  BY <1>1, <1>2, PTL DEF Spec

(***************************************************************************)
(* What the operator's report would owe is no less than what the sales     *)
(* limit counts: it takes only the billed runs of what was paid for.       *)
(***************************************************************************)
LEMMA ReportOwesNoLess ==
  ASSUME TypesSound
  PROVE  Owed <= OwedIfShutDown
<1> DEFINE Balance == UNION {{w} \X (1 .. PositivePart(Credits(w))) : w \in Workspaces}
           Report  == UNION {{w} \X (1 .. Unspent(w)) : w \in Workspaces}
<1>1. TypeOK
  BY DEF TypesSound
<1>2. ASSUME NEW w \in Workspaces
      PROVE  /\ PositivePart(Credits(w)) \in Nat /\ Unspent(w) \in Nat
             /\ PositivePart(Credits(w)) <= Unspent(w)
             /\ Unspent(w) <= PackRuns * Cardinality(Payments)
  <2> DEFINE billed == {id \in Paid(w) : runs[id].state = "billed"}
  <2>1. /\ Cardinality(billed) <= Cardinality(Paid(w)) /\ Cardinality(billed) \in Nat
        /\ Cardinality(Paid(w)) \in Nat /\ Reversed(w) \in Nat
        /\ PackRuns * Cardinality(Granted(w)) \in Nat
    <3>1. IsFiniteSet(Paid(w)) /\ billed \subseteq Paid(w)
      BY <1>1, CountsFinite
    <3>2. IsFiniteSet(billed) /\ Cardinality(billed) <= Cardinality(Paid(w)) /\ Cardinality(billed) \in Nat
      BY <3>1, FS_Subset, FS_CardinalityType
    <3> QED
      BY <1>1, <3>2, CountsFinite
  <2>2. /\ PackRuns * Cardinality(Granted(w)) <= PackRuns * Cardinality(Payments)
        /\ PackRuns * Cardinality(Payments) \in Nat
    <3>1. Granted(w) \subseteq Payments
      BY DEF Granted
    <3>2. /\ Cardinality(Granted(w)) \in Nat /\ Cardinality(Payments) \in Nat
          /\ Cardinality(Granted(w)) <= Cardinality(Payments)
      BY <1>1, <3>1, CountsFinite, FS_Subset, FS_CardinalityType, HostedAssumption
    <3> QED
      BY <3>2, PackIs, ProductGrows
  <2>3. /\ Unspent(w) = PositivePart(PackRuns * Cardinality(Granted(w)) - Reversed(w) - Cardinality(billed))
        /\ Credits(w) = PackRuns * Cardinality(Granted(w)) - Reversed(w) - Cardinality(Paid(w))
    BY DEF Unspent, Credits
  <2> DEFINE g == PackRuns * Cardinality(Granted(w))
             b == Cardinality(billed)
             p == Cardinality(Paid(w))
             r == Reversed(w)
             a == PackRuns * Cardinality(Payments)
             u == Unspent(w)
             c == Credits(w)
  <2>4. /\ b <= p /\ b \in Nat /\ p \in Nat /\ r \in Nat /\ g \in Nat /\ g <= a /\ a \in Nat
        /\ u = PositivePart(g - r - b) /\ c = g - r - p
    BY <2>1, <2>2, <2>3
  <2> HIDE DEF g, b, p, r, a, u, c
  <2>5. PositivePart(c) \in Nat /\ u \in Nat /\ PositivePart(c) <= u /\ u <= a
    BY <2>4 DEF PositivePart
  <2> QED
    BY <2>5 DEF a, u, c
<1>3. IsFiniteSet(Report) /\ Balance \subseteq Report
  <2> DEFINE top == PackRuns * Cardinality(Payments)
  <2>1. top \in Nat
    BY HostedAssumption, FS_CardinalityType, PackIs
  <2> HIDE DEF top
  <2>2. IsFiniteSet(Workspaces \X (1 .. top))
    <3>1. IsFiniteSet(1 .. top)
      BY <2>1, FS_Interval
    <3> QED
      BY <3>1, FS_Product, HostedAssumption
  <2>3. \A w \in Workspaces : 1 .. Unspent(w) \subseteq 1 .. top
                              /\ 1 .. PositivePart(Credits(w)) \subseteq 1 .. Unspent(w)
    BY <1>2, <2>1 DEF top
  <2>4. Report \subseteq Workspaces \X (1 .. top)
    BY <2>3
  <2>5. Balance \subseteq Report
    BY <2>3
  <2> QED
    BY <2>2, <2>4, <2>5, FS_Subset
<1>4. Cardinality(Balance) <= Cardinality(Report) /\ Cardinality(Balance) \in Nat /\ Cardinality(Report) \in Nat
  BY <1>3, FS_Subset, FS_CardinalityType
<1>5. PackCents * Cardinality(AwaitingPayment) \in Nat
  <2>1. AwaitingPayment \subseteq Payments
    BY DEF AwaitingPayment, Payments
  <2>2. Cardinality(AwaitingPayment) \in Nat
    BY <2>1, FS_Subset, FS_CardinalityType, HostedAssumption
  <2> QED
    BY <2>2, PackIs
<1>6. /\ Price * Cardinality(Balance) <= Price * Cardinality(Report)
      /\ Price * Cardinality(Balance) \in Nat /\ Price * Cardinality(Report) \in Nat
  BY <1>4, ProductGrows, HostedAssumption
<1>7. /\ Owed = Price * Cardinality(Balance) + PackCents * Cardinality(AwaitingPayment)
      /\ OwedIfShutDown = Price * Cardinality(Report) + PackCents * Cardinality(AwaitingPayment)
  BY DEF Owed, OwedIfShutDown
<1> HIDE DEF Balance, Report
<1> QED
  BY <1>5, <1>6, <1>7

-----------------------------------------------------------------------------
\* What the invariant says of runs.
LEMMA IInvRuns == IInv => RunsAreSound
BY DEF IInv, TypesSound, RunsSound, RunsAreSound

(***************************************************************************)
(* A run holds a slot or a credit only with a call under way, a stream     *)
(* nobody began to read, or once it is billed, whatever happens to its     *)
(* calls and through any restart (hold_run, finish_call,                   *)
(* release_orphaned_holds).                                                *)
(***************************************************************************)
THEOREM RunsStaySound == Spec => []RunsAreSound
BY AlwaysIInv, IInvRuns, PTL

\* What it says of credits.
LEMMA IInvCredits == IInv => CreditsAreSound
<1> SUFFICES ASSUME IInv
             PROVE  CreditsAreSound
  OBVIOUS
<1>1. NobodyOverspends
  BY ReportOwesNoLess DEF IInv, AllowanceSound, FreeRuns, NobodyOverspends
<1>2. RefundsApplied
  <2>1. ASSUME NEW s \in Sessions \ missed, \A e \in wire : e.of # s
        PROVE  /\ reversals[s].cents = session[s].refunded
               /\ reversals[s].runs = Share(session[s].refunded)
    <3>1. RefundEvent(s, session[s].refunded) \notin wire
      BY <2>1 DEF RefundEvent
    <3>2. reversals[s].cents = session[s].refunded /\ s \in Payments
      BY <2>1, <3>1 DEF IInv, RefundsSound, Payments
    <3> QED
      BY <3>2 DEF IInv, RefundsSound
  <2> QED
    BY <2>1 DEF IInv, RefundsSound, RefundsApplied
<1> QED
  BY <1>1, <1>2 DEF CreditsAreSound

(***************************************************************************)
(* Nobody overspends the month's allowance or the credits a payment        *)
(* brought, what the operator's report says is owed is never less than     *)
(* what the sales limit counts, and refunds are applied once whatever the  *)
(* order of Stripe's events (hold_run, apply_refund,                       *)
(* outstanding_liability_cents, report.build).                             *)
(***************************************************************************)
THEOREM CreditsStaySound == Spec => []CreditsAreSound
BY AlwaysIInv, IInvCredits, PTL

\* What it says of charges.
LEMMA IInvCharges == IInv => ChargesAreSeen
BY DEF IInv, ChargesSound

(***************************************************************************)
(* Nobody is charged over x402 without a row that says so, no credit comes *)
(* of an authorization that was never used, and what reconciliation writes *)
(* off was never charged and never will be, whatever crashes between       *)
(* settling and the hook (buy_credits_x402, after_settle,                  *)
(* reconcile_pending).                                                     *)
(***************************************************************************)
THEOREM ChargesStaySeen == Spec => []ChargesAreSeen
BY AlwaysIInv, IInvCharges, PTL

\* A step of a run that is billed, or that becomes a paid one.
LEMMA StepBills ==
  ASSUME IInv, [Next]_vars
  PROVE  \A id \in RunIds :
           /\ runs[id].state = "billed" => /\ runs'[id].state = "billed"
                                           /\ runs'[id].paid = runs[id].paid
           /\ runs'[id].paid /\ ~runs[id].paid => runs'[id].state = "held"
<1>1. /\ TypesSound /\ RunsSound /\ runs \in [RunIds -> Rows]
      /\ \A id \in RunIds : runs[id].paid \in BOOLEAN
  BY DEF IInv, TypesSound, TypeOK, Rows
<1>2. CASE RowsFollow
  BY <1>1, <1>2 DEF RowsFollow, Follows
<1>3. ASSUME NEW x \in RunIds, Admitted(x)
      PROVE  \A id \in RunIds :
           /\ runs[id].state = "billed" => /\ runs'[id].state = "billed"
                                           /\ runs'[id].paid = runs[id].paid
           /\ runs'[id].paid /\ ~runs[id].paid => runs'[id].state = "held"
  <2> DEFINE row == [state |-> "held", paid |-> MonthRuns(x[1]) >= Free, inflight |-> 1]
  <2>1. runs' = [runs EXCEPT ![x] = row] /\ runs[x].state = "none" /\ row.state = "held"
    BY <1>3 DEF Admitted, Known
  <2> HIDE DEF row
  <2>2. \A id \in RunIds : runs'[id] = IF id = x THEN row ELSE runs[id]
    BY <1>1, <2>1
  <2> QED
    BY <2>1, <2>2
<1> QED
  BY <1>1, <1>2, <1>3, RowsOfStep

(***************************************************************************)
(* A billed run stays billed at no further cost, and only an admission     *)
(* makes a run cost a credit (finish_call, release_orphaned_holds).        *)
(***************************************************************************)
THEOREM BilledStaysBilled == Spec => BilledForGood
<1>1. IInv /\ [Next]_vars =>
        [\A id \in RunIds :
           /\ runs[id].state = "billed" => /\ runs'[id].state = "billed"
                                           /\ runs'[id].paid = runs[id].paid
           /\ runs'[id].paid /\ ~runs[id].paid => runs'[id].state = "held"]_vars
  BY StepBills
<1> QED
  BY <1>1, AlwaysIInv, PTL DEF Spec, BilledForGood

-----------------------------------------------------------------------------
(***************************************************************************)
(* The operator's report.  A pack is worth what was not refunded of it, in *)
(* cents and in runs; and a run of it costs no more than its price.        *)
(***************************************************************************)
PacksSound ==
  /\ reversals \in [Payments -> [runs : 0 .. PackRuns, cents : 0 .. PackCents]]
  /\ \A p \in Payments : reversals[p].runs = Share(reversals[p].cents)

KeptCents == [p \in Payments |-> PackCents - reversals[p].cents]

KeptRuns == [p \in Payments |-> PackRuns - reversals[p].runs]

LEMMA ProductShrinks ==
  ASSUME NEW n \in Nat \ {0}, NEW a \in Nat, NEW b \in Nat, n * a <= n * b
  PROVE  a <= b
<1>1. SUFFICES ASSUME b + 1 <= a PROVE FALSE
  OBVIOUS
<1>2. n * (b + 1) <= n * a /\ n * (b + 1) \in Nat
  BY <1>1, ProductGrows
<1>3. n * (b + 1) = n * b + n /\ n * b \in Nat /\ n * a \in Nat
  OBVIOUS
<1> QED
  BY <1>2, <1>3

LEMMA ShareCosts ==
  ASSUME NEW c \in 0 .. PackCents
  PROVE  Share(c) \in 0 .. PackRuns /\ Price * Share(c) <= c
<1>1. c \in Nat /\ Price \in Nat \ {0} /\ PackRuns \in Nat \ {0} /\ PackCents = PackRuns * Price
  BY PackIs, HostedAssumption DEF PackCents
<1>2. Share(c) \in 0 .. PackRuns
  BY <1>1, ShareIs
<1>3. CASE c >= PackCents
  <2>1. Share(c) = PackRuns /\ c = PackRuns * Price
    BY <1>1, <1>3, PackIs DEF Share
  <2>2. Price * PackRuns = PackRuns * Price
    BY <1>1
  <2>3. Price * PackRuns <= c
    BY <1>1, <2>1, <2>2
  <2> QED
    BY <1>2, <2>1, <2>3
<1>4. CASE ~(c >= PackCents)
  <2> DEFINE q == (PackRuns * c) \div PackCents
             b == PackRuns * c
             n == PackCents
  <2>1. Share(c) = q
    BY <1>4 DEF Share
  <2>2. b \in Nat /\ n \in Nat \ {0}
    BY <1>1, PackIs
  <2>3. q \in Nat /\ n * q <= b
    <3>1. q = b \div n
      OBVIOUS
    <3> HIDE DEF q, b, n
    <3> QED
      BY <2>2, <3>1, Z3
  <2> HIDE DEF q
  <2>4. PackRuns * (Price * q) = n * q /\ Price * q \in Nat
    BY <1>1, <2>3
  <2>5. PackRuns * (Price * q) <= PackRuns * c
    BY <2>3, <2>4
  <2>6. Price * q <= c
    <3> HIDE DEF n, b
    <3> QED
      BY <1>1, <2>4, <2>5, ProductShrinks
  <2> QED
    BY <1>2, <2>1, <2>6
<1> QED
  BY <1>3, <1>4

LEMMA PackKeeps ==
  ASSUME PacksSound, NEW p \in Payments
  PROVE  /\ reversals[p].cents \in Nat /\ reversals[p].runs \in Nat
         /\ KeptCents[p] \in Nat /\ KeptCents[p] + reversals[p].cents = PackCents
         /\ KeptRuns[p] \in Nat /\ KeptRuns[p] + reversals[p].runs = PackRuns
         /\ KeptCents[p] <= Price * KeptRuns[p] /\ Price * KeptRuns[p] \in Nat
<1> DEFINE c == reversals[p].cents
           r == reversals[p].runs
<1>1. c \in 0 .. PackCents /\ r = Share(c) /\ r \in 0 .. PackRuns
  BY DEF PacksSound
<1>2. Price * r <= c
  BY <1>1, ShareCosts
<1>3. Price \in Nat \ {0} /\ PackRuns \in Nat \ {0} /\ PackCents = PackRuns * Price /\ PackCents \in Nat
  BY PackIs, HostedAssumption DEF PackCents
<1>4. KeptCents[p] = PackCents - c /\ KeptRuns[p] = PackRuns - r
  BY DEF KeptCents, KeptRuns
<1> HIDE DEF c, r
<1>5. PackRuns - r \in Nat /\ r \in Nat /\ c \in Nat
  BY <1>1, <1>3
<1>6. Price * (PackRuns - r) = PackRuns * Price - Price * r /\ Price * (PackRuns - r) \in Nat /\ Price * r \in Nat
  BY <1>3, <1>5
<1>7. KeptCents[p] <= Price * KeptRuns[p] /\ Price * KeptRuns[p] \in Nat
  BY <1>2, <1>3, <1>4, <1>5, <1>6
<1> QED
  BY <1>1, <1>3, <1>4, <1>5, <1>7 DEF c, r

(***************************************************************************)
(* Of any payments: what was paid less what was refunded is what is kept.  *)
(***************************************************************************)
LEMMA KeptIs ==
  ASSUME PacksSound, NEW S \in SUBSET Payments
  PROVE  /\ IsFiniteSet(S) /\ Cardinality(S) \in Nat
         /\ RefundedOf(S) \in Nat /\ TakenBack(S) \in Nat
         /\ Total(KeptCents, S) \in Nat /\ Total(KeptRuns, S) \in Nat
         /\ PackCents * Cardinality(S) \in Nat /\ PackRuns * Cardinality(S) \in Nat
         /\ PackCents * Cardinality(S) - RefundedOf(S) = Total(KeptCents, S)
         /\ PackRuns * Cardinality(S) - TakenBack(S) = Total(KeptRuns, S)
         /\ Total(KeptCents, S) <= Price * Total(KeptRuns, S)
<1> DEFINE cents == [p \in Payments |-> reversals[p].cents]
           back == [p \in Payments |-> reversals[p].runs]
           pack == [p \in Payments |-> PackCents]
           ofRuns == [p \in Payments |-> PackRuns]
           dear == [p \in Payments |-> Price * KeptRuns[p]]
<1>1. IsFiniteSet(S) /\ Cardinality(S) \in Nat
  BY HostedAssumption, FS_Subset, FS_CardinalityType
<1>2. \A p \in S : /\ cents[p] \in Nat /\ back[p] \in Nat
                   /\ KeptCents[p] \in Nat /\ pack[p] = KeptCents[p] + cents[p]
                   /\ KeptRuns[p] \in Nat /\ ofRuns[p] = KeptRuns[p] + back[p]
                   /\ KeptCents[p] <= dear[p] /\ dear[p] \in Nat /\ dear[p] = Price * KeptRuns[p]
                   /\ pack[p] = PackCents /\ ofRuns[p] = PackRuns
  BY PackKeeps
<1>3. RefundedOf(S) = Total(cents, S) /\ TakenBack(S) = Total(back, S)
  BY DEF RefundedOf, TakenBack
<1> HIDE DEF cents, back, pack, ofRuns, dear
<1>4. /\ Total(cents, S) \in Nat /\ Total(back, S) \in Nat
      /\ Total(KeptCents, S) \in Nat /\ Total(KeptRuns, S) \in Nat
  BY <1>1, <1>2, TotalType
<1>5. Total(pack, S) = Total(KeptCents, S) + Total(cents, S)
  BY <1>1, <1>2, TotalOfSums
<1>6. Total(ofRuns, S) = Total(KeptRuns, S) + Total(back, S)
  BY <1>1, <1>2, TotalOfSums
<1>7. Total(pack, S) = PackCents * Cardinality(S) /\ Total(ofRuns, S) = PackRuns * Cardinality(S)
  BY <1>1, <1>2, PackIs, TotalOfConstant
<1>8. Total(KeptCents, S) <= Total(dear, S)
  BY <1>1, <1>2, TotalMonotone
<1>9. Total(dear, S) = Price * Total(KeptRuns, S)
  BY <1>1, <1>2, HostedAssumption, TotalOfMultiples
<1> QED
  BY <1>1, <1>3, <1>4, <1>5, <1>6, <1>7, <1>8, <1>9

(***************************************************************************)
(* Fractions with a common denominator: what is earned of an amount N[w],  *)
(* C[w] parts of R[w], and the rest at a price that is no less than any    *)
(* part's, add up to the amounts, and what is earned, rounded down, is no  *)
(* more than they are.                                                     *)
(***************************************************************************)
LEMMA PartOfAmount ==
  ASSUME NEW R \in Nat \ {0}, NEW N \in Nat, NEW C \in 0 .. R, NEW k \in Nat, NEW price \in Nat,
         N <= price * R
  PROVE  /\ (C * N) * k \in Nat /\ (R * k) * N \in Nat /\ (R * k) * ((R - C) * price) \in Nat
         /\ (C * N) * k <= (R * k) * N
         /\ (R * k) * N <= (C * N) * k + (R * k) * ((R - C) * price)
<1> DEFINE d == R - C
           n == k * N
<1>1. C \in Nat /\ d \in Nat /\ R = C + d /\ n \in Nat
  OBVIOUS
<1>2. (C * N) * k = C * n
  BY <1>1
<1>3. (R * k) * N = R * n
  BY <1>1
<1> HIDE DEF d
<1>4. R * n = C * n + d * n /\ C * n \in Nat /\ d * n \in Nat
  <2> HIDE DEF n
  <2> QED
    BY <1>1
<1>5. price * R \in Nat /\ k * N <= k * (price * R) /\ k * (price * R) \in Nat
  BY ProductGrows
<1>6. d * n <= d * (k * (price * R)) /\ d * (k * (price * R)) \in Nat
  BY <1>1, <1>5, ProductGrows
<1>7. (R * k) * (d * price) = d * (k * (price * R))
  BY <1>1
<1>8. (R * k) * ((R - C) * price) = (R * k) * (d * price)
  BY DEF d
<1> QED
  BY <1>2, <1>3, <1>4, <1>6, <1>7, <1>8

\* Of a common multiple c of the denominators.
LEMMA PartIs ==
  ASSUME NEW S, IsFiniteSet(S), NEW R, \A a \in S : R[a] \in Nat \ {0}, NEW w \in S
  PROVE  /\ Product(R, S) \in Nat \ {0}
         /\ Product(R, S) \div R[w] \in Nat
         /\ Product(R, S) = R[w] * (Product(R, S) \div R[w])
<1> DEFINE k == Product(R, S \ {w})
           r == R[w]
<1>1. Product(R, S) = r * k /\ k \in Nat /\ r \in Nat \ {0}
  BY ProductWithout
<1> HIDE DEF k, r
<1>2. (r * k) \div r = k
  BY <1>1, Z3
<1>3. Product(R, S) \in Nat \ {0}
  BY ProductType
<1> QED
  BY <1>1, <1>2, <1>3 DEF r

LEMMA EarnedOrOwed ==
  ASSUME NEW S, IsFiniteSet(S), NEW price \in Nat, NEW R, NEW N, NEW C, NEW part, NEW rest,
         \A w \in S : /\ R[w] \in Nat \ {0} /\ N[w] \in Nat /\ C[w] \in 0 .. R[w]
                      /\ N[w] <= price * R[w]
                      /\ part[w] = C[w] * N[w] * (Product(R, S) \div R[w])
                      /\ rest[w] = (R[w] - C[w]) * price
  PROVE  /\ Total(part, S) \div Product(R, S) <= Total(N, S)
         /\ Total(N, S) <= Total(part, S) \div Product(R, S) + Total(rest, S)
<1> DEFINE c == Product(R, S)
           whole == [w \in S |-> c * N[w]]
           owed == [w \in S |-> c * rest[w]]
           most == [w \in S |-> part[w] + owed[w]]
<1>1. \A w \in S : /\ c \in Nat \ {0} /\ c \div R[w] \in Nat /\ c = R[w] * (c \div R[w])
  BY PartIs
<1>2. \A w \in S : rest[w] \in Nat /\ N[w] \in Nat
  <2> TAKE w \in S
  <2>1. R[w] - C[w] \in Nat
    OBVIOUS
  <2>2. (R[w] - C[w]) * price \in Nat
    BY <2>1
  <2> QED
    BY <2>2
<1>3. ASSUME NEW w \in S
      PROVE  /\ part[w] \in Nat /\ whole[w] \in Nat /\ owed[w] \in Nat
             /\ part[w] <= whole[w] /\ whole[w] <= part[w] + owed[w]
  <2> DEFINE k == c \div R[w]
             x == R[w]
             y == N[w]
             z == C[w]
  <2>1. x \in Nat \ {0} /\ y \in Nat /\ z \in 0 .. x /\ y <= price * x /\ k \in Nat /\ c = x * k
    BY <1>1
  <2>2. part[w] = (z * y) * k /\ whole[w] = c * y /\ owed[w] = c * ((x - z) * price)
    OBVIOUS
  <2> HIDE DEF c, whole, owed, k, x, y, z
  <2>3. /\ (z * y) * k \in Nat /\ (x * k) * y \in Nat /\ (x * k) * ((x - z) * price) \in Nat
        /\ (z * y) * k <= (x * k) * y
        /\ (x * k) * y <= (z * y) * k + (x * k) * ((x - z) * price)
    BY <2>1, PartOfAmount
  <2> QED
    BY <2>1, <2>2, <2>3
<1>4. c \in Nat \ {0}
  BY ProductType
<1>5. \A w \in S : whole[w] = c * N[w] /\ owed[w] = c * rest[w] /\ most[w] = part[w] + owed[w]
  OBVIOUS
<1> HIDE DEF whole, owed, most
<1>6. Total(whole, S) = c * Total(N, S) /\ Total(owed, S) = c * Total(rest, S)
  <2> HIDE DEF c
  <2>1. Total(whole, S) = c * Total(N, S)
    BY <1>2, <1>4, <1>5, TotalOfMultiples
  <2>2. Total(owed, S) = c * Total(rest, S)
    BY <1>2, <1>4, <1>5, TotalOfMultiples
  <2> QED
    BY <2>1, <2>2
<1>7. Total(most, S) = Total(part, S) + Total(owed, S)
  BY <1>3, <1>5, TotalOfSums
<1>8. Total(part, S) <= Total(whole, S)
  BY <1>3, TotalMonotone
<1>9. Total(whole, S) <= Total(most, S)
  <2>1. \A w \in S : whole[w] \in Nat /\ most[w] \in Nat /\ whole[w] <= most[w]
    BY <1>3, <1>5
  <2> QED
    BY <2>1, TotalMonotone
<1>10. /\ Total(part, S) \in Nat /\ Total(N, S) \in Nat /\ Total(rest, S) \in Nat
  BY <1>2, <1>3, TotalType
<1> DEFINE p == Total(part, S)
           n == Total(N, S)
           d == Total(rest, S)
           q == p \div c
<1>11. p \in Nat /\ n \in Nat /\ d \in Nat /\ p <= c * n /\ c * n <= p + c * d
  BY <1>6, <1>7, <1>8, <1>9, <1>10
<1> HIDE DEF p, n, d, c
<1>12. q \in Nat /\ c * q <= p /\ p < c * (q + 1)
  BY <1>4, <1>11, Z3
<1> HIDE DEF q
<1>13. c * q <= c * n
  BY <1>4, <1>11, <1>12
<1>14. q <= n
  BY <1>4, <1>11, <1>12, <1>13, ProductShrinks
<1>15. c * n <= c * (q + 1 + d)
  <2>1. c * (q + 1 + d) = c * (q + 1) + c * d /\ c * d \in Nat /\ c * (q + 1) \in Nat /\ c * n \in Nat
    BY <1>4, <1>11, <1>12
  <2> QED
    BY <1>11, <1>12, <2>1
<1>16. n <= q + d
  <2>1. SUFFICES ASSUME q + d + 1 <= n PROVE FALSE
    BY <1>11, <1>12
  <2>2. c * (q + 1 + d) <= c * n
    <3>1. q + 1 + d <= n /\ q + 1 + d \in Nat
      BY <1>11, <1>12, <2>1
    <3> QED
      BY <1>4, <1>11, <3>1, ProductGrows
  <2>3. c * (q + 1 + d) = c * (q + 1) + c * d /\ c * d \in Nat /\ c * (q + 1) \in Nat /\ c * n \in Nat
    BY <1>4, <1>11, <1>12
  <2> QED
    BY <1>11, <1>12, <2>2, <2>3
<1> QED
  BY <1>14, <1>16 DEF q, p, n, d, c

(***************************************************************************)
(* By workspace: what its payments keep, in runs and in cents, and what it *)
(* used of them.                                                           *)
(***************************************************************************)
LEMMA AnsweredIs ==
  ASSUME NEW w
  PROVE  /\ IsFiniteSet(PaidAnswered(w)) /\ Cardinality(PaidAnswered(w)) \in Nat
         /\ PaidAnswered(w) = {id \in Paid(w) : runs[id].state = "billed"}
<1>1. PaidAnswered(w) \subseteq RunIds
  BY DEF PaidAnswered, AnsweredRuns
<1>2. PaidAnswered(w) = {id \in Paid(w) : runs[id].state = "billed"}
  BY DEF PaidAnswered, AnsweredRuns, Paid
<1> QED
  BY <1>1, <1>2, RunIdsFinite, FS_Subset, FS_CardinalityType

LEMMA NetIs ==
  ASSUME PacksSound, NEW w
  PROVE  /\ NetRuns(w) \in Nat /\ NetRuns(w) = Total(KeptRuns, GrantsOf(w))
         /\ NetCents(w) \in Nat /\ NetCents(w) = Total(KeptCents, GrantsOf(w))
         /\ NetCents(w) <= Price * NetRuns(w)
         /\ Consumed(w) \in 0 .. NetRuns(w)
<1>1. GrantsOf(w) \in SUBSET Payments
  BY DEF GrantsOf, ExternalGrants, Made
<1>2. /\ NetRuns(w) = Total(KeptRuns, GrantsOf(w)) /\ NetCents(w) = Total(KeptCents, GrantsOf(w))
      /\ Total(KeptRuns, GrantsOf(w)) \in Nat /\ Total(KeptCents, GrantsOf(w)) \in Nat
      /\ Total(KeptCents, GrantsOf(w)) <= Price * Total(KeptRuns, GrantsOf(w))
  BY <1>1, KeptIs DEF NetRuns, NetCents
<1>3. Consumed(w) \in 0 .. NetRuns(w)
  <2> DEFINE a == IF w \in External THEN Cardinality(PaidAnswered(w)) ELSE 0
  <2>1. a \in Nat
    BY AnsweredIs
  <2>2. Consumed(w) = IF a < NetRuns(w) THEN a ELSE NetRuns(w)
    BY DEF Consumed
  <2> HIDE DEF a
  <2> QED
    BY <1>2, <2>1, <2>2
<1> QED
  BY <1>2, <1>3

\* Who has no runs left of what he bought was paid back all of it.
LEMMA CashByCustomer ==
  ASSUME TypeOK, PacksSound
  PROVE  NetCash = Total([w \in Customers |-> NetCents(w)], Customers)
<1> DEFINE S == ExternalGrants
           each == [w \in Customers |-> NetCents(w)]
           all == [w \in Workspaces |-> NetCents(w)]
<1>1. S \in SUBSET Payments
  BY DEF ExternalGrants, Made
<1>2. NetCash = Total(KeptCents, S) /\ IsFiniteSet(S)
  BY <1>1, KeptIs DEF NetCash, Gross
<1>3. \A p \in S : grants[p] \in Workspaces /\ KeptCents[p] \in Nat
  <2> TAKE p \in S
  <2>1. p \in Payments /\ grants[p] # None
    BY DEF ExternalGrants, Made
  <2> QED
    BY <2>1, PackKeeps DEF TypeOK
<1>4. \A w \in Workspaces : all[w] = Total(KeptCents, Group(grants, S, w))
  <2> TAKE w \in Workspaces
  <2>1. Group(grants, S, w) = GrantsOf(w)
    BY DEF Group, GrantsOf
  <2> QED
    BY <2>1, NetIs
<1>5. IsFiniteSet(Workspaces)
  BY HostedAssumption
<1> HIDE DEF S, all
<1>6. Total(all, Workspaces) = Total(KeptCents, S)
  BY <1>2, <1>3, <1>4, <1>5, TotalByGroups
<1>7. Total(each, Customers) = Total(all, Workspaces)
  <2>1. Customers \subseteq Workspaces
    BY DEF Customers
  <2>2. \A w \in Customers : all[w] = each[w]
    BY <2>1 DEF all
  <2>3. ASSUME NEW w \in Workspaces \ Customers
        PROVE  all[w] = 0
    <3>1. NetRuns(w) = 0 /\ NetCents(w) \in Nat /\ NetCents(w) <= Price * NetRuns(w)
      BY NetIs DEF Customers
    <3>2. Price * 0 = 0
      BY HostedAssumption
    <3> QED
      BY <3>1, <3>2 DEF all
  <2> HIDE DEF each
  <2> QED
    BY <2>1, <2>2, <2>3, TotalOfPart
<1> QED
  BY <1>2, <1>6, <1>7

LEMMA CustomersFinite ==
  /\ IsFiniteSet(Customers) /\ Customers \subseteq Workspaces
  /\ \A w \in Customers : NetRuns(w) > 0
BY HostedAssumption, FS_Subset DEF Customers

LEMMA EarnedAndOwed ==
  ASSUME TypeOK, PacksSound
  PROVE  Recognized <= NetCash /\ NetCash <= Recognized + Deferred
<1> DEFINE R == [w \in Customers |-> NetRuns(w)]
           N == [w \in Customers |-> NetCents(w)]
           C == [w \in Customers |-> Consumed(w)]
           part == [w \in Customers |-> Consumed(w) * NetCents(w) * (Product(R, Customers) \div NetRuns(w))]
           rest == [w \in Customers |-> (NetRuns(w) - Consumed(w)) * Price]
<1>1. /\ Recognized = Total(part, Customers) \div Product(R, Customers)
      /\ Deferred = Total(rest, Customers)
  BY DEF Recognized, Deferred
<1>2. NetCash = Total(N, Customers)
  BY CashByCustomer
<1>3. ASSUME NEW w \in Customers
      PROVE  /\ R[w] \in Nat \ {0} /\ N[w] \in Nat /\ C[w] \in 0 .. R[w]
             /\ N[w] <= Price * R[w]
             /\ part[w] = C[w] * N[w] * (Product(R, Customers) \div R[w])
             /\ rest[w] = (R[w] - C[w]) * Price
  <2>1. R[w] = NetRuns(w) /\ N[w] = NetCents(w) /\ C[w] = Consumed(w)
    OBVIOUS
  <2>2. /\ part[w] = Consumed(w) * NetCents(w) * (Product(R, Customers) \div NetRuns(w))
        /\ rest[w] = (NetRuns(w) - Consumed(w)) * Price
    OBVIOUS
  <2> HIDE DEF R, N, C, part, rest
  <2>3. NetRuns(w) > 0
    BY CustomersFinite
  <2> QED
    BY <2>1, <2>2, <2>3, NetIs
<1> HIDE DEF R, N, C, part, rest
<1>4. Price \in Nat
  BY HostedAssumption
<1>5. IsFiniteSet(Customers)
  BY CustomersFinite
<1> QED
  BY <1>1, <1>2, <1>3, <1>4, <1>5, EarnedOrOwed

(***************************************************************************)
(* Every refund in USDC that was applied is backed by transactions.        *)
(***************************************************************************)
LEMMA RefundsAreProven ==
  ASSUME PacksSound, \A b \in Buys : reversals[b].cents <= RefundCents * Cardinality(Backing(b))
  PROVE  WithoutProof = 0
<1> DEFINE S == ExternalGrants \cap Buys
           T == {t \in Refunds : proofs[t] \in S}
           ones == [t \in Refunds |-> 1]
           backing == [b \in Buys |-> Cardinality(Backing(b))]
           cents == [p \in Payments |-> reversals[p].cents]
           proven == [b \in Buys |-> RefundCents * backing[b]]
<1>1. S \in SUBSET Payments /\ S \subseteq Buys /\ IsFiniteSet(S)
  <2>1. S \subseteq Buys /\ S \subseteq Payments
    BY DEF Payments
  <2> QED
    BY <2>1, FS_Subset, HostedAssumption
<1>2. \A b \in S : Backing(b) = Group(proofs, T, b)
  BY DEF Backing, Group
<1>3. IsFiniteSet(T) /\ T \subseteq Refunds
  BY FS_Subset, HostedAssumption
<1>4. \A b \in S : backing[b] = Total(ones, Group(proofs, T, b)) /\ backing[b] \in Nat
  <2> TAKE b \in S
  <2>1. backing[b] = Cardinality(Backing(b)) /\ backing[b] \in Nat /\ IsFiniteSet(Backing(b))
    BY <1>1, BackingFinite
  <2>2. \A t \in Backing(b) : ones[t] = 1
    BY DEF Backing
  <2> HIDE DEF ones, backing, S, T
  <2>3. Total(ones, Backing(b)) = 1 * Cardinality(Backing(b))
    BY <2>1, <2>2, TotalOfConstant
  <2> QED
    BY <1>2, <2>1, <2>3
<1>5. \A t \in T : ones[t] = 1 /\ ones[t] \in Nat /\ proofs[t] \in S
  OBVIOUS
<1>6. \A b \in S : /\ cents[b] = reversals[b].cents /\ cents[b] \in Nat
                   /\ proven[b] = RefundCents * backing[b] /\ proven[b] \in Nat
                   /\ cents[b] <= proven[b]
  <2> TAKE b \in S
  <2>1. b \in Buys /\ b \in Payments
    BY <1>1
  <2>2. cents[b] = reversals[b].cents /\ proven[b] = RefundCents * Cardinality(Backing(b))
    BY <2>1
  <2>3. proven[b] = RefundCents * backing[b]
    BY <2>1
  <2> HIDE DEF cents, proven, backing, S
  <2>4. cents[b] \in Nat /\ proven[b] \in Nat
    BY <2>1, <2>2, PackKeeps, BackingFinite
  <2> QED
    BY <2>1, <2>2, <2>3, <2>4
<1> HIDE DEF S, T, ones, backing, cents, proven
<1>7. Total(backing, S) = Total(ones, T)
  BY <1>1, <1>3, <1>4, <1>5, TotalByGroups
<1>8. Total(ones, T) = Cardinality(T) /\ Cardinality(T) \in Nat
  <2>1. Total(ones, T) = 1 * Cardinality(T)
    BY <1>3, <1>5, TotalOfConstant
  <2> QED
    BY <1>3, <2>1, FS_CardinalityType
<1>9. Total(proven, S) = RefundCents * Total(backing, S)
  BY <1>1, <1>4, <1>6, PackIs, TotalOfMultiples
<1>10. Total(cents, S) <= Total(proven, S)
  BY <1>1, <1>6, TotalMonotone
<1>11. RefundedOf(S) = Total(cents, S) /\ RefundedOf(S) \in Nat
  BY <1>1, KeptIs DEF RefundedOf, cents
<1>12. Cardinality(T) <= Cardinality({t \in Refunds : proofs[t] \in ExternalGrants})
       /\ Cardinality({t \in Refunds : proofs[t] \in ExternalGrants}) \in Nat
  <2> DEFINE V == {t \in Refunds : proofs[t] \in ExternalGrants}
  <2>1. IsFiniteSet(V) /\ T \subseteq V
    BY FS_Subset, HostedAssumption DEF T, S
  <2> HIDE DEF V
  <2>2. Cardinality(T) <= Cardinality(V) /\ Cardinality(V) \in Nat
    BY <2>1, FS_Subset, FS_CardinalityType
  <2> QED
    BY <2>2 DEF V
<1>13. RefundCents * Cardinality(T) <= VerifiedRefunds /\ VerifiedRefunds \in Nat
  BY <1>8, <1>12, PackIs, ProductGrows DEF VerifiedRefunds
<1>14. RefundedOf(S) <= VerifiedRefunds
  <2>1. RefundCents * Cardinality(T) \in Nat
    BY <1>8, PackIs
  <2> QED
    BY <1>7, <1>8, <1>9, <1>10, <1>11, <1>13, <2>1
<1> QED
  BY <1>11, <1>13, <1>14 DEF WithoutProof, PositivePart, S

(***************************************************************************)
(* The ledger's revenue is the report's, and that of the payments the      *)
(* report leaves out.                                                      *)
(***************************************************************************)
LEMMA SplitKept ==
  ASSUME PacksSound, NEW S \in SUBSET Payments, NEW T \in SUBSET Payments, S \cap T = {}
  PROVE  Total(KeptCents, S \cup T) = Total(KeptCents, S) + Total(KeptCents, T)
<1>1. IsFiniteSet(S) /\ IsFiniteSet(T)
  BY KeptIs
<1>2. \A p \in S \cup T : KeptCents[p] \in Nat
  BY PackKeeps
<1> QED
  BY <1>1, <1>2, TotalDisjoint

LEMMA RevenueSplits ==
  ASSUME PacksSound
  PROVE  Revenue(Buys) + Revenue(Sessions)
           = NetCash + PackCents * Cardinality(Made \ ExternalGrants) - RefundedOf(Made \ ExternalGrants)
<1> DEFINE B == Made \cap Buys
           S == Made \cap Sessions
           E == ExternalGrants
           I == Made \ ExternalGrants
<1>1. /\ B \in SUBSET Payments /\ S \in SUBSET Payments /\ B \cap S = {} /\ B \cup S = Made
      /\ E \in SUBSET Payments /\ I \in SUBSET Payments /\ E \cap I = {} /\ E \cup I = Made
  BY HostedAssumption DEF Made, Payments, ExternalGrants
<1>2. Total(KeptCents, B) + Total(KeptCents, S) = Total(KeptCents, E) + Total(KeptCents, I)
  <2> HIDE DEF B, S, E, I
  <2>1. Total(KeptCents, B \cup S) = Total(KeptCents, B) + Total(KeptCents, S)
    BY <1>1, SplitKept
  <2>2. Total(KeptCents, E \cup I) = Total(KeptCents, E) + Total(KeptCents, I)
    BY <1>1, SplitKept
  <2> QED
    BY <1>1, <2>1, <2>2
<1>3. Revenue(Buys) = Total(KeptCents, B) /\ Revenue(Sessions) = Total(KeptCents, S)
  BY <1>1, KeptIs DEF Revenue
<1>4. NetCash = Total(KeptCents, E)
  BY <1>1, KeptIs DEF NetCash, Gross
<1> HIDE DEF B, S, E
<1>5. /\ PackCents * Cardinality(I) - RefundedOf(I) = Total(KeptCents, I)
      /\ PackCents * Cardinality(I) \in Nat /\ RefundedOf(I) \in Nat /\ Total(KeptCents, E) \in Nat
  <2> HIDE DEF I
  <2> QED
    BY <1>1, KeptIs
<1> QED
  BY <1>2, <1>3, <1>4, <1>5

(***************************************************************************)
(* What a workspace was granted, with or without the operator's payments.  *)
(***************************************************************************)
LEMMA GrantedIs ==
  ASSUME TypeOK, PacksSound, NEW w \in Workspaces
  PROVE  /\ PackRuns * Cardinality(Granted(w)) - Reversed(w) = Total(KeptRuns, Granted(w))
         /\ Total(KeptRuns, Granted(w)) \in Nat
         /\ NetRuns(w) <= Total(KeptRuns, Granted(w))
<1> DEFINE back == [p \in Payments |-> reversals[p].runs]
<1>1. Granted(w) \in SUBSET Payments
  BY DEF Granted
<1>2. UNION {{p} \X (1 .. reversals[p].runs) : p \in Granted(w)} = Coins(back, Granted(w))
  BY <1>1 DEF Coins
<1>3. Reversed(w) = TakenBack(Granted(w))
  BY <1>2 DEF Reversed, TakenBack, Total
<1>4. GrantsOf(w) \subseteq Granted(w)
  BY DEF GrantsOf, Granted, ExternalGrants, Made
<1>5. NetRuns(w) <= Total(KeptRuns, Granted(w))
  <2>1. \A p \in Granted(w) : KeptRuns[p] \in Nat
    BY <1>1, PackKeeps
  <2>2. IsFiniteSet(Granted(w))
    BY <1>1, KeptIs
  <2>3. Total(KeptRuns, GrantsOf(w)) <= Total(KeptRuns, Granted(w))
    BY <1>4, <2>1, <2>2, TotalMonotone
  <2> QED
    BY <2>3, NetIs
<1> QED
  BY <1>1, <1>3, <1>5, KeptIs

LEMMA CustomerIsExternal ==
  ASSUME TypeOK, PacksSound, NEW w \in Customers
  PROVE  w \in External
<1>1. NetRuns(w) > 0 /\ w \in Workspaces
  BY DEF Customers
<1>2. GrantsOf(w) # {}
  <2>1. SUFFICES ASSUME GrantsOf(w) = {} PROVE FALSE
    OBVIOUS
  <2>2. NetRuns(w) = Total(KeptRuns, {})
    BY <2>1, NetIs
  <2> QED
    BY <1>1, <2>2, TotalEmpty
<1>3. PICK p \in GrantsOf(w) : p \in Payments /\ grants[p] = w /\ w # None /\ w \notin Internal
  BY <1>2 DEF GrantsOf, ExternalGrants, Made
<1> QED
  BY <1>3 DEF External, TypeOK

LEMMA BilledIs ==
  ASSUME TypeOK, NEW w \in Workspaces
  PROVE  Cardinality(PaidAnswered(w)) <= Cardinality(Paid(w)) /\ Cardinality(Paid(w)) \in Nat
<1>1. PaidAnswered(w) \subseteq Paid(w) /\ IsFiniteSet(Paid(w)) /\ Cardinality(Paid(w)) \in Nat
  BY AnsweredIs, CountsFinite
<1> QED
  BY <1>1, FS_Subset

LEMMA UnspentIs ==
  ASSUME TypeOK, PacksSound, NEW w \in Workspaces
  PROVE  /\ Unspent(w) \in Nat
         /\ w \in Customers => NetRuns(w) - Consumed(w) <= Unspent(w)
<1> DEFINE net == Total(KeptRuns, Granted(w))
           taken == Cardinality(PaidAnswered(w))
           mine == NetRuns(w)
<1>1. net \in Nat /\ taken \in Nat /\ mine \in Nat /\ mine <= net
  BY GrantedIs, AnsweredIs, NetIs
<1>2. Unspent(w) = PositivePart(net - taken)
  BY GrantedIs, AnsweredIs DEF Unspent
<1>3. w \in Customers => Consumed(w) = IF taken < mine THEN taken ELSE mine
  BY CustomerIsExternal DEF Consumed
<1> HIDE DEF net, taken
<1>4. Unspent(w) \in Nat
  BY <1>1, <1>2 DEF PositivePart
<1>5. ASSUME w \in Customers
      PROVE  NetRuns(w) - Consumed(w) <= Unspent(w)
  <2>1. Consumed(w) = IF taken < mine THEN taken ELSE mine
    BY <1>3, <1>5
  <2> QED
    BY <1>1, <1>2, <2>1 DEF PositivePart
<1> QED
  BY <1>4, <1>5

LEMMA ReportOwesNoMore ==
  ASSUME TypeOK, PacksSound
  PROVE  OwedToExternal <= OwedIfShutDown
<1> DEFINE rest == [w \in Customers |-> (NetRuns(w) - Consumed(w)) * Price]
           unspent == [w \in Workspaces |-> Unspent(w)]
           worth == [w \in Workspaces |-> Price * Unspent(w)]
<1>1. \A w \in Workspaces : /\ unspent[w] \in Nat /\ worth[w] = Price * unspent[w] /\ worth[w] \in Nat
  <2> TAKE w \in Workspaces
  <2>1. Unspent(w) \in Nat /\ Price \in Nat
    BY UnspentIs, HostedAssumption
  <2> QED
    BY <2>1
<1>2. \A w \in Customers : w \in Workspaces /\ rest[w] \in Nat /\ rest[w] <= worth[w]
  <2> TAKE w \in Customers
  <2> DEFINE d == NetRuns(w) - Consumed(w)
             u == Unspent(w)
  <2>1. w \in Workspaces /\ Price \in Nat /\ d \in Nat /\ u \in Nat /\ d <= u
    <3>1. w \in Workspaces
      BY CustomersFinite
    <3>2. Unspent(w) \in Nat /\ NetRuns(w) - Consumed(w) <= Unspent(w)
      BY <3>1, UnspentIs
    <3>3. NetRuns(w) \in Nat /\ Consumed(w) \in 0 .. NetRuns(w)
      BY NetIs
    <3> QED
      BY <3>1, <3>2, <3>3, HostedAssumption
  <2>2. rest[w] = d * Price /\ worth[w] = Price * u
    BY <2>1
  <2> HIDE DEF d, u, rest, worth
  <2>3. Price * d <= Price * u /\ Price * d \in Nat /\ d * Price = Price * d
    BY <2>1, ProductGrows
  <2> QED
    BY <2>1, <2>2, <2>3
<1>3. Deferred = Total(rest, Customers)
  BY DEF Deferred
<1>4. UNION {{w} \X (1 .. Unspent(w)) : w \in Workspaces} = Coins(unspent, Workspaces)
  BY DEF Coins
<1>5. IsFiniteSet(Workspaces) /\ Price \in Nat
  BY HostedAssumption
<1> HIDE DEF rest, unspent, worth
<1>6. Total(rest, Customers) <= Total(worth, Workspaces)
  BY <1>1, <1>2, <1>5, TotalMonotone
<1>7. Total(worth, Workspaces) = Price * Total(unspent, Workspaces)
  BY <1>1, <1>5, TotalOfMultiples
<1>8. /\ PackCents * Cardinality(ExternalPending) <= PackCents * Cardinality(AwaitingPayment)
      /\ PackCents * Cardinality(ExternalPending) \in Nat /\ PackCents * Cardinality(AwaitingPayment) \in Nat
  <2>1. AwaitingPayment \subseteq Payments /\ ExternalPending \subseteq AwaitingPayment
    BY DEF AwaitingPayment, Payments, ExternalPending
  <2>2. IsFiniteSet(AwaitingPayment) /\ IsFiniteSet(ExternalPending)
    BY <2>1, FS_Subset, HostedAssumption
  <2>3. /\ Cardinality(ExternalPending) <= Cardinality(AwaitingPayment)
        /\ Cardinality(ExternalPending) \in Nat /\ Cardinality(AwaitingPayment) \in Nat
    BY <2>1, <2>2, FS_Subset, FS_CardinalityType
  <2> QED
    BY <2>3, PackIs, ProductGrows
<1>9. OwedIfShutDown = Price * Total(unspent, Workspaces) + PackCents * Cardinality(AwaitingPayment)
  BY <1>4 DEF OwedIfShutDown, Total
<1>10. Total(rest, Customers) \in Nat /\ Price * Total(unspent, Workspaces) \in Nat
  <2>1. IsFiniteSet(Customers)
    BY CustomersFinite
  <2>2. Total(rest, Customers) \in Nat
    BY <1>2, <2>1, TotalType
  <2>3. Total(unspent, Workspaces) \in Nat
    BY <1>1, <1>5, TotalType
  <2> QED
    BY <1>5, <2>2, <2>3
<1> QED
  BY <1>3, <1>6, <1>7, <1>8, <1>9, <1>10 DEF OwedToExternal

(***************************************************************************)
(* A workspace all of whose payments are in the report is owed there no    *)
(* less than the credits its own statement shows.                          *)
(***************************************************************************)
LEMMA StatementAgrees ==
  ASSUME TypeOK, PacksSound, NEW w \in External, Granted(w) \cap InternalPayments = {}
  PROVE  PositivePart(StatementOf(w).credits) <= NetRuns(w) - Consumed(w)
<1>1. w \in Workspaces /\ w \notin Internal /\ w # None
  BY HostedAssumption DEF External, TypeOK
<1>2. GrantsOf(w) = Granted(w)
  BY <1>1 DEF GrantsOf, Granted, ExternalGrants, Made
<1> DEFINE net == NetRuns(w)
           taken == Cardinality(PaidAnswered(w))
           paid == Cardinality(Paid(w))
<1>3. net \in Nat /\ taken \in Nat /\ paid \in Nat /\ taken <= paid
  BY <1>1, NetIs, AnsweredIs, BilledIs
<1>4. StatementOf(w).credits = net - paid
  <2>1. PackRuns * Cardinality(Granted(w)) - Reversed(w) = net
    BY <1>1, <1>2, GrantedIs, NetIs
  <2>2. StatementOf(w).credits = Credits(w)
    BY DEF StatementOf
  <2> HIDE DEF net
  <2> QED
    BY <2>1, <2>2 DEF Credits
<1>5. Consumed(w) = IF taken < net THEN taken ELSE net
  BY DEF Consumed
<1> HIDE DEF net, taken, paid
<1>6. PositivePart(net - paid) <= net - Consumed(w)
  BY <1>3, <1>5 DEF PositivePart
<1> QED
  BY <1>4, <1>6 DEF net

LEMMA IInvReport == IInv => ReportAddsUp
<1> SUFFICES ASSUME IInv PROVE ReportAddsUp
  OBVIOUS
<1>1. TypeOK
  BY DEF IInv, TypesSound
<1>2. PacksSound
  BY <1>1 DEF IInv, RefundsSound, PacksSound, TypeOK
<1>3. Recognized <= NetCash /\ NetCash <= Recognized + Deferred
  BY <1>1, <1>2, EarnedAndOwed
<1>4. WithoutProof = 0
  BY <1>2, RefundsAreProven DEF IInv, RefundsSound
<1>5. Revenue(Buys) + Revenue(Sessions)
        = NetCash + PackCents * Cardinality(Made \ ExternalGrants) - RefundedOf(Made \ ExternalGrants)
  BY <1>2, RevenueSplits
<1>6. OwedToExternal <= OwedIfShutDown
  BY <1>1, <1>2, ReportOwesNoMore
<1>7. \A w \in External :
        Granted(w) \cap InternalPayments = {} /\ NetRuns(w) > 0 =>
          PositivePart(StatementOf(w).credits) <= NetRuns(w) - Consumed(w)
  BY <1>1, <1>2, StatementAgrees
<1> QED
  BY <1>3, <1>4, <1>5, <1>6, <1>7 DEF ReportAddsUp

(***************************************************************************)
(* The operator's report adds up, for any workspaces, packs and prices:    *)
(* every cent that came in and was not paid back is earned or owed, no     *)
(* more is earned than came in, no refund in USDC is without its proof,    *)
(* and what leaving the operator's own traffic out hides is its own        *)
(* (report.build, revenue, statement).                                     *)
(***************************************************************************)
THEOREM ReportAlwaysAddsUp == Spec => []ReportAddsUp
BY AlwaysIInv, IInvReport, PTL
=============================================================================
