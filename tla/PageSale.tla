------------------------------ MODULE PageSale ------------------------------
(***************************************************************************)
(* The sale of pages (hosted/web_read): a page is fetched before its       *)
(* payment is settled, and a retry within the recovery window gets the     *)
(* page that was paid for.  Two rails: x402, whose middleware verifies     *)
(* before the handler and settles after it, and MPP, where the handler     *)
(* does both.  An MPP payment of kind "hash" was broadcast by its payer.   *)
(*                                                                         *)
(* The event loop interleaves requests at their awaits.  A payment is one  *)
(* signed authorization; Requested is the digest of the URL and request    *)
(* id.  Invalid requests and payments, and the requests without one, are   *)
(* answered without a trace but in the counts of events.                   *)
(***************************************************************************)
EXTENDS Integers, FiniteSets

CONSTANTS
  Payments,        \* signed authorizations
  PayerOf,         \* of each, its wallet
  RailOf,          \* "x402", "x402 wallet" (not an EOA's), "transaction", "hash"
  Requested,       \* the digests that requests may have
  Readers,         \* the requests that may be handled at once
  RecoveryWindow,  \* recovery_s
  Ages, MaxPageCrashes \* bounds

ASSUME PageAssumption ==
  /\ IsFiniteSet(Payments) /\ IsFiniteSet(Requested) /\ IsFiniteSet(Readers)
  /\ RailOf \in [Payments -> {"x402", "x402 wallet", "transaction", "hash"}]
  /\ RecoveryWindow \in Nat /\ Ages \in Nat /\ MaxPageCrashes \in Nat

VARIABLES
  reads,      \* the ledger's row of each payment
  reading,    \* what each request is in the middle of
  inFlight,   \* the keys of which a request holds the lock
  onChain,    \* the payments that moved their money
  claimed,    \* ReplayStore: the hashes that were used
  owed,       \* the hashes for which a refund was recorded
  pages,      \* how often each payment was answered with which page
  again,      \* payments charged for what their payer could still recover
  age, pageCrashes

pageVars == <<reads, reading, inFlight, onChain, claimed, owed, pages, again, age, pageCrashes>>

-----------------------------------------------------------------------------
NoRead == [for |-> "", born |-> 0, kept |-> FALSE, settled |-> FALSE]

NotReading == [at |-> "free", by |-> "", for |-> "", locks |-> FALSE]

IsX402(p) == RailOf[p] \in {"x402", "x402 wallet"}

KeyOf(p, k) == <<PayerOf[p], k>>

KeysOfPayers == {PayerOf[p] : p \in Payments} \X Requested

PageInit ==
  /\ reads = [p \in Payments |-> NoRead]
  /\ reading = [r \in Readers |-> NotReading] /\ inFlight = {}
  /\ onChain = {p \in Payments : RailOf[p] = "hash"}
  /\ claimed = {} /\ owed = {} /\ pages = [p \in Payments |-> [k \in Requested |-> 0]] /\ again = {}
  /\ age = 0 /\ pageCrashes = 0

\* expire: a page older than the recovery window is deleted, its row stays.
Unexpired(rows) ==
  [p \in Payments |-> [rows[p] EXCEPT !.kept = @ /\ rows[p].born >= age - RecoveryWindow]]

\* recoverable: a page of a settled read of the same request by the same payer.
RecoverableIn(rows, payer, k) ==
  \E p \in Payments : /\ rows[p].settled /\ rows[p].kept
                      /\ rows[p].for = k /\ PayerOf[p] = payer

\* A page k that was bought and that the payer of p could recover.
KeptFor(p, k) ==
  /\ RailOf[p] # "x402 wallet"
  /\ \E q \in Payments : /\ PayerOf[q] = PayerOf[p] /\ pages[q][k] > 0
                         /\ reads[q].for = k /\ reads[q].settled
                         /\ Unexpired(reads)[q].kept

MayRecover(p) == RailOf[p] \in {"x402", "transaction"} /\ RecoveryWindow > 0

\* _recover and exclusive: only a payer who can be told takes the lock.
TakesLock(p) == RailOf[p] # "x402 wallet" /\ (IsX402(p) => RecoveryWindow > 0)

(***************************************************************************)
(* A request arrives; MPP's credential is validated first, which awaits.   *)
(***************************************************************************)
Valid(p) == IF RailOf[p] = "hash" THEN p \notin claimed ELSE p \notin onChain

Arrive(r, p, k) ==
  /\ reading[r] = NotReading
  /\ ~IsX402(p) => Valid(p)
  /\ reads' = Unexpired(reads)
  /\ reading' = [reading EXCEPT ![r] = [at |-> "waiting", by |-> p, for |-> k, locks |-> TakesLock(p)]]
  /\ UNCHANGED <<inFlight, onChain, claimed, owed, pages, again, age, pageCrashes>>

StopsReading(r) == reading' = [reading EXCEPT ![r] = NotReading]

To(r, place) == reading' = [reading EXCEPT ![r].at = place]

\* Mutant: a read that has ended keeps its lock.
UnlockedNever(r) == inFlight

Unlocked(r) ==
  inFlight \ (IF reading[r].locks THEN {KeyOf(reading[r].by, reading[r].for)} ELSE {})

(***************************************************************************)
(* The lock is taken: what can be recovered is answered, and the payment   *)
(* not settled; or else the x402 gate verifies and the page is fetched.    *)
(***************************************************************************)
Enter(r) ==
  LET p == reading[r].by
      k == reading[r].for
      rows == Unexpired(reads)
      recover == MayRecover(p) /\ RecoverableIn(rows, PayerOf[p], k)
      refuse  == ~recover /\ IsX402(p) /\ ~Valid(p)
  IN
  /\ reading[r].at = "waiting"
  /\ reading[r].locks => KeyOf(p, k) \notin inFlight
  /\ reads' = IF MayRecover(p) THEN rows ELSE reads
  /\ \/ (recover \/ refuse) /\ StopsReading(r) /\ UNCHANGED inFlight
     \/ /\ ~recover /\ ~refuse
        /\ To(r, "fetching")
        /\ inFlight' = inFlight \cup (IF reading[r].locks THEN {KeyOf(p, k)} ELSE {})
  /\ UNCHANGED <<onChain, claimed, owed, pages, again, age, pageCrashes>>

(***************************************************************************)
(* deliver, and what x402's handler records before the middleware settles. *)
(***************************************************************************)
Row(k) == [for |-> k, born |-> age, kept |-> RecoveryWindow > 0, settled |-> FALSE]

Delivered(rows, p, k) == IF rows[p] = NoRead THEN [rows EXCEPT ![p] = Row(k)] ELSE rows

Fetched(r) ==
  LET p == reading[r].by IN
  /\ reading[r].at = "fetching"
  /\ To(r, "settling")
  /\ reads' = IF IsX402(p) THEN Delivered(reads, p, reading[r].for) ELSE reads
  /\ UNCHANGED <<inFlight, onChain, claimed, owed, pages, again, age, pageCrashes>>

\* A payer who has broadcast already is owed a refund, and the hash is used up.
OwedFor(p) == RailOf[p] = "hash"

NotFetched(r) ==
  LET p == reading[r].by IN
  /\ reading[r].at = "fetching"
  /\ StopsReading(r) /\ inFlight' = Unlocked(r)
  /\ owed' = IF OwedFor(p) THEN owed \cup {p} ELSE owed
  /\ claimed' \in IF OwedFor(p) THEN {claimed, claimed \cup {p}} ELSE {claimed}
  /\ UNCHANGED <<reads, onChain, pages, again, age, pageCrashes>>

(***************************************************************************)
(* The facilitator's or the chain's answer: a payment moves its money      *)
(* once.  An error may hide that it did.                                   *)
(***************************************************************************)
Spend(r) ==
  LET p == reading[r].by IN
  IF RailOf[p] = "hash"
  THEN p \notin claimed /\ claimed' = claimed \cup {p} /\ UNCHANGED <<onChain, again>>
  ELSE /\ p \notin onChain /\ onChain' = onChain \cup {p}
       /\ again' = IF KeptFor(p, reading[r].for) THEN again \cup {p} ELSE again
       /\ UNCHANGED claimed

Settle(r) ==
  /\ reading[r].at = "settling"
  /\ Spend(r)
  /\ To(r, "settled")
  /\ UNCHANGED <<reads, inFlight, owed, pages, age, pageCrashes>>

SettleFails(r) ==
  /\ reading[r].at = "settling"
  /\ Spend(r) \/ UNCHANGED <<onChain, claimed, again>>
  /\ StopsReading(r) /\ inFlight' = Unlocked(r)
  /\ UNCHANGED <<reads, owed, pages, age, pageCrashes>>

\* settled, by x402's hook; MPP's sale is recorded and marked now.
RecordSale(r) ==
  LET p == reading[r].by
      rows == IF IsX402(p) THEN reads ELSE Delivered(reads, p, reading[r].for)
  IN
  /\ reading[r].at = "settled"
  /\ reads' = [rows EXCEPT ![p].settled = TRUE]
  /\ pages' = [pages EXCEPT ![p][reading[r].for] = @ + 1]
  /\ StopsReading(r) /\ inFlight' = Unlocked(r)
  /\ UNCHANGED <<onChain, claimed, owed, again, age, pageCrashes>>

(***************************************************************************)
(* Time, and a crash: the locks are in memory, the ledger and the replay   *)
(* store are files.                                                        *)
(***************************************************************************)
PageTime ==
  /\ age < Ages /\ age' = age + 1
  /\ UNCHANGED <<reads, reading, inFlight, onChain, claimed, owed, pages, again, pageCrashes>>

ClaimsForgotten == {}

ClaimsAfterCrash == claimed

PageCrash ==
  /\ pageCrashes < MaxPageCrashes /\ pageCrashes' = pageCrashes + 1
  /\ reading' = [r \in Readers |-> NotReading] /\ inFlight' = {}
  /\ claimed' = ClaimsAfterCrash
  /\ UNCHANGED <<reads, onChain, owed, pages, again, age>>

PageNext ==
  \/ \E r \in Readers, p \in Payments, k \in Requested : Arrive(r, p, k)
  \/ \E r \in Readers : \/ Enter(r) \/ Fetched(r) \/ NotFetched(r)
                        \/ Settle(r) \/ SettleFails(r) \/ RecordSale(r)
  \/ PageTime \/ PageCrash

PageSpec == PageInit /\ [][PageNext]_pageVars

(***************************************************************************)
(* Every await of a handler returns: the fetch and the settlement have     *)
(* time-outs, and the locks are fair.                                      *)
(***************************************************************************)
PageFairness ==
  \A r \in Readers : /\ SF_pageVars(Enter(r))
                     /\ WF_pageVars(Fetched(r) \/ NotFetched(r))
                     /\ WF_pageVars(Settle(r) \/ SettleFails(r))
                     /\ WF_pageVars(RecordSale(r))

-----------------------------------------------------------------------------
(***************************************************************************)
(* Every variable holds values of its kind (Ledger, ReplayStore).          *)
(***************************************************************************)
PageTypeOK ==
  /\ \A p \in Payments : /\ reads[p].for \in Requested \cup {""} /\ reads[p].born \in 0 .. Ages
                         /\ reads[p].kept \in BOOLEAN /\ reads[p].settled \in BOOLEAN
  /\ \A r \in Readers : reading[r] = NotReading
                          \/ reading[r] \in [at : {"waiting", "fetching", "settling", "settled"},
                                             by : Payments, for : Requested, locks : BOOLEAN]
  /\ inFlight \subseteq KeysOfPayers
  /\ onChain \subseteq Payments /\ claimed \subseteq Payments /\ owed \subseteq Payments
  /\ pages \in [Payments -> [Requested -> 0 .. Cardinality(Readers)]] /\ again \subseteq Payments /\ age \in 0 .. Ages

(***************************************************************************)
(* A payer is not charged for a request whose paid page the service still  *)
(* keeps for him, also by a retry that arrives while the first settles;    *)
(* and no payment, also one its payer broadcast himself, is answered with  *)
(* two pages (exclusive, recoverable, ReplayStore).                        *)
(***************************************************************************)
ARetryIsFree ==
  /\ again = {}
  /\ \A p \in Payments, k, l \in Requested :
       pages[p][k] <= 1 /\ (pages[p][k] > 0 /\ pages[p][l] > 0 => k = l)

(***************************************************************************)
(* A request never waits for ever for another one like it (exclusive).     *)
(***************************************************************************)
EveryReadEnds == \A r \in Readers : (reading[r] # NotReading) ~> (reading[r] = NotReading)

(***************************************************************************)
(* What the service says of a sale: the page that was paid for comes back  *)
(* to a retry, so the row of a payment is of the request it bought.        *)
(***************************************************************************)
TheRowIsTheSale ==
  \A r \in Readers : reading[r].at = "settled" /\ reads[reading[r].by] # NoRead
                       => reads[reading[r].by].for = reading[r].for
=============================================================================
