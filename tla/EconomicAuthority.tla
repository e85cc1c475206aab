-------------------------- MODULE EconomicAuthority --------------------------
(***************************************************************************)
(* The economic authority (hosted/a2a_economic_authority): a forest of     *)
(* delegations, each with the authority it was given, what of it is spent, *)
(* and what is reserved for its children; a log of the events that changed *)
(* it; and the revocation of a whole subtree.                              *)
(*                                                                         *)
(* Every operation of the store is one transaction under SQLite's write    *)
(* lock, so one step here.  A revocation is many, and the other            *)
(* operations, of other agents, come between them.                         *)
(*                                                                         *)
(* An operation names an event.  When the delegation has that event        *)
(* already, the operation changes nothing: it answers as it did the first  *)
(* time, or EventConflict when the request is another one.  An operation   *)
(* that is refused changes nothing either; both are left out.              *)
(***************************************************************************)
EXTENDS Integers, FiniteSets, Money

CONSTANTS
  Delegations,  \* the delegation_ids
  Amounts,      \* the amounts that callers name
  Events,       \* the event_ids that callers choose
  Outcomes,     \* the outcomes of settlements
  Revokes,      \* the calls that revoke
  Outcome,      \* the outcome each of them settles with
  None, Unknown,  \* no parent; an amount the caller does not know
  Internal,     \* the event_id of a revocation's settlements
  MaxCrashes    \* bound

ASSUME AuthorityAssumption ==
  /\ IsFiniteSet(Delegations) /\ None \notin Delegations
  /\ Amounts \subseteq Int /\ Unknown \notin Int
  /\ IsFiniteSet(Events) /\ Internal \notin Events
  /\ Outcome \in [Revokes -> Outcomes]
  /\ MaxCrashes \in Nat

VARIABLES
  parent,    \* table delegations: the parent of each, None for a root,
  state,     \* whether there is a row, and whether it is active,
  authority, \* authority_usd,
  consumed,  \* consumed_usd,
  reserved,  \* child_reserved_usd,
  released,  \* released_usd,
  unknown,   \* unknown_cost_count,
  revoking,  \* and whether revocation_started_at is set
  log,       \* table economic_events: the request of each event, if any
  withdrawn, \* the delegations whose credentials were revoked
  pc,        \* where each revoking call is
  target,    \* the delegation it revokes
  subtree,   \* what it found to be in the subtree
  todo,      \* those of it that it has still to look at
  current,   \* the one it found active and settles next
  crashes    \* how many calls have died

rows == <<parent, state, authority, consumed, reserved, released, unknown, revoking>>
job  == <<pc, target, subtree, todo, current, crashes>>
vars == <<rows, log, withdrawn, job>>

-----------------------------------------------------------------------------
EventIds == Events \cup {Internal}

NoEvent == [kind |-> "none"]

\* The canonical payloads of requests.
Requests ==
  {NoEvent}
    \cup [kind : {"root", "authority_grant"}, amount : Amounts]
    \cup [kind : {"reservation"}, amount : Amounts, parent : Delegations]
    \cup [kind : {"consumption"}, amount : Amounts \cup {Unknown}]
    \cup [kind : {"settlement"}, outcome : Outcomes]

Exists(d) == state[d] # "absent"
Active(d) == state[d] = "active"

Children(d) == {x \in Delegations : Exists(x) /\ parent[x] = d}

(***************************************************************************)
(* A delegation and its ancestors: what every set that has it, and the     *)
(* parents of its members, has.                                            *)
(***************************************************************************)
Closed(S) == \A x \in S : parent[x] # None => parent[x] \in S

Lineage(d) == {x \in Delegations : \A S \in SUBSET Delegations : d \in S /\ Closed(S) => x \in S}

Descendants(d) == {x \in Delegations : Exists(x) /\ x # d /\ d \in Lineage(x)}

RevocationInProgress(d) == \E x \in Lineage(d) : revoking[x]

Headroom(d) == authority[d] - consumed[d] - reserved[d]

New(d, e) == log[d][e] = NoEvent

Record(d, e, request) == log' = [log EXCEPT ![d][e] = request]

Init ==
  /\ parent = [d \in Delegations |-> None]
  /\ state = [d \in Delegations |-> "absent"]
  /\ authority = [d \in Delegations |-> 0]
  /\ consumed = [d \in Delegations |-> 0]
  /\ reserved = [d \in Delegations |-> 0]
  /\ released = [d \in Delegations |-> 0]
  /\ unknown = [d \in Delegations |-> 0]
  /\ revoking = [d \in Delegations |-> FALSE]
  /\ log = [d \in Delegations |-> [e \in EventIds |-> NoEvent]]
  /\ withdrawn = {}
  /\ pc = [v \in Revokes |-> "idle"]
  /\ target = [v \in Revokes |-> None]
  /\ subtree = [v \in Revokes |-> {}]
  /\ todo = [v \in Revokes |-> {}]
  /\ current = [v \in Revokes |-> None]
  /\ crashes = 0

-----------------------------------------------------------------------------
Acceptable(n) == n >= 0

CreateRoot(d, e, n) ==
  /\ ~Exists(d)
  /\ Acceptable(n)
  /\ state' = [state EXCEPT ![d] = "active"]
  /\ authority' = [authority EXCEPT ![d] = n]
  /\ Record(d, e, [kind |-> "root", amount |-> n])
  /\ UNCHANGED <<parent, consumed, reserved, released, unknown, revoking, withdrawn, job>>

\* A parent funds a child, or more of it, from what it surely has.
Funds(p, n) == Active(p) /\ unknown[p] = 0 /\ Headroom(p) >= n

(***************************************************************************)
(* What a reserve call answers when its delegation exists already.         *)
(***************************************************************************)
AnswerToDuplicate(d, p, n) ==
  IF parent[d] = p /\ authority[d] = n THEN "already_exists" ELSE "EventConflict"

Reserve(d, p, e, n) ==
  /\ ~Exists(d) /\ Exists(p)
  /\ Acceptable(n)
  /\ Funds(p, n)
  /\ ~RevocationInProgress(p)
  /\ parent' = [parent EXCEPT ![d] = p]
  /\ state' = [state EXCEPT ![d] = "active"]
  /\ authority' = [authority EXCEPT ![d] = n]
  /\ reserved' = [reserved EXCEPT ![p] = @ + n]
  /\ Record(d, e, [kind |-> "reservation", amount |-> n, parent |-> p])
  /\ UNCHANGED <<consumed, released, unknown, revoking, withdrawn, job>>

\* Mutant: a grant to a child is not taken from its parent.
GrantedUnfunded(d, n) == reserved

\* Of a root it is a top-up; of a child it is carved out of its parent.
GrantedReserved(d, n) ==
  [p \in Delegations |-> IF p = parent[d] THEN reserved[p] + n ELSE reserved[p]]

Grant(d, e, n) ==
  /\ Exists(d) /\ New(d, e)
  /\ Acceptable(n) /\ Active(d)
  /\ ~RevocationInProgress(d)
  /\ parent[d] # None => Funds(parent[d], n)
  /\ reserved' = GrantedReserved(d, n)
  /\ authority' = [authority EXCEPT ![d] = @ + n]
  /\ Record(d, e, [kind |-> "authority_grant", amount |-> n])
  /\ UNCHANGED <<parent, state, consumed, released, unknown, revoking, withdrawn, job>>

Consume(d, e, n) ==
  /\ Exists(d) /\ New(d, e)
  /\ Active(d)
  /\ ~RevocationInProgress(d)
  /\ \/ /\ n = Unknown
        /\ unknown' = [unknown EXCEPT ![d] = @ + 1]
        /\ UNCHANGED consumed
     \/ /\ n # Unknown
        /\ n >= 0 /\ consumed[d] + n <= authority[d] - reserved[d]
        /\ consumed' = [consumed EXCEPT ![d] = @ + n]
        /\ UNCHANGED unknown
  /\ Record(d, e, [kind |-> "consumption", amount |-> n])
  /\ UNCHANGED <<parent, state, authority, reserved, released, revoking, withdrawn, job>>

\* Mutant: a delegation settles over its active descendants.
MaySettleAnyway(d) == Active(d)

MaySettle(d) == Active(d) /\ \A x \in Descendants(d) : ~Active(x)

\* Mutant: what may have been spent is released too.
ReleasedUnsure(d) == Headroom(d)

\* Nothing is released that an unknown cost may have spent.
Released(d) == IF unknown[d] > 0 THEN 0 ELSE Headroom(d)

\* What a child spent is spent by its parent.
SettledConsumed(d) ==
  [p \in Delegations |-> IF p = parent[d] THEN consumed[p] + consumed[d] ELSE consumed[p]]

Settled(d, e, o) ==
  /\ state' = [state EXCEPT ![d] = "settled"]
  /\ released' = [released EXCEPT ![d] = Released(d)]
  /\ consumed' = SettledConsumed(d)
  /\ reserved' = [p \in Delegations |-> IF p = parent[d]
                                        THEN reserved[p] - (consumed[d] + Released(d))
                                        ELSE reserved[p]]
  /\ Record(d, e, [kind |-> "settlement", outcome |-> o])
  /\ UNCHANGED <<parent, authority, unknown, revoking, withdrawn>>

Settle(d, e, o) ==
  /\ Exists(d) /\ New(d, e)
  /\ MaySettle(d)
  /\ Settled(d, e, o)
  /\ UNCHANGED job

-----------------------------------------------------------------------------
(***************************************************************************)
(* A revocation marks its target, finds the subtree, settles it from the   *)
(* leaves up, and revokes its credentials.  Each delegation is read in one *)
(* transaction and settled in the next.  The subtree is read with several; *)
(* under the mark it cannot change, which RevokedIsDead relies on.         *)
(***************************************************************************)
Goto(v, place) == pc' = [pc EXCEPT ![v] = place]

MarkRevocationStarted(v, d) ==
  /\ \/ pc[v] = "idle" /\ Exists(d)
     \/ pc[v] = "failed" /\ d = target[v]
  /\ target' = [target EXCEPT ![v] = d]
  /\ revoking' = [revoking EXCEPT ![d] = TRUE]
  /\ Goto(v, "marked")
  /\ UNCHANGED <<parent, state, authority, consumed, reserved, released, unknown,
                 log, withdrawn, subtree, todo, current, crashes>>

FindSubtree(v) ==
  /\ pc[v] = "marked"
  /\ LET found == {target[v]} \cup Descendants(target[v])
     IN  /\ subtree' = [subtree EXCEPT ![v] = found]
         /\ todo' = [todo EXCEPT ![v] = found]
  /\ Goto(v, "looking")
  /\ UNCHANGED <<rows, log, withdrawn, target, current, crashes>>

\* Mutant: the subtree is settled in any order.
AnyNext(v, d) == d \in todo[v]

\* Leaves first: none of its descendants is still to do.
IsNext(v, d) == d \in todo[v] /\ Descendants(d) \cap todo[v] = {}

\* Mutant: what is settled already is settled again.
NeedsSettlementAlways(d) == TRUE

NeedsSettlement(d) == Active(d)

LookAt(v, d) ==
  /\ pc[v] = "looking" /\ IsNext(v, d)
  /\ todo' = [todo EXCEPT ![v] = @ \ {d}]
  /\ \/ /\ NeedsSettlement(d)
        /\ current' = [current EXCEPT ![v] = d]
        /\ Goto(v, "settling")
     \/ ~NeedsSettlement(d) /\ UNCHANGED <<current, pc>>
  /\ UNCHANGED <<rows, log, withdrawn, target, subtree, crashes>>

(***************************************************************************)
(* core.settle under the reserved event_id: the first one for this         *)
(* delegation settles it; another revocation's may have come between, and  *)
(* if its outcome was another one, EventConflict ends this call.  The      *)
(* result of a settle that does nothing is not looked at.                  *)
(***************************************************************************)
Conflicts(v) ==
  ~New(current[v], Internal) /\ log[current[v]][Internal].outcome # Outcome[v]

SettleCurrent(v) ==
  /\ pc[v] = "settling"
  /\ Goto(v, IF Conflicts(v) THEN "failed" ELSE "looking")
  /\ \/ /\ New(current[v], Internal) /\ MaySettle(current[v])
        /\ Settled(current[v], Internal, Outcome[v])
     \/ /\ ~(New(current[v], Internal) /\ MaySettle(current[v]))
        /\ UNCHANGED <<rows, log, withdrawn>>
  /\ UNCHANGED <<target, subtree, todo, current, crashes>>

RevokeTokens(v) ==
  /\ pc[v] = "looking" /\ todo[v] = {}
  /\ withdrawn' = withdrawn \cup subtree[v]
  /\ Goto(v, "done")
  /\ UNCHANGED <<rows, log, target, subtree, todo, current, crashes>>

\* The process dies; its caller revokes again.
Crash(v) ==
  /\ pc[v] \in {"marked", "looking", "settling"}
  /\ crashes < MaxCrashes
  /\ crashes' = crashes + 1
  /\ Goto(v, "failed")
  /\ UNCHANGED <<rows, log, withdrawn, target, subtree, todo, current>>

-----------------------------------------------------------------------------
Proceed(v) ==
  \/ FindSubtree(v)
  \/ \E d \in Delegations : LookAt(v, d)
  \/ SettleCurrent(v)
  \/ RevokeTokens(v)

Next ==
  \/ \E d \in Delegations, e \in Events, n \in Amounts :
       \/ CreateRoot(d, e, n)
       \/ \E p \in Delegations : Reserve(d, p, e, n)
       \/ Grant(d, e, n)
  \/ \E d \in Delegations, e \in Events, n \in Amounts \cup {Unknown} : Consume(d, e, n)
  \/ \E d \in Delegations, e \in Events, o \in Outcomes : Settle(d, e, o)
  \/ \E v \in Revokes :
       \/ \E d \in Delegations : MarkRevocationStarted(v, d)
       \/ Proceed(v)
       \/ Crash(v)

Spec == Init /\ [][Next]_vars

(***************************************************************************)
(* A revocation that runs goes on, and the caller of one that died, or     *)
(* that was answered with an error, calls again.  Nobody must do anything  *)
(* else.                                                                   *)
(***************************************************************************)
FairSpec ==
  /\ Spec
  /\ \A v \in Revokes :
       /\ WF_vars(Proceed(v))
       /\ WF_vars(pc[v] = "failed" /\ \E d \in Delegations : MarkRevocationStarted(v, d))

-----------------------------------------------------------------------------
TypeOK ==
  /\ parent \in [Delegations -> Delegations \cup {None}]
  /\ state \in [Delegations -> {"absent", "active", "settled"}]
  /\ authority \in [Delegations -> Nat]
  /\ consumed \in [Delegations -> Nat]
  /\ reserved \in [Delegations -> Int]
  /\ released \in [Delegations -> Int]
  /\ unknown \in [Delegations -> Nat]
  /\ revoking \in [Delegations -> BOOLEAN]
  /\ log \in [Delegations -> [EventIds -> Requests]]
  /\ withdrawn \subseteq Delegations
  /\ pc \in [Revokes -> {"idle", "marked", "looking", "settling", "failed", "done"}]
  /\ target \in [Revokes -> Delegations \cup {None}]
  /\ subtree \in [Revokes -> SUBSET Delegations]
  /\ todo \in [Revokes -> SUBSET Delegations]
  /\ current \in [Revokes -> Delegations \cup {None}]
  /\ crashes \in 0 .. MaxCrashes

(***************************************************************************)
(* What core.invariant checks, of every delegation at every moment: known  *)
(* spend and the children's reservations fit in the authority, and no      *)
(* quantity is negative.                                                   *)
(***************************************************************************)
Satisfied ==
  \A d \in Delegations :
    /\ consumed[d] >= 0 /\ reserved[d] >= 0 /\ released[d] >= 0
    /\ consumed[d] + reserved[d] <= authority[d]

(***************************************************************************)
(* What a delegation has reserved is what its active children may spend,   *)
(* and what its settled children neither spent nor gave back.  reserve,    *)
(* grant and settle keep child_reserved_usd by increments; no code sums it.*)
(***************************************************************************)
ActiveChildren(d)  == {x \in Children(d) : Active(x)}
SettledChildren(d) == Children(d) \ ActiveChildren(d)

Locked == [d \in Delegations |-> authority[d] - consumed[d] - released[d]]

BooksBalance ==
  \A d \in Delegations :
    reserved[d] = Total(authority, ActiveChildren(d)) + Total(Locked, SettledChildren(d))

(***************************************************************************)
(* Every dollar of the roots' envelopes and top-ups is in exactly one      *)
(* place: spent by an event of the log, in the headroom of one delegation  *)
(* that may spend it, or locked where an unknown cost may have spent it.   *)
(* So no dollar is delegated twice, and none is given back, at any depth   *)
(* of the tree, that an unknown cost may have spent.                       *)
(***************************************************************************)
AmountOf(d, e, kinds) ==
  IF log[d][e].kind \in kinds /\ log[d][e].amount # Unknown THEN log[d][e].amount ELSE 0

Logged(d, kinds) == Total([e \in EventIds |-> AmountOf(d, e, kinds)], EventIds)

IsRoot(d) == Exists(d) /\ parent[d] = None

HeldIn == [d \in Delegations |-> Headroom(d)]

EveryDollarOnce ==
  LET holders == {d \in Delegations : Active(d) \/ unknown[d] > 0 \/ IsRoot(d)}
      spent == [d \in Delegations |-> Logged(d, {"consumption"})]
  IN  Total(authority, {d \in Delegations : IsRoot(d)})
        = Total(spent, Delegations) + Total(HeldIn, holders)

(***************************************************************************)
(* The rows are what the log says: each event counts once however often it *)
(* is delivered, and a child's spend is its parent's once it has settled.  *)
(***************************************************************************)
LogAgrees ==
  \A d \in Delegations :
    /\ authority[d] = Logged(d, {"root", "reservation", "authority_grant"})
    /\ consumed[d] = Logged(d, {"consumption"}) + Total(consumed, SettledChildren(d))
    /\ unknown[d] = Cardinality({e \in EventIds :
                                   /\ log[d][e].kind = "consumption"
                                   /\ log[d][e].amount = Unknown})

(***************************************************************************)
(* A revocation that is complete has left nothing active below its target, *)
(* and passed over the credentials of no delegation there: none was        *)
(* reserved while it was going on.  (A credential that a reserve call of   *)
(* another process mints only now is not modelled.)                        *)
(***************************************************************************)
RevokedIsDead ==
  \A v \in Revokes : pc[v] = "done" =>
    \A d \in {target[v]} \cup Descendants(target[v]) : ~Active(d) /\ d \in withdrawn

(***************************************************************************)
(* What a delegation spent, gave back and kept locked is final once it has *)
(* settled: a parent that took these over never sees them change.          *)
(***************************************************************************)
Account(d) == <<state[d], authority[d], consumed[d], reserved[d], released[d], unknown[d]>>

SettledIsFinal ==
  [][\A d \in Delegations : state[d] = "settled" => Account(d)' = Account(d)]_vars

(***************************************************************************)
(* A revocation that has begun completes, whoever settles or revokes at    *)
(* the same time: a caller whose call died or was refused has only to call *)
(* again.                                                                  *)
(***************************************************************************)
RevocationCompletes == \A v \in Revokes : (pc[v] # "idle") ~> (pc[v] = "done")

(***************************************************************************)
(* The docstring of reserve: any later call with the parent and the        *)
(* maximum of the reservation answers "already_exists".                    *)
(***************************************************************************)
DuplicateReserveIsSafe ==
  \A d \in Delegations, e \in EventIds : log[d][e].kind = "reservation" =>
    AnswerToDuplicate(d, log[d][e].parent, log[d][e].amount) = "already_exists"

(***************************************************************************)
(* The authority's books: every variable of its kind, no balance           *)
(* overdrawn, and what is reserved is what the children may spend or have  *)
(* locked.                                                                 *)
(***************************************************************************)
BooksAreSound == TypeOK /\ Satisfied /\ BooksBalance

(***************************************************************************)
(* Every dollar is counted once, and the log of calls tells the same as    *)
(* the balances.                                                           *)
(***************************************************************************)
LogTellsAll == EveryDollarOnce /\ LogAgrees
=============================================================================
