----------------------------- MODULE StoreOpening -----------------------------
(***************************************************************************)
(* Opening a SQLite store that an older version left behind, by several    *)
(* processes at once, any of which may be killed.  The stores do it in     *)
(* three ways: the AP recovery store tries every ALTER TABLE and ignores   *)
(* its error; the others look which columns there are and add the rest,    *)
(* each statement committing by itself; the economic authority rebuilds    *)
(* its table of events in one transaction.                                 *)
(***************************************************************************)
EXTENDS Integers, FiniteSets, Sequences

CONSTANTS
  Ways,         \* of {"tried", "checked", "rebuilt"}, or "none" where nothing is opened
  NewColumns,   \* the columns an old table lacks, in their order
  Openers,      \* processes
  MaxKills, MaxBusy,
  Made,         \* calls the old version of the authority recorded
  Retried,      \* calls that come after the migration
  Delegated     \* delegation -> agent, parent, authority, as they are by then

VARIABLES
  way,       \* how this store is opened
  columns,   \* the new columns it has
  events,    \* (delegation, event) -> canonical payload; in the old table none
  oldEvents, \* the rows of the old table, if it is still there
  version,   \* schema_version
  opener,    \* process -> where it is, and the positions of the columns it has still to add
  kills, busy,
  replies    \* to the calls after the migration

openVars == <<way, columns, events, oldEvents, version, opener, kills, busy, replies>>

-----------------------------------------------------------------------------
(* Events of the authority. *)

Key(call) == <<call.delegation, call.event>>

\* The payload that live code builds from a call, by kind.
Payload(call) ==
  CASE call.kind = "root"        -> <<"root", call.delegation, call.agent, call.amount>>
    [] call.kind = "reservation" -> <<"reservation", call.parent, call.delegation, call.agent, call.amount>>
    [] call.kind = "authority_grant" -> <<"authority_grant", call.delegation, call.amount>>
    [] call.kind = "consumption" -> <<"consumption", call.delegation, call.amount>>
    [] call.kind = "settlement"  -> <<"settlement", call.delegation, call.outcome>>

\* What the old table kept of it.
OldRow(call) ==
  [delegation |-> call.delegation, event |-> call.event, kind |-> call.kind,
   amount |-> call.amount,
   status |-> IF call.kind = "settlement" THEN call.outcome ELSE "accepted"]

RowKey(old) == <<old.delegation, old.event>>

\* The payload rebuilt from the old row and its delegation.
Rebuilt(old) ==
  IF old.delegation \notin DOMAIN Delegated THEN <<"unreconstructed", old.kind, old.event>>
  ELSE LET d == Delegated[old.delegation]
       IN  CASE old.kind = "root" -> <<"root", old.delegation, d.agent, old.amount>>
             [] old.kind = "reservation" -> <<"reservation", d.parent, old.delegation, d.agent, old.amount>>
             [] old.kind \in {"authority_grant", "consumption"} -> <<old.kind, old.delegation, old.amount>>
             [] old.kind = "settlement" -> <<"settlement", old.delegation, old.status>>
             [] OTHER -> <<"unreconstructed", old.kind, old.event>>

\* What opens a delegation, and what adds to its authority afterwards.
Creates(call) == call.kind \in {"root", "reservation"}

Grown(d) ==
  \E g \in Made : g.kind = "authority_grant" /\ g.delegation = d /\ g.amount > 0

AllColumns == {NewColumns[i] : i \in DOMAIN NewColumns}

\* No two calls of one kind were recorded under one key, a delegation has the agent and
\* the parent it was opened with, and more authority only by a grant; no call after the
\* migration opens a delegation or grants anew; a call is told by its key and payload.
OpeningAssumption ==
  /\ Ways \subseteq {"none", "tried", "checked", "rebuilt"}
  /\ NewColumns \in Seq(AllColumns)
  /\ \A c \in Made :
       /\ c.delegation \in DOMAIN Delegated
       /\ c.kind \in {"root", "reservation", "authority_grant", "consumption", "settlement"}
       /\ c.kind \in {"root", "reservation"} => c.agent = Delegated[c.delegation].agent
       /\ c.kind = "reservation" => c.parent = Delegated[c.delegation].parent
       /\ \A d \in Made : Key(c) = Key(d) => c = d
       /\ Creates(c) => (c.amount = Delegated[c.delegation].authority <=> ~Grown(c.delegation))
  /\ \A c \in Retried :
       /\ Creates(c) => c.delegation \in DOMAIN Delegated
       /\ c.kind = "authority_grant" => c \in Made
  /\ \A c, d \in Made \cup Retried : Key(c) = Key(d) /\ Payload(c) = Payload(d) => c = d

ASSUME OpeningAssumption

-----------------------------------------------------------------------------
OpenInit ==
  /\ way \in Ways
  /\ columns = {}
  /\ events = << >>
  /\ oldEvents = IF way = "rebuilt" THEN {OldRow(c) : c \in Made} ELSE {}
  /\ version = 0
  /\ opener = [p \in Openers |-> [at |-> "closed", todo |-> {}]]
  /\ kills = 0 /\ busy = 0
  /\ replies = << >>

MovesTo(p, to, todo) == opener' = [opener EXCEPT ![p] = [at |-> to, todo |-> todo]]

\* CREATE TABLE IF NOT EXISTS changes nothing; then it looks at what is there.
StartOpening(p) ==
  /\ way # "none" /\ opener[p].at = "closed"
  /\ CASE way = "tried"   -> MovesTo(p, "adding", DOMAIN NewColumns)
       [] way = "checked" -> MovesTo(p, "adding", {i \in DOMAIN NewColumns : NewColumns[i] \notin columns})
       [] way = "rebuilt" -> MovesTo(p, IF version = 1 THEN "open" ELSE "migrating", {})
  /\ UNCHANGED <<way, columns, events, oldEvents, version, kills, busy, replies>>

\* The columns come in their order.
NextOf(todo) == CHOOSE i \in todo : \A j \in todo : i <= j

NextColumn(p) == NewColumns[NextOf(opener[p].todo)]

AfterNext(todo) == todo \ {NextOf(todo)}

\* ALTER TABLE fails when the column is there, or when the lock is not had in time.
AlterFails(p) ==
  /\ opener[p].at = "adding" /\ opener[p].todo # {}
  /\ \/ NextColumn(p) \in columns /\ UNCHANGED busy
     \/ busy < MaxBusy /\ busy' = busy + 1
  /\ IF way = "tried" THEN MovesTo(p, "adding", AfterNext(opener[p].todo))
     ELSE MovesTo(p, "failed", {})
  /\ UNCHANGED <<way, columns, events, oldEvents, version, kills, replies>>

Alter(p) ==
  /\ opener[p].at = "adding" /\ opener[p].todo # {}
  /\ NextColumn(p) \notin columns
  /\ columns' = columns \cup {NextColumn(p)}
  /\ MovesTo(p, "adding", AfterNext(opener[p].todo))
  /\ UNCHANGED <<way, events, oldEvents, version, kills, busy, replies>>

AllAdded(p) ==
  /\ opener[p].at = "adding" /\ opener[p].todo = {}
  /\ MovesTo(p, "open", {})
  /\ UNCHANGED <<way, columns, events, oldEvents, version, kills, busy, replies>>

\* The whole migration is one transaction, which looks again at what is there.
Migrate(p) ==
  /\ opener[p].at = "migrating"
  /\ columns' = AllColumns
  /\ LET moved == {RowKey(old) : old \in oldEvents}
     IN  events' = [k \in moved \cup DOMAIN events |->
                      IF k \in moved THEN Rebuilt(CHOOSE old \in oldEvents : RowKey(old) = k)
                      ELSE events[k]]
  /\ oldEvents' = {}
  /\ version' = 1
  /\ MovesTo(p, "open", {})
  /\ UNCHANGED <<way, kills, busy, replies>>

MigrateFails(p) ==
  /\ opener[p].at = "migrating" /\ busy < MaxBusy
  /\ busy' = busy + 1
  /\ MovesTo(p, "failed", {})
  /\ UNCHANGED <<way, columns, events, oldEvents, version, kills, replies>>

Kill(p) ==
  /\ opener[p].at \notin {"closed", "failed"} /\ kills < MaxKills
  /\ kills' = kills + 1
  /\ MovesTo(p, "closed", {})
  /\ UNCHANGED <<way, columns, events, oldEvents, version, busy, replies>>

Restart(p) ==
  /\ opener[p].at = "failed"
  /\ MovesTo(p, "closed", {})
  /\ UNCHANGED <<way, columns, events, oldEvents, version, kills, busy, replies>>

Put(table, key, value) ==
  [k \in DOMAIN table \cup {key} |-> IF k = key THEN value ELSE table[k]]

\* create_root and reserve look at the delegation's row before any event.
FitsRow(call) ==
  LET d == Delegated[call.delegation]
  IN  /\ call.agent = d.agent /\ call.amount = d.authority
      /\ call.kind = "reservation" => call.parent = d.parent

\* The others ask _check_event.
Reply(call) ==
  IF Creates(call) THEN IF FitsRow(call) THEN "done before" ELSE "conflict"
  ELSE IF Key(call) \notin DOMAIN events THEN "done"
  ELSE IF events[Key(call)] = Payload(call) THEN "done before" ELSE "conflict"

\* What is new is recorded (_record_event).
Call(p, call) ==
  /\ way = "rebuilt" /\ opener[p].at = "open" /\ call \notin DOMAIN replies
  /\ replies' = Put(replies, call, Reply(call))
  /\ events' = IF Reply(call) = "done" THEN Put(events, Key(call), Payload(call)) ELSE events
  /\ UNCHANGED <<way, columns, oldEvents, version, opener, kills, busy>>

OpenNext ==
  \E p \in Openers :
     \/ StartOpening(p) \/ AlterFails(p) \/ Alter(p) \/ AllAdded(p)
     \/ Migrate(p) \/ MigrateFails(p) \/ Kill(p) \/ Restart(p)
     \/ \E call \in Retried : Call(p, call)

OpenSpec == OpenInit /\ [][OpenNext]_openVars

-----------------------------------------------------------------------------
OpenTypeOK ==
  /\ way \in Ways /\ version \in 0 .. 1
  /\ columns \subseteq AllColumns
  /\ \A p \in Openers : opener[p].at \in {"closed", "adding", "migrating", "open", "failed"}
  /\ kills \in 0 .. MaxKills /\ busy \in 0 .. MaxBusy
  /\ \A c \in DOMAIN replies : replies[c] \in {"done", "done before", "conflict"}

(***************************************************************************)
(* Whoever opened next to it and whoever was killed on the way, a process  *)
(* that has opened a store finds every column in it -- unless, where       *)
(* errors are ignored, the lock was once not had in time; and a migrated   *)
(* authority knows every call it knew before: a retry is a retry, another  *)
(* call under the same key is refused, and the same event id under another *)
(* delegation is a call of its own.  Nothing is opened twice: a root or a  *)
(* reservation is done before, or, once a grant has raised what it opened, *)
(* in conflict (__init__ of the stores, _migrate, create_root, reserve).   *)
(***************************************************************************)
OpenIsReady ==
  /\ (\E p \in Openers : opener[p].at = "open") /\ ~(way = "tried" /\ busy > 0)
       => columns = AllColumns
  /\ \A call \in DOMAIN replies :
       IF Creates(call)
       THEN /\ replies[call] # "done"
            /\ call \in Made => (replies[call] = "conflict" <=> Grown(call.delegation))
       ELSE /\ call \in Made <=> replies[call] = "done before"
            /\ replies[call] = "conflict" =>
                 \E c \in Made \cup DOMAIN replies : c # call /\ Key(c) = Key(call)
  /\ version = 0 => events = << >>
=============================================================================
