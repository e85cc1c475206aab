----------------------------- MODULE SpendLedger -----------------------------
(***************************************************************************)
(* What budget enforcement promises, without databases, locks or places:   *)
(* a ledger in which an attempt is admitted in one step, for a charge that *)
(* every block budget covering it has room for, and in which a charge only *)
(* falls afterwards.  BudgetAdmission is shown to implement it.            *)
(***************************************************************************)
EXTENDS Budgets

CONSTANTS
  Attempts,    \* a finite set
  Reserve,     \* the charge each attempt is admitted for (Nat); None: unpriced
  Covered      \* Covered[b]: the attempts that budget b covers

VARIABLES
  rows,        \* the budget rows
  charge,      \* what each attempt counts for
  since,       \* the day it was admitted, if for a charge
  admitted,    \* the attempts admitted since each row was last set or created
  day

vars == <<rows, charge, since, admitted, day>>

InWindow(b) ==
  {a \in admitted[b] : since[a] = None \/ since[a] >= WindowStart(b, day)}

Charged(b) == Total(charge, InWindow(b))

Init ==
  /\ rows \in [BudgetIds -> Row \cup {NoRow}]
  /\ charge = [a \in Attempts |-> 0]
  /\ since = [a \in Attempts |-> None]
  /\ admitted = [b \in BudgetIds |-> {}]
  /\ day = 0

\* The budgets a row exists for, among those that cover attempt a.
Binding(a, table) == {b \in BudgetIds : table[b] # NoRow /\ a \in Covered[b]}

Enrol(a, S) ==
  admitted' = [b \in BudgetIds |-> IF b \in S THEN admitted[b] \cup {a} ELSE admitted[b]]

\* Rows that an admission creates are new, and are there to bind it.
Creates(a, table) ==
  /\ table \in [BudgetIds -> Row \cup {NoRow}]
  /\ \A b \in BudgetIds : table[b] # rows[b] => rows[b] = NoRow /\ a \in Covered[b]

AdmitForCharge(a) ==
  /\ since[a] = None /\ Reserve[a] # None
  /\ Creates(a, rows')
  /\ \A b \in Binding(a, rows') :
       rows'[b].mode = "block" => Charged(b) + Reserve[a] <= rows'[b].limit
  /\ charge' = [charge EXCEPT ![a] = Reserve[a]]
  /\ since' = [since EXCEPT ![a] = day]
  /\ Enrol(a, Binding(a, rows'))
  /\ UNCHANGED day

AdmitFree(a) ==
  /\ since[a] = None
  /\ \A b \in Binding(a, rows) : rows[b].mode = "warn"
  /\ Enrol(a, Binding(a, rows))
  /\ UNCHANGED <<rows, charge, since, day>>

\* What is charged once the attempt's outcome is known: never more.
SettleCharge(a) ==
  /\ charge'[a] \in 0 .. charge[a]
  /\ charge' = [charge EXCEPT ![a] = charge'[a]]
  /\ UNCHANGED <<rows, since, admitted, day>>

SetRow(b) ==
  /\ rows'[b] \in Row \cup {NoRow}
  /\ rows' = [rows EXCEPT ![b] = rows'[b]]
  /\ admitted' = [admitted EXCEPT ![b] = {}]
  /\ UNCHANGED <<charge, since, day>>

NextDay ==
  /\ day < LastDay
  /\ day' = day + 1
  /\ UNCHANGED <<rows, charge, since, admitted>>

Next ==
  \/ \E a \in Attempts : AdmitForCharge(a) \/ AdmitFree(a) \/ SettleCharge(a)
  \/ \E b \in BudgetIds : SetRow(b)
  \/ NextDay

Spec == Init /\ [][Next]_vars

(***************************************************************************)
(* What is charged in a block budget's window stays within its limit.      *)
(***************************************************************************)
ChargedWithinLimit ==
  \A b \in BudgetIds : rows[b].mode = "block" => Charged(b) <= rows[b].limit
=============================================================================
