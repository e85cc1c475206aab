------------------------------- MODULE Budgets -------------------------------
(***************************************************************************)
(* The budgets of inferrail/budgets: what a budget is, which requests it   *)
(* covers and where its window starts.  Definitions only; the stores and   *)
(* the gateway that use them are in BudgetAdmission.                       *)
(***************************************************************************)
EXTENDS Money

CONSTANTS
  None,        \* Python's None: no attribute, no price, no cost, no limit
  BudgetIds,   \* the (scope, scope_value, window) triples in play
  LastDay,     \* bound of the calendar: days 0 .. LastDay
  MonthStart   \* the first day of the month of each day

Days == 0 .. LastDay

(***************************************************************************)
(* A budget id is deterministic in scope, value and window, so the triple  *)
(* stands for it; ids sort by scope, then value, then window.  No request  *)
(* matches two values of a scope.                                          *)
(***************************************************************************)
Scopes  == {"global", "project", "work_id"}
Windows == {"daily", "monthly", "per_work"}

ScopeOrder  == [global |-> 0, project |-> 1, work_id |-> 2]
WindowOrder == [daily |-> 0, monthly |-> 1, per_work |-> 2]

SortKey(b) == 3 * ScopeOrder[b.scope] + WindowOrder[b.window]

Modes == {"warn", "block"}
NoRow == [mode |-> "none", limit |-> 0]
Row   == [mode : Modes, limit : Nat]

ASSUME NoneAssumption == None \notin Nat

ASSUME CalendarAssumption ==
  /\ LastDay \in Nat
  /\ MonthStart \in [Days -> Days]
  /\ \A d, e \in Days : d <= e => MonthStart[d] <= MonthStart[e]

ASSUME BudgetIdAssumption ==
  \A b \in BudgetIds :
    /\ b.scope \in Scopes
    /\ b.window \in Windows
    /\ b = [scope |-> b.scope, value |-> b.value, window |-> b.window]
    /\ b.scope = "global" => b.value = None
    /\ b.window = "per_work" => b.scope = "work_id"

-----------------------------------------------------------------------------
(***************************************************************************)
(* A request is attributed to a project and a work_id, either possibly     *)
(* absent.  A global budget covers every request.                          *)
(***************************************************************************)
Covers(b, project, work) ==
  \/ b.scope = "global"
  \/ b.scope = "project" /\ project # None /\ b.value = project
  \/ b.scope = "work_id" /\ work # None /\ b.value = work

(***************************************************************************)
(* The first day a budget's window counts when it is read on a given day:  *)
(* a per_work budget has no time boundary.                                 *)
(***************************************************************************)
WindowStart(b, today) ==
  CASE b.window = "daily"    -> today
    [] b.window = "monthly"  -> MonthStart[today]
    [] b.window = "per_work" -> 0

PerWorkBudget(work) == [scope |-> "work_id", value |-> work, window |-> "per_work"]
=============================================================================
