# Verification of Inferrail

TLA+ models of the parts of this repository that decide what is paid for, what is retried
and who answers for it, with TLC runs on small instances and theorems that TLAPS checks for
every instance. All paths are relative to the repository root; `src/inferrail/...` is the
library, `hosted/...` the services built on it.

1. [The system](#1-the-system)
2. [The modules and the plan](#2-the-modules-and-the-plan)
3. [Budget enforcement](#3-budget-enforcement)
4. [Recovery of invoice exceptions](#4-recovery-of-invoice-exceptions)
5. [The economic authority](#5-the-economic-authority)
6. [The hosted services](#6-the-hosted-services)
7. [The smaller parts of the library](#7-the-smaller-parts-of-the-library)
8. [Runs](#8-runs)
9. [What is proved](#9-what-is-proved)
10. [Where the code and its documents differ](#10-where-the-code-and-its-documents-differ)
11. [What is not modelled](#11-what-is-not-modelled)

## 1. The system

Inferrail is a gateway in front of LLM providers that enforces budgets and writes a receipt
for every request, a library that recovers invoice exceptions, and a set of hosted services
that sell small pieces of work. All of it is Python, almost all of its state is in SQLite
files, and the files are shared: by the processes of a gateway, by the worker threads of a
service, by the operator's command line. So the unit of interleaving is the transaction, and
within one process the stretch between two `await`s.

| component | state | operations | interacts with | what is hard | what makes it correct |
|---|---|---|---|---|---|
| Budget enforcement (`budgets/`) | tables `budgets`, `budget_reservations` | reserve, release, hold, set, remove | receipts store (another file), the engines | check-then-act over two databases, several processes, retries, crashes, a day that ends | a block budget is never overspent by what was admitted under it; nothing billed is forgotten |
| Gateway execution (`gateway/`) | a request's attempt, its reservation | execute with retries, stream, settle | enforcement, provider, receipts | cancellation, timeouts that may have billed, streams dropped before their first item | one receipt per request, which says what it left held; every request ends |
| Receipts store (`receipts/`) | table `receipts` | emit, sum a window | enforcement | read while others write | a cost is counted once, in its window |
| Recovery of invoice exceptions (`ap/`) | `decisions`, `retry_attempts`, `handoffs`, `review_outcomes`, `late_retry_results` | decide, ensure_handoff, reap, record_outcome, delete | customer's retry adapter, validator, hand-off callback | workers that die, leases that expire under a living worker, results that come late | one paid retry per case, whose result is kept; every case ends resolved or in front of a human |
| Economic authority (`hosted/a2a_economic_authority/core.py`, `executor.py`) | `delegations`, `economic_events` | create_root, reserve, grant, consume, settle, revoke | capabilities, sessions | replayed events, revocation of a subtree in use, unknown costs | authority is conserved over the tree; nothing is spent after a revocation |
| Its credentials and sessions (`capabilities.py`, `sessions.py`) | `capability_tokens`, `reservation_authorizations`, `session_purchases`, in-memory claims | purchase, mint, claim, rotate, recover | core, payment facilitator | a crash between payment, root and credential | one session per payment, at most one live credential |
| Hosted gateway workspaces (`hosted/budget_gateway/`) | `workspaces`, `governed_runs`, `credit_grants`, `credit_reversals`, `pending_purchases`, `refund_proofs` | hold_run, finish_call, grant, apply_refund, settle/fail/reconcile pending; the operator's report | checkout webhooks, settlement hooks, the chain, the operator's commands | last free run, webhooks twice or out of order, orphaned holds, a settlement that races the clock | a run is billed once; nobody overspends; a charge is never written off that can still land; the report adds up |
| Job-safe search (`hosted/job_safe_search/`) | `jobs`, `purchases`, `events`, `payment_observations`, `aliases` | quote, settle, finality, supplier call, recovery; the metrics | chain, supplier | a crash around the paid supplier call, two recoverers | the supplier is paid at most once per purchase; a settled payment ends in a result or a liability |
| Web read (`hosted/web_read/`) | `reads`, the rail's replay store | deliver, settle, recover | two payment rails | a retry while the first payment settles | no payer charged twice for a page they can recover |
| Work economics seller (`hosted/work_economics/`) | `purchases` | quote, pay, execute | x402 middleware | paid but not executed, requests for one id that cross | every charge is answered; one execution per purchase id |
| Cost gateway (`hosted/cost_gateway/`) | keys in memory, a registry of trials, tenant files | issue, submit key, use, end, sweep | the engine | a purge under a running request | a key dies with its trial |
| AP exceptions service (`hosted/ap_exceptions/`) | the recovery store of a tenant | the operations of `ap/` over HTTP, reap, erase | clients that retry | a response lost, a repeated request after a crash | what was answered is on record |
| Usage ping (`usage_ping/`, `hosted/usage_ping/`) | a state file, an install id; `installs`, `events` | send once, send daily, switch | - | threads and processes rewrite one file without a lock | a switched-off ping stays off unless a writer crossed it |
| Metering (`receipts/calculator.py`, `pricing/`, `providers/`, the engines' stream readers) | buffers of a stream | price, estimate, read usage as bytes pass | provider | chunks cut anywhere, cumulative counts, tiers and cache rates | a receipt says what arrived and what it cost |
| Receipts, summaries, local API (`receipts/`, `work/`, `transactions/`, `localapi/`) | table `receipts`, an outcome file | emit, import, tail, page, summarize | dashboard | receipts stored out of the order of their stamps | nothing counted twice, readers miss only what came late |
| Batch analysis and live report (`ap/batch.py`, `ap/report.py`) | - | ingest, judge, compare; read a case's tables | the recovery store | rows twice and corrected; tables read one after the other | no hindsight; a cost called complete is the cost |
| Opening of old stores (six SQLite stores) | columns, a schema version | migrate | other processes | two that migrate at once, one killed half-way | a store that is open has what its version needs |

`PROJECT.json` lists every component with its files and status, and under `hazards` each
place where this code could go wrong in a way a test would hardly reach, with the properties
that watch it.

## 2. The modules and the plan

| modules | what they model | checked by | proved in |
|---|---|---|---|
| `Budgets`, `BudgetAdmission`, abstract `SpendLedger`, `Money` | budget enforcement, the engines, the receipts | `MCBudgetAdmission` | `BudgetAdmissionProofs` |
| `RetryRecovery` | recovery of invoice exceptions | `MCRetryRecovery` | `RetryRecoveryProofs` |
| `EconomicAuthority` | the tree of delegations and its revocation | `MCEconomicAuthority` | `EconomicAuthorityProofs` |
| `Credentials` | tokens, sessions and recoveries of that authority | `MCCredentials` | `CredentialsProofs` |
| `SearchPurchase`, `SearchMetrics` (extends it) | job-safe search and what its operator is told | `MCSearchPurchase`, `MCServices` | `SearchPurchaseProofs` |
| `Hosted`, `HostedReport` (extends it) | Inferrail Hosted and what its operator is told | `MCHosted` | `HostedProofs` |
| `TrialTenants`, `PageSale`, `CaseService`, `WorkSale` | the other hosted services | `MCServices` | `ServicesProofs` |
| `UsagePing` | the ping and its collector | `MCServices` | `ServicesProofs` |
| `Exchange`, `StoreOpening`, `BatchAnalysis`, `RetryCosts` | the smaller parts of the library | `MCServices` | `ServicesProofs` |
| `ReceiptBook` | the store of receipts and its readers | `MCServices` | `ServicesProofs` |

Where two components meet, one model holds both or states what it takes from the other.
`BudgetAdmission` composes enforcement, engine and receipts. `Hosted` takes from it only
that a call is answered or not; `Credentials` takes from `EconomicAuthority` only that a
reservation fits its parent or does not; `RetryCosts` and `CaseService` look at the store of
`RetryRecovery` with, respectively, costs and a network; `SearchMetrics` and `HostedReport`
extend the model whose tables they read. The ten parts that `MCServices` puts together share
no state in the code either, so a behaviour of `MCServices` is one of one part, and their
state spaces add up instead of multiplying.

What is left, in order of what a mistake would cost:

1. a proof about the summaries of `ReceiptBook`, that the parts add up to the whole
   (`EvidenceAddsUp`, a conjunct of `StoresAreSound`);
2. one model of `Exchange` and `BudgetAdmission` together, in which the cost of an attempt
   is computed and not chosen: the theorem about the one is the hypothesis of the other;
3. hand-off references over HTTP, and paying tenants, in `CaseService`; the restore of an
   export, in `ReceiptBook`.

## 3. Budget enforcement

### Modules

| module | what it is |
|---|---|
| `Money` | `Total(f, S)`, the sum of `f` over a finite set, defined without recursion (as the number of coins in the piles `f[x]`, `x \in S`), and `Product(f, S)`, with the lemmas about sums, multiplication and rounding that the proofs use |
| `Budgets` | budgets, their scope, window and mode, the order in which they are checked, the start of a window (`budgets/schema.py`, `matching_budgets`, `_window_start`) |
| `BudgetAdmission` | requests of several gateway processes over the two databases |
| `SpendLedger` | what enforcement promises, in one step per admission |
| `BudgetAdmissionProofs` | the proofs |
| `MCBudgetAdmission` | the small instances |

### State

| variable | in the code |
|---|---|
| `budgets` | table `budgets` (`budgets/store.py`): mode and limit of each id; `NoRow` without a row |
| `rsv`, `since` | table `budget_reservations`: absent, active or held; `created_at`, as a day |
| `receipt` | table `receipts` (`receipts/sqlite_store.py`): status, cost, day of emission, `budget_held_usd`, `budget_overrun_usd` |
| `lock` | SQLite's write lock on the budgets file, from `BEGIN IMMEDIATE` to commit or rollback |
| `day` | the UTC clock, in days; `MonthStart` maps a day to the first of its month |
| `pc`, `attempt`, `todo`, `spent`, `fault`, `answer`, `overrun`, `held` | the local variables of `_execute_with_retries`, `_iter_stream`, `reserve` and `augment_overrun` |
| `billed`, `admitted` | not in the code: what the provider bills for each attempt, and which attempts a budget row has admitted. No guard reads them |

### Actions

`reserve` (`budgets/enforcement.py:240-322`) is not one step. `BeginChecks` starts the
transaction and applies the per-run declaration; then, budget by budget in the code's order,
`ReadSpent` reads the receipts database, which the transaction does not lock, and
`PassBudget` or `RefuseOverBudget` reads the reservations and decides; `CommitReservation`
inserts and commits. `AdmitUnmetered`, `RefuseUnpriced` and `RefuseDeclaration` are its
early ends. Between any two of these, other processes write receipts and wait for the lock.

After admission, `Answered`, `Fail`, `OpenStream`, `IterateStream`, `EndStream` are the
provider call with each way it can end (the faults of `providers/base.py`);
`SettleFailedAttempt`, `EmitFailure`, `AugmentOverrun`, `HoldUnpriced`, `EmitReceipt`,
`ReleaseReservation` are the settlement in the order of `gateway/budget_admission.py`.
`CancelBackoff`, `DiscardStream`, `StoreTimeout` and `Crash` are what can happen to a request
at any of its waits: the task is cancelled while it sleeps before a retry, the server drops
a streaming response before pulling its first item, the busy timeout of 30 s expires, the
process dies. `SetBudget` and `RemoveBudget` are the command line's writes from
another process and `Tick` is midnight.

`LoopFree` is the event loop: a process admits one request at a time because `reserve` has no
`await`, and this is also where the code is safe within a process without the lock.

### Abstractions

- Dollars are small natural numbers and an estimate is a constant of a request. That the
  estimate bounds the cost is the assumption `EstimateIsUpperBound` here; when the code's
  estimate does so is `ReservationCovers` of `Exchange` ([section 7](#7-the-smaller-parts-of-the-library)).
- A receipt's day is the day of its emission; the code stamps the receipt at its start of
  emission, in the same step.
- `AugmentOverrun` reads all matching budgets in one step. Several reads could only see more
  receipts.
- A request that has not begun its admission is not counted as running; a crash restarts it
  in the process that replaces the dead one.
- The Anthropic engine has the same control flow as the OpenAI one and is the same actions.
- Simulated requests make no reservation and their receipts do not count; they are left out.

### Properties

`AdmittedSpendWithinLimit`: what was admitted under a block budget never exceeds its limit.
`MoneyAlwaysAccounted`: what a provider billed is on a receipt or still reserved.
`RunBudgetsAgree`: requests that declare a limit for one run agree on it (`DeclarationsAgree`),
and a refused one leaves no budget behind (`RefusalLeavesNoRow`). `ReceiptTellsAll`: a
request that ended has one receipt (`OneReceiptPerRequest`), and what stays held is on it
(`HeldIsReported`). `RequestsSettle`, under fairness: every request ends (`EveryRequestEnds`)
and no reservation stays active without its request (`ReservationsSettle`).
`ImplementsLedger`: seen through its mapping, `BudgetAdmission` is `SpendLedger`, where a
request is admitted in one step against the exposure of all its budgets.

## 4. Recovery of invoice exceptions

`RetryRecovery` has one call of `decide` or `ensure_handoff` per member of `Calls`, in any
number of workers, and the store between them. Every transaction of `ap/store.py`, every
call of the customer's adapter or callback, and every computation between two of them is a
step.

| variable | in the code |
|---|---|
| `status` | `decisions.status`; "none" without a row |
| `lease` | `decisions.retry_lease_expires_at`: none, in the future, or in the past |
| `attempt` | the row of `retry_attempts` (one per case, by primary key): who recorded it and its result |
| `late` | rows of `late_retry_results` |
| `handoff` | `handoffs.handoff_ref`, as the call whose send it acknowledges |
| `pc`, `verdict`, `ref` | the locals of `decide`, `_execute_retry` and `_do_handoff` |
| `invoked`, `sent` | not in the code: which calls have reached the paid adapter, and which sends the reviewers have received |
| `mishaps`, `deleted` | the bound on crashes and deletions, and the cases that were deleted |

| action | code |
|---|---|
| `GetDecision`, `ReplayDecision`, `CreateReview`, `CreateRetry` | `decide` (`ap/engine.py:92-181`) with `create_decision`, which looks again inside its transaction |
| `InvokeAdapter`, `AdapterEnds`, `RecordAttempt`, `AttemptTaken`, `RecordLate`, `SetStatus`, `ClearLease` | `_execute_retry` (`engine.py:183-318`), four transactions |
| `EnsureHandoff`, `GetHandoff`, `SendHandoff`, `SendFails`, `RecordHandoff` | `ensure_handoff`, `_do_handoff` (`engine.py:320-342`, `430-469`) |
| `ReapStaleRetry`, `LeaseExpires` | `reap_stale_retry_lease` (`ap/store.py:344-442`) |
| `RecordOutcome`, `DeleteCase`, `StoreRefuses` | `record_outcome`, `delete_work_id`, the foreign keys |
| `Crash`, `Again` | a worker dies or a plug-in raises; the operator's job calls `ensure_handoff` again |

What the policy recommends and what the validator finds are choices. An adapter that raises
leaves an outcome nobody knows (`ambiguous`), as in the code; a validator or a store that
raises ends the call (`Crash`). The attempt ids of two calls are different, as the adapters'
contract asks. Costs, confidences, histories and the text of outcomes are not carried.

`RecoveryIsSafe` is the conjunction of `TypeOK` and the seven safety invariants that
section 9 lists with their theorems: a case is retried once, its status agrees with the
recorded attempt, no result is lost, a retry in progress has a lease, a validated case is not
sent to review, a case is handed off once, and a recorded hand-off was received.
`AttemptIsFinal` is about steps: a recorded attempt is never overwritten, by the reaper, by
a worker that was thought dead or by a second decision. `RecoveryEnds`, under fairness: retries end, and every review is
handed off.

Most properties speak of cases that were not deleted (`Kept`): a case that is deleted
and decided again is a new case to the store, and is promised a retry of its own.
`AttemptIsFinal` and `HandoffWasSent` hold for deleted cases too.

## 5. The economic authority

An orchestrating agent holds a root delegation and reserves parts of it for agents that work
for it, who may do the same. `EconomicAuthority` is the store that keeps these books
(`hosted/a2a_economic_authority/core.py`) and the revocation that the executor runs over
them (`executor.py:724-784`).

| variable | in the code |
|---|---|
| `parent`, `state`, `authority`, `consumed`, `reserved`, `released`, `unknown`, `revoking` | the row of a delegation in table `delegations`; `state` is whether there is one and whether it is active |
| `log` | table `economic_events`: the canonical payload of each event, by delegation and event id |
| `withdrawn` | the delegations whose rows of `capability_tokens` `revoke_for_delegations` has passed over |
| `pc`, `target`, `subtree`, `todo`, `current` | the locals of each call of `_do_revoke` |
| `crashes` | the bound on calls that die |

`CreateRoot`, `Reserve`, `Grant`, `Consume` and `Settle` are the operations of the store, one
transaction each. An operation that is refused, or whose event is known already, changes
nothing and is left out; what is answered to a repeated `reserve` is `AnswerToDuplicate`.
A revocation is `MarkRevocationStarted`, `FindSubtree`, then `LookAt` and `SettleCurrent` for
each delegation, then `RevokeTokens`, each a transaction; `SettleCurrent` meets what another
revocation has settled meanwhile, maybe with another outcome (`Conflicts`). Within one
server process nothing comes between these steps, as `_do_revoke` does not `await` there;
other processes do, which the store's class docstring (`core.py:273`) provides for.

Abstractions:

- Amounts are integers, negative ones included, and the store refuses what the code refuses.
  Agents' names are left out, and so are authorization and credentials, apart from
  `withdrawn`.
- The tree is read in several transactions; the model reads it in one. Under the mark
  nothing can be added to it, which is what `RevokedIsDead` shows and its proof uses.
- The order of settlement, leaves first, is any such order.
- A busy timeout in a revocation ends its call: it is a `Crash`, after which the caller
  calls again.
- Claims of new credentials are kept in memory and purged at the end; they are in
  `Credentials`.

`BooksAreSound` is `TypeOK`, `Satisfied` (known spend and reservations fit in the authority,
and nothing is negative) and `BooksBalance` (what a delegation has reserved is what its
active children may spend and its settled ones neither spent nor gave back). `LogTellsAll` is
`EveryDollarOnce` (every dollar of the roots is spent by one event or in the headroom of one
delegation) and `LogAgrees` (the rows are what the log says, each event counted once).
`RevokedIsDead`: after a completed revocation nothing in the subtree is active.
`SettledIsFinal`: a settled row does not change. `RevocationCompletes`, under fairness.

## 6. The hosted services

### Credentials of the authority (`Credentials`)

`purchase`, `token` and `binding` are the tables `session_purchases`, `capability_tokens`
and `reservation_authorizations`; `parent`, `state` and `revoking` are the authority's rows
without amounts; `claims` and `parked` are what the process keeps in memory (handoffs
that wait to be redeemed, tasks that wait for a grant), and `call` is the handler that
runs. One process serves everybody and a handler does not `await` between its
transactions, so the others wait; but the process may die between two of them
(`Restart`). `token` also carries, for the properties, to whom each plaintext was told; a
response that is lost tells nobody.

`CreateSession`, `RecoverSession`, `CreateRoot`, `IssueRoot`, `MintRoot` are `sessions.py`;
`Reserve`, `ReserveCore`, `MintChild`, `Recover`, `ContinueAfterGrant`, `Redeem`, `Settle`,
`Grant`, `Revoke` and its two later steps are the skills of `executor.py` over
`capabilities.py`. `TokenExpires` and `ClaimExpires` are the clock.

Whether a reservation fits is a choice here. Of a delegation's authority the model keeps whether
a grant has raised it (`raised`, at most `MaxRaised` of them): from then on `create_root` and
`reserve` raise `EventConflict` where they would have answered again, so `CreateRoot` ends the
handler and `RecoverCredential` is refused. Left out: a root issued directly by the operator,
delegations from before bindings were kept, and the payment that settled when the process died
before its row was inserted, which the code documents as a gap.

### Job-safe search (`SearchPurchase`, `SearchMetrics`)

`purchases`, `committed`, `aliases`, `observed` and `extra` are the tables; `chain` says what
became of each signed authorization, `supplied` how often the supplier was called. `Call` is
a buyer's request up to its first await (repeat, cache, blocked, over budget, new);
`Advance` is `advance` of `service.py`, state by state, where every answer of the
facilitator, the chain or the supplier may be yes, no, or unknown; `Reconcile` deals with a
payment that came with a purchase it cannot pay for; `Recover` is the loop over rows and
observations; `Restart` is `prepare_recovery`; `Operate` are the operator's corrections.
`recovers` is whether `SEARCH_RECOVERY_FROM_BLOCK` is set: without it, which only a
testnet deployment may do, nothing is searched for on the chain, the loop does nothing, and
the service starts only with nothing open (`MayStart`). `Verify` may reject a purchase on
the facilitator's answer alone, when it names another payer or, without a block to recover
from, when it says no; `unproven` marks such a purchase for the properties, which promise
nothing of its payment (`Overlooked`): see [section 10](#10-where-the-code-and-its-documents-differ).
A conditional update that finds the row moved on changes nothing (`Moves`), as in the
store. `SearchMetrics` is `metrics.report` on one snapshot.

Whether a token or a cached result has expired is a choice. A settlement that names a
transaction which then failed is `tx = "failed"`.

### Inferrail Hosted (`Hosted`, `HostedReport`)

`runs`, `grants`, `reversals`, `pending`, `proofs` are the tables of `workspaces.py`;
`req` is where each handler is (its provider called, its stream read, its settlement out),
`pass` what a reconciliation, of the server's loop or of an operator's command, has read
and asked the chain. Outside are the chain (`used`, `valid`, `sent`) and Stripe
(`session`, `wire`, whose events may come twice and in any order). An operator's commands
are processes of their own on the same file. `unread` counts the calls whose stream
nobody began to read: their hold is closed by a generator that never runs, and stays until
the next start (`release_orphaned_holds`); `HoldsHaveCalls` says exactly that.

A refused request (no key, no allowance, a sales limit) changes nothing and is left out.
The daily cap of sales, rate limits, `usage_events`, the funnel and retention are left out.
Both rails sell packs of one size at one price. That a facilitator which says "not settled"
has not settled is taken from it, as the code does (but see `FailedWasNotCharged` in
[section 10](#10-where-the-code-and-its-documents-differ)).

### Trials of the cost gateway (`TrialTenants`)

`tenants` is `TrialRegistry._tenants` with its expiry, `vault` and `keyedAt` the provider
keys in memory, `disk` the files. `AuthenticateTrial` runs in a worker thread, the handlers
that it lets in (`SubmitKeys`, `DeleteKeys`, `EndTrial`, `Consult`, `Proxy`, `Proxied`) later on
the loop, and `Sweep` or `EndTrial` of another request come between. `SweepRaises` is a file
that cannot be deleted; it ends that sweep. `strays` collects the trials that left the
registry while a request of theirs was under way or in a sweep that failed, for which the
property promises nothing.

### Pages (`PageSale`)

`reads` is the ledger, `inFlight` the locks of `exclusive`, `claimed` the rail's replay store,
`owed` the refunds due. `Arrive`, `Enter`, `Fetched`, `NotFetched`, `Settle`, `SettleFails`,
`RecordSale` are the stretches of a request between its awaits on either rail; x402's
middleware verifies before and settles after the handler, MPP's handler does both.
`PageCrash` loses the locks and what was under way. `again` remembers a payment
charged for a page its payer could still recover.

### Invoice exceptions over HTTP (`CaseService`)

The recovery store again, but the client makes the retry: `run` is the documented
walkthrough in each client, which may die or lose the response to any of its requests
(`Responds`), and be run again. A handler is one step, except for the death of the service
between the two transactions of a posted attempt (`PostAttemptDies`). `PurgeSandbox` deletes
a sandbox's file after its key and a grace that outlasts every request. Paying tenants,
and hand-off references, are not modelled.

### Work economics (`WorkSale`)

`purchases` is the durable store; `Verify`, `CreateQuote`, `RecordPayment`, `ExecuteOnce`,
`Refuse`, `SettleSale`, `SettleSaleFails` are the x402 middleware around the handler's three
transactions. Two processes may share the file. The computation (`Economics`) is over a
sequence of costs, some unknown or malformed.

## 7. The smaller parts of the library

- **`UsagePing`.** The state file is read, changed, and replaced through one temporary file
  that all writers share, with no lock: a call is `LoadSeeds`, `CheckSwitch`, `MarkSent` or
  `Switch`, `OpenTmp`, `WriteTmp`, `MoveTmp`, then the install id and the post. A writer
  empties the temporary file as it opens it and writes to it wherever another has moved it
  meanwhile (`holds`, `Shifted`), so a file may be empty, or mixed of two writers' texts;
  what does not parse is read as never configured (`ReadState`), on wherever no default
  is given. `optedOut` marks a disable that crossed no other writer, until two writers cross
  at the file: for that one `OptOutHolds` promises that the file stays whole and off, and that
  no later write turns the ping on. The collector stores an event and the activation of its
  install in one transaction (`Collect`).
- **`Exchange`.** One request through either engine: what it reserves (`EstimateUpperBound`),
  its attempts, the bytes it forwards, the usage it reads as they pass (`Feeds`, the
  bookkeepers of both engines) and the receipt it leaves. A chunk may end anywhere, also
  inside a blank line, with LF or CRLF line ends. An event is one symbol that carries usage
  fields. `Cost` is the calculator's formula in integers, a millionth being a constant.
- **`ReceiptBook`.** Receipts are stamped (`Stamp`) before they are stored (`Emit`), so the
  order of the table is not that of the stamps; an import of a JSONL file goes row by row
  and may be killed and begun again. `tail` is the SSE tail, `pager` a client that lists page
  by page, `late` the receipts stored after one with the same stamp or a later one. The
  summaries by work item, by transaction and of everything are operators over the rows.
- **`StoreOpening`.** Processes that open a store an older version left: the AP store tries each
  ALTER TABLE and ignores its error, the others look first, the authority rebuilds its events
  in one transaction (`Migrate`). Any of them may be killed between two statements. `Call` is
  a call repeated, or made anew, on the migrated authority: `create_root` and `reserve` answer
  from the delegation's row (`FitsRow`), so a creation whose delegation a grant has raised
  since is in conflict; the others from the migrated events (`Reply`).
- **`BatchAnalysis`.** Rows of an export come in any order and again; `Records` joins them,
  `RecommendBatch` asks a policy what it would have done at the first attempt, `Evaluate`
  compares it with what was done, `Summary` adds up. `RecommendLive` is the live policy.
- **`RetryCosts`.** The engine authorizes, calls and records a retry; the lease may run out, a
  reaper and reviewers come meanwhile; a report reads four tables one after the other.

## 8. Runs

| run | instance | asks |
|---|---|---|
| `BudgetRace` | three requests with one retry each on two processes, one of them unpriced; a run's budget, a daily one the operator moves between block and warn, a project's monthly one; declared limits 4, 3 and none; two days | `TypeOK`, `AdmittedSpendWithinLimit`, `RunBudgetsAgree`, `ImplementsLedger` |
| `BudgetRetries` | two requests with one retry each, one a stream, on two processes; a run's budget of 3 that is not there at first | `MoneyAlwaysAccounted`, `ReceiptTellsAll`, and under fairness `RequestsSettle` |
| `RetryRecovery` | one case, two decides, one recovery job, one crash or deletion | `RecoveryIsSafe`, `AttemptIsFinal`, and under fairness `RecoveryEnds` |
| `EconomicAuthority` | three delegations, small amounts, a negative one and unknown, two event ids, one revocation, one crash | `BooksAreSound`, `LogTellsAll`, `SettledIsFinal` |
| `Revocation` | three delegations, amount 1 and unknown, one event id, two revocations with different outcomes, one crash | `RevokedIsDead`, and under fairness `RevocationCompletes` |
| `Credentials` | one session, a chain of two children, three tokens of each, one fault, one parked task, one delegation raised by grants | `CredentialsAreSound`, `RevokedStaysDead`, `RetriesEndNothing`, and under fairness `SessionRecovered` |
| `Search` | two requests of one query and job with a budget for two, two payments, a call and the loop, a block to recover from or none, one restart | `JobsAreSound`, `SupplierPaidOnce`, `SettledIsAccounted`, `BooksMatchTheChain` |
| `HostedRuns` | an external and an internal workspace, two works, two requests, one card payment, two months, one crash, one unread stream | `RunsAreSound`, `CreditsAreSound`, `ReportAddsUp`, `BilledForGood` |
| `HostedSales` | two requests, one signed authorization, two refund transactions, the loop and an operator, one crash | `ChargesAreSeen`, and under fairness `ChargeIsDecided` |
| `Services` | the ten parts of `MCServices`, each with an instance of its own | `StoresAreSound`, `KeysDieWithTheirTrial`, `ARetryIsFree`, `AnsweredIsOnRecord`, `PaidForAnAnswer`, `PingIsHonest`, `CallIsMetered`, `BatchIsFair`, `CompleteCostsAreTrue`, `NoHindsight` |
| `ServicesSettle` | trials, pages, cases and searches | under fairness `ServicesSettle` |
| `SaleChargedTwice` | one purchase id, two payments, two requests | `ChargedOncePerPurchase`: **violated** |

All but the last hold. Every property of a passing run has a mutant in `PROJECT.json`: a
plausible error in the code's line that the run does find.

Five further configurations are kept for the disagreements of section 10. Each is
violated within a short trace:

| configuration | module | violates |
|---|---|---|
| `BudgetOverrunTwoProcesses.cfg` | `MCBudgetAdmission` | `OverrunIsRecorded` |
| `BudgetRollover.cfg` | `MCBudgetAdmission` | `RecordedSpendWithinLimit` |
| `BudgetInterrupted.cfg` | `MCBudgetAdmission` | `InterruptedIsNotSuccess` |
| `RetrySentTwice.cfg` | `MCRetryRecovery` | `SentOnce` |
| `DuplicateReserve.cfg` | `MCEconomicAuthority` | `DuplicateReserveIsSafe` |

**Why these bounds are enough to be interesting.** A race for a budget needs two processes
and a limit that fits one of two requests; a refusal that would leave a row needs a request
refused after its run's budget was inserted, hence the declared limits; windows need a day
that ends. A retry needs one attempt that may have billed and one that ends well. Cases of
the recovery store do not interact, so one case with several calls is the interesting
instance, and one mishap leaves each of a worker's four transactions undone. Three
delegations make a chain or two siblings: a child that settles into a parent that settles
into its own; since event ids bound what can happen to a delegation, amounts and histories
need no bound of their own. For credentials, a chain of two children has a token that
authorizes one that authorizes another, and three tokens of each are a first one, its
successor and one more; one delegation that grants raise is the root of the session, or a
child that is to be recovered. For a search, two requests of one query race for one purchase, and
the payment of the loser is the extra one. A hosted workspace needs one free run, one pack of
one run, and two works to be one too many; two months are one in which a call is admitted
and another in which it ends. A sale needs the server's loop and an operator to reconcile
the same row. Trials, readers, clients and buyers of `Services` come in twos.

**Fairness.** `BudgetAdmission!FairSpec` asks weak fairness of each request's own steps: the
event loop goes on, each wait for a provider, client or lock ends by a timeout the
configuration sets, and the holder of the lock is itself such a request. Nothing is asked of
crashes, cancellations, the operator or the clock.
`RetryRecovery!FairSpec` asks weak fairness of each call, that leases expire, and that the
operator runs the reaper and `ensure_handoff` again and again, as
`docs/capabilities/ap-invoice-exception-recovery.md` tells it to; and strong fairness of a
successful send, since a callback that always raises can never hand anything off.
`EconomicAuthority!FairSpec` asks that a revocation which runs goes on, and that the caller of
one that died or was refused calls again, as `core.py:71-75` tells it to.
`Credentials!FairSpec` asks that a handler that runs goes on and that a buyer without a
credential asks for it again, strongly, because others' handlers come between.
`Hosted!FairSpec` asks that a server that is down is started (its supervisor), that the
reconciliation loop begins passes and decides rows, and, strongly, that the chain is not
unreachable for ever.
`MCServices!ServicesFairSpec` asks that the sweep of the trials is called (its loop survives a
failing sweep); that every await of a reader ends and locks are fair (`asyncio.Lock` is first
come, first served); that leases run out and the sweep of the cases runs; and
`SearchPurchase!Fairness`, that the loop runs and comes to every row, and that an endpoint
asked again and again is not down, nor behind, for ever.

**Deadlock** is checked in the budget and recovery runs, which have an explicit end.
The other systems stop when their bounded supply of events, payments, months or receipts
is used up and say so (`CHECK_DEADLOCK FALSE`).

## 9. What is proved

Every theorem holds for any sets of requests, processes, budgets, cases, delegations,
payments, jobs, trials and clients, any amounts, and any number of retries, days, crashes,
restarts and repeated or lost messages. Below, a name alone stands for `Spec => []name`
(`CaseSpec`, `SaleSpec`, ... in `ServicesProofs`).

| theorem | says |
|---|---|
| `BudgetAdmissionProofs!TypeCorrect` | `TypeOK` |
| `BudgetAdmissionProofs!DeclarationsAlwaysAgree` | `RunBudgetsAgree` |
| `BudgetAdmissionProofs!ReceiptsTellAll` | `ReceiptTellsAll` |
| `BudgetAdmissionProofs!BlockBudgetsHold` | `EstimateIsUpperBound /\ Spec => []AdmittedSpendWithinLimit` |
| `BudgetAdmissionProofs!MoneyStaysOnTheBooks` | `EstimateIsUpperBound /\ Spec => []MoneyAlwaysAccounted` |
| `BudgetAdmissionProofs!GatewaysImplementTheLedger` | `EstimateIsUpperBound /\ Spec => ImplementsLedger`, the refinement of `SpendLedger` |
| `RetryRecoveryProofs!TypeCorrect` | `TypeOK` |
| `RetryRecoveryProofs!AtMostOneRetry` | `RetriedAtMostOnce` |
| `RetryRecoveryProofs!StatusAgrees` | `StatusMatchesAttempt` |
| `RetryRecoveryProofs!NoResultIsLost` | `ResultKept` |
| `RetryRecoveryProofs!LeaseIsHeld` | `InProgressHasLease` |
| `RetryRecoveryProofs!NoReviewOfValidated` | `ValidatedIsNotReviewed` |
| `RetryRecoveryProofs!OneHandoff` | `OneHandoffRef` |
| `RetryRecoveryProofs!HandoffIsReceived` | `HandoffWasSent` |
| `RetryRecoveryProofs!RecoveryStaysSafe` | `RecoveryIsSafe`, all of the above |
| `RetryRecoveryProofs!AttemptsAreFinal` | `Spec => AttemptIsFinal`, an action property |
| `EconomicAuthorityProofs!TypeCorrect` | `TypeOK` |
| `EconomicAuthorityProofs!BooksAlwaysBalance` | `BooksBalance` |
| `EconomicAuthorityProofs!AlwaysSatisfied` | `Satisfied` |
| `EconomicAuthorityProofs!BooksStaySound` | `BooksAreSound`, the three above |
| `EconomicAuthorityProofs!SettledStays` | `Spec => SettledIsFinal`, an action property |
| `EconomicAuthorityProofs!LogAlwaysTellsAll` | `LogTellsAll` |
| `EconomicAuthorityProofs!RevocationLeavesNothing` | `RevokedIsDead` |
| `CredentialsProofs!CredentialsStaySound` | `CredentialsAreSound` |
| `CredentialsProofs!RevokedAlwaysStaysDead` | `RevokedStaysDead` |
| `CredentialsProofs!RetriesNeverEnd` | `Spec => RetriesEndNothing`, an action property |
| `SearchPurchaseProofs!SupplierIsPaidOnce` | `SupplierPaidOnce` |
| `SearchPurchaseProofs!SettledStaysAccounted` | `SettledIsAccounted` |
| `SearchPurchaseProofs!JobsStaySound` | `JobsAreSound` |
| `SearchPurchaseProofs!BooksStayTrue` | `BooksMatchTheChain` |
| `HostedProofs!RunsStaySound` | `RunsAreSound` |
| `HostedProofs!CreditsStaySound` | `CreditsAreSound` |
| `HostedProofs!ChargesStaySeen` | `ChargesAreSeen` |
| `HostedProofs!BilledStaysBilled` | `Spec => BilledForGood`, an action property |
| `HostedProofs!ReportAlwaysAddsUp` | `ReportAddsUp` |
| `ServicesProofs!KeysAlwaysDieWithTheirTrial` | `KeysDieWithTheirTrial` |
| `ServicesProofs!RetriesAreFree` | `WalletsKeepToTheirRail /\ PageSpec => []ARetryIsFree` |
| `ServicesProofs!AnswersStayOnRecord` | `AnsweredIsOnRecord` |
| `ServicesProofs!BuyersPayForAnswers` | `PaidForAnAnswer` |
| `ServicesProofs!PingsStayHonest` | `PingIsHonest` |
| `ServicesProofs!CompleteCostsStayTrue` | `CompleteCostsAreTrue` |
| `ServicesProofs!BatchStaysFair` | `BatchIsFair` |
| `ServicesProofs!HindsightNeverHelps` | `BatchSpec => NoHindsight`, an action property |
| `ServicesProofs!OpenStaysReady` | `OpenIsReady`, a conjunct of `StoresAreSound` |
| `ServicesProofs!ReadersMissOnlyWhatIsLate` | `ReadersMissOnlyTheLate`, a conjunct of `StoresAreSound` |
| `ServicesProofs!UsageStaysOfWhatArrived` | `UsageIsOfWhatArrived`, a conjunct of `CallIsMetered` |
| `ServicesProofs!CallsStayMetered` | `PricesAreOrdered /\ ExchangeSpec => []CallIsMetered` |

The theorems rest on the assumptions named in the modules (`RequestAssumption`,
`CallAssumption`, `AuthorityAssumption`, ...): that sets are finite, that identifiers of
different kinds differ (`CredentialsAssumption`: no binding is `None`; `CaseAssumption`: no
client is called "nobody" or "the reaper", two words the table uses; `OpeningAssumption`: the
calls that an old store recorded have different keys), and that amounts are
numbers (`CostsAssumption`, `BatchAssumption`, `ExchangeAssumption`); `BookAssumption` says that
a receipt of the imported file is not one that the gateway has still to build. TLC evaluates each of
them in the runs. A few theorems have a hypothesis besides: `EstimateIsUpperBound`,
`WalletsKeepToTheirRail` and `PricesAreOrdered`, explained below.

**Budgets.** `AdmittedSpendWithinLimit` is not inductive: it says nothing of a transaction
half done. The invariant is `TypeOK /\ PlaceInv /\ LedgerInv`. `PlaceInv` ties the place
of a request to the lock, to what it has still to check and to the state of its reservation
and receipt. `LedgerInv` bounds what is billed by the estimate (`BoundInv`), keeps the
*exposure* of a block budget within its limit (`WindowInv`), and says what a transaction
under way knows (`AdmissionInv`): there is room for its estimate in every budget it has
passed, and the spend it has read is at least that of every attempt settled by then. The
exposure of an attempt is its estimate while its reservation is outstanding and
then the cost on its receipt; it only ever falls, except at `CommitReservation`. That the
receipt is written before the reservation is released, and that spend is read before the
reservations, is what carries the proof; swapping either breaks it, as it breaks the code.

The refinement maps the charges of `SpendLedger` to exposures. `CommitReservation` is its
admission for a charge, and the room it needs is what `AdmissionInv` says the transaction
has found in every budget; `AdmitUnmetered` is its free admission, of a request no block
budget binds; the steps that settle let one charge fall and no other move
(`SettlesOneCharge`); every other step stutters. So reading two databases under one lock is
as good as one atomic step, whatever is written to the unlocked one meanwhile.

`BlockBudgetsHold` and the refinement assume that an estimate bounds the cost.
`ReservationCovers` of `Exchange` says when the code's estimate does, and is proved
(`CallsStayMetered`): for every call within the tokens it assumed that writes nothing to the
prompt cache.

**Recovery.** `OwnerInv`: from `create_decision` on one call owns its case; no other call
gets past the transaction. `VerdictInv`: what the owner knows of its retry agrees with the
recorded attempt. `StatusInv`: a case that waits for a human, or that somebody is handing
off, is settled: no retry of it can still pass. The published properties are conjuncts of
the invariant or follow from it.

**Economic authority.** `IInv`, the invariant of the books, is `TypeOK`, `Forest`
(parents exist, and the parent of an active delegation is active), `Covered` (known spend and reservations fit in
the authority, and a settled delegation has released no more than it had left) and
`BooksBalance`. Each needs the others: the subtraction in `settle` stays non-negative
because what a child releases is part of what its parent has reserved, which is
`BooksBalance`, a sum over any number of children (`Money`). `RInv` adds what a revocation
has done so far: from the mark on, no step adds a delegation to the subtree, because
whoever reserves below the target finds the mark in its lineage (`Teardown`); what it has
looked at is not active; and an event under the reserved id means that the delegation is
settled (`SettledByRevocation`), so that a settle that conflicts or does nothing has
nothing left to do. Settling cannot be refused for a live descendant, as the
descendants come first.

`LogInv` adds the log: each delegation's authority, known spend and unknown costs are the
sums and counts of its own events (`FundingAgrees`, `SpendingAgrees`, `UnknownAgrees`), and
what the roots were given is what was spent plus what the delegations hold (`DollarsAdd`).
An operation moves headroom between a parent and a child, or turns it into spend, and logs
it under an id it found unused; so the sums over any tree move by the same amount.

**Credentials.** `IInv` has the forest of delegations, the bindings (a binding names a token
that exists, and no scopes beyond that token's), the tokens (of a child: the binding's scopes,
told only to its holder), what each handler counts on between two of its transactions
(`CallSound`), and the dead (`DeadSound`). The hard part is a revocation: what it
marks is the subtree at that moment, and the proof shows that a lineage, the least set
closed under `parent`, never shrinks, so that whoever later reserves, mints or claims below
the mark still finds it on the way up. That a grant may be answered again below a mark raises
nothing and so disturbs none of it.

**Job-safe search.** A purchase has one life (`PurchaseSound`): it is paying, then its
authorization has expired unused or its payment is final and the supplier was called, once.
A compare-and-set either finds the row as the task read it or changes nothing, so most of the
proof says what a task may rely on across its awaits (`TaskSound`). A payment is bound to a
purchase or observed, never both (`PaymentSound`); that is what keeps a payment which came
with a refused call from being lost when the call's purchase settles by another one. A rejected
purchase either has a payment that can never be made or is marked `unproven`; the theorems
except exactly the payments of the latter.
`JobsCharged` counts: a job's commitment is the price times its purchases that were not
rejected. The operator's books follow from the same invariant: the three kinds of payments
the report counts are disjoint (`CountedOnce`), and each was final when it was counted. The
margin is a fold over rows; a fold that adds up is a difference of two totals (`FoldIsTotal`
in `Money`, by the least set on which they would differ), so no induction rule with an
operator parameter is needed.

**Inferrail Hosted.** Four parts that rest on the types: `RunsSound` (a hold has a call under
way or a stream nobody reads), `AllowanceSound` (two counts of runs, by grants and by
month), `ChargesSound` and `RefundsSound`. `ChargesSound` says what a reconciliation may rely on
while it awaits the chain: an authorization past its grace when the pass began, and unused
when it asked, never will be used, since nobody settles after the grace. `RefundsSound` says
that the largest refund of a session is applied, on the wire, or came before its payment,
and `Share`, the part of a pack that a refund takes back, is monotone; so the order of
Stripe's events, and how often they come, does not matter.

The operator's report follows from the same invariant. What it recognizes is a sum of
fractions of cents, taken over a common denominator (`Product`). What was consumed is capped
at the runs that a workspace has left (`Consumed`), so its fraction is never more than its net
price; and what was not consumed is owed at the full price, which is no less than its part of
the net price, because `Share` rounds down the runs that a refund takes back. Sums over all
packs are sums over the workspaces of sums over theirs (`Money`), and `RefundsSound` keeps
every refund in USDC backed by its proof.

**The other services.** A trial's key: `TrialsKnown` says that who is in the registry is
issued, unexpired up to the next sweep, and that a handler let in before its trial ended
finds it gone or leaves a stray. Cases (`CasesFollow`): of two clients that retry a case that is
not erased, one is the other, because the one that retries made the decision. Sales
(`SaleInv`): only the request whose payment made the purchase paid reports it as newly
charged (`ToldOnce`), and what settles has an answer. What an answer says is computed by a
function defined by recursion over the costs; the proof takes a least index where
the function and the claim disagree (`LeastNatural`, from the well-foundedness of strict
inclusion of finite sets), and so needs no induction rule with an operator parameter. The
ping (`OptOutLasts`): after a disable that crossed no other writer, neither the file, nor the
temporary file once it is written, nor any copy in a caller's memory can turn it on again; at
most one caller is between opening the temporary file and moving it, and the file it holds
open is that one, so the move never puts an empty or a mixed file in place.

Pages (`PageInv`): the locks of `exclusive` really exclude, a payment sells one page, and a request that
fetches or settles has nothing kept for its payer under its own key. The last holds only
under `WalletsKeepToTheirRail`: if a wallet's payment is one that a contract signs, then so are
its others. A contract's payment takes no lock and looks nothing up, because the service
cannot tell who replays it; so an address that pays both ways, at once, for the same page,
could settle by contract while its other request was past its own lookup, and be charged twice. An address
either has a key or is a contract, except for a key that has delegated to code
(EIP-7702); the service does not rule that out, so the theorem states it.

**What a retry cost, and its history.** `CostsInv` is `CostsShape`, what the worker knows
before the attempt is recorded (`WorkerKnows`), that a recorded cost is what was charged and a
case is left behind only once its attempt is recorded or none was made (`RowsTell`), and what a
report that is reading one table after another may rely on: the decision it read stays
final, and so do the tables read since (`ReportTells`). The
invariant of the analysis (`BatchInv`) is only typing, since records and policies are functions
of the rows: the proof is that what they compute of a first attempt depends on that attempt
alone, and that a sum over items counts each cost under one item.

**Opening an old store.** `OpeningInv`: whoever is adding columns still has every missing one
before him (`OpenersFollow`), except where the code ignores an error of another process's
lock; a migrated table knows every call of the old one, with its payload rebuilt
(`CallsFollow`); and a repeated call was answered as one done before exactly when it was, or,
if it creates a delegation, unless a grant has raised that delegation (`RepliesTell`).

**The readers of the receipts.** A query lists the rows it keeps by their places, which are
numbered without a gap (`PlacesAre`), so it repeats no row and leaves none out, in the order
of the stamps (`ListingIs`); a row that no other comes after is appended to the listing
(`ListingGrows`). On that rest the two parts of `BookInv`. `TailFollows`: the tail's bound is
the stamp of a receipt it has seen, or where it began, and whatever was stored under one that
it has seen is late. `PagesFollow`: unless a receipt was stored before the end of the order,
the pages seen are the beginning of the listing as it is now.

**A call through the gateway.** Two arguments. The estimate: the five terms of a cost are
bounded one by one by the same tokens at the bound's tier, and rounding half up is
monotone (`CostIsBounded`). It needs `PricesAreOrdered`, that the dearer tier is dearer and
that reading the cache is no dearer than reading afresh: the list prices are so, but the
configuration accepts any price of an operator's. The usage: the invariant `HasRead` says
that the bytes split into a part that was read and a buffer; that the buffer holds what is
on the wire after that part, but for marks where a CR was dropped, and completes no blank
line; and that the part read is a whole number of events. A blank line on the wire ends an
event (`BlankLineEndsEvent`), usage is what the last events tell (`UsageGoesOn`), and line
ends between events tell nothing (`SameEventsSameUsage`); so cutting the stream elsewhere
changes nothing but, with CRLF, how far the reading got.

**Only model-checked.** Liveness under fairness (`RequestsSettle`, `RecoveryEnds`,
`RevocationCompletes`, `SessionRecovered`, `ChargeIsDecided`, `ServicesSettle`), which, as
`ENABLED`, is out of the prover's reach. Of `StoresAreSound`, `EvidenceAddsUp`: its summaries
fold over sequences selected from a listing, and what such a fold computes for every input
needs an induction over data. The types in it (`ServicesTypeOK`) are proved only as far as
the invariants above need them.

## 10. Where the code and its documents differ

`SaleChargedTwice` is the one run that must fail. `hosted/work_economics/store.py` says that
a retried or replayed request for a purchase id "is never charged or executed twice": two
requests for one id, each with a signed payment of its own, are both charged, as the
handler answers a purchase already executed with 200 and the middleware settles every
request that was answered so. `PROJECT.json` quotes the lines.

Configurations that a reader can run ([section 8](#8-runs)):

- `BudgetOverrunTwoProcesses`: an excess over a limit may be on no receipt when two processes
  finish together, as each computes its overrun before either receipt is written
  (`budgets/enforcement.py:453`, against ADR-0021, lines 150-151). Likewise the overrun is
  computed from the receipts read before the request's own is written.
- `BudgetRollover`: spend recorded in a day may exceed a block limit although no request costs
  more than its reservation, when one is held across midnight (`enforcement.py:289`, against
  ADR-0021, lines 146-147).
- `BudgetInterrupted`: a stream whose task is cancelled is recorded as a success
  (`gateway/execution.py:501`, against its lines 32-36).
- `RetrySentTwice`: without any failure, a hand-off can be sent twice (`ap/engine.py:326`,
  against `ap/handoff.py:3-4`).
- `DuplicateReserve`: a reservation repeated after its delegation was granted more is answered
  with a conflict, not with "already_exists" (`core.py:706`, against its lines 675-677).

Properties that the modules state and no run lists, as they do not hold:

- `Hosted!FailedWasNotCharged` (the agent guide: a purchase listed as failed was not charged):
  a settlement that was refused may still reach the chain.
- `TrialTenants!NoKeyOutlivesItsTrial` (`keys.py`, `forget`): a key submitted by a request that
  was let in before its trial was purged stays in memory.
- `PageSale!TheRowIsTheSale`: one signed payment used for two requests at once leaves the row
  of the first (`INSERT OR IGNORE`), so the page that was paid for does not come back.
- `CaseService!OneOutcome` (the walkthrough "can never append a second one"): two walkthroughs of
  one case at once do.
- `UsagePing!OnlyASwitchTurnsOn` (`usage_ping/state.py`: losing the race is never a privacy
  problem): a ping under way while the switch is turned off writes it on again.

Seen while modelling, without a property of their own:

- *Gateway.* A request cancelled during its provider call or its back-off has no receipt
  (`gateway/execution.py:384-388`); its reservation stays held. A provider that fails in the
  middle of a stream ends the client's response cleanly. A CRLF blank line cut in two by a
  chunk is not recognised, and the usage after it may be lost. The estimate is not an upper
  bound when cache writes cost more than input, though its docstring says it is;
  `docs/recipes/agent-run-budget.md:793` says it is not proven to be one.
- *Recovery.* `set_decision_status` (`ap/store.py:228`) has no condition on the status it
  replaces: a worker that outlives its lease puts a reviewed case back to waiting for
  review. `clear_retry_lease` names the case and not the worker: after a deletion and a second
  decision, the first worker clears the second one's lease, which `store.py:329-330` says only
  old rows lack. A review recorded while a retry is in progress makes its row of the live
  report "complete" and hides the retry's bill. A `/retry-attempts` request of the hosted
  service repeated with its attempt id records nothing and sets no status; ids are compared
  across cases; an attempt posted for a case that was recommended for review is exported but
  not in the live cost.
- *Batch.* When the row of the first attempt is skipped, the next one is judged as if it were
  the first. The retrospective candidate says "insufficient evidence" when a cost is unknown,
  where the live policy does not.
- *Authority.* `create_root` compares a root's authority with what it was created with, so once
  a grant has raised it every retry of its creation is `EventConflict`: `POST /sessions`
  repeated is answered 400, and `POST /sessions/recover` raises (`sessions.py:479-484`, not
  caught at 527-533), so a buyer who lost the credential of a session that was topped up does
  not get another one, against `recover_session`'s docstring ("a no-op if the root already
  exists"). The same conflict meets a creation that is retried after a migration, which
  `core.py:333-335` says is recognized. Of two revocations of overlapping subtrees with
  different outcomes, in two processes, one may be answered `EventConflict` by the other's
  settlement; it has then not revoked its credentials, and its caller has to call again. A
  session's buyer can recover the credential of a root that was revoked (it can only read). When
  the token that authorized a reservation was rotated or has expired, the child's credential
  cannot be recovered and its id stays taken.
- *Hosted.* A new run may be billed a credit although a free slot is released a moment later.
  A Stripe refund delivered before its payment is acknowledged and lost, which
  `apply_refund`'s docstring says cannot matter. Card checkouts are not counted against the
  sales limits until they are paid. The lock that makes the report one snapshot is the server
  process's own (`workspaces.py:150`): run by the operator's command beside the server
  (`ops.py:70`) the report reads table after table, which is not modelled.
- *Search.* A purchase being verified is rejected without a proof from the chain when the
  facilitator names another payer (`service.py:524-528`), and, without
  `SEARCH_RECOVERY_FROM_BLOCK`, whenever it says no; the tests assert the latter
  (`tests/unit/hosted/test_job_safe_search.py:374`, `687`). Its authorization may be included
  later: that payment is then on no row, owed to nobody and in no count, while
  `hosted/job_safe_search/README.md:202` has "only finalized authorization expiry and an unspent
  token nonce" prove nonpayment, of observed payments. A refunded extra payment that is still
  only observed counts as owed in the job's view while the operator's margin is published
  already.
- *Pages.* A crash between a settlement and its record, and a settlement whose error hides a
  transfer that happened, make a retry pay twice.
- *Receipts.* The tail never shows a receipt stored after one with the same stamp or a later
  one; a page listing shows one twice or misses one after a late insert.
- *Opening.* Of two processes that add the columns of an old store at once, the loser's start
  fails and has to be repeated. The AP store's ignored error may be a busy lock, not only the
  duplicate column its comment expects.
- *Usage ping.* Of two writers that cross at the temporary file one may move it into place empty
  or mixed (`state.py:86-87`); it is read as never configured (`state.py:74-79`), which is on
  wherever the configuration does not say off, and the next writer saves it so: an opt-out is
  lost although its own write crossed nobody. A kill between creating and writing the install id
  leaves an empty one, and every later ping is refused. `os.replace` of the shared temporary
  file may raise into the caller.

## 11. What is not modelled

`PROJECT.json` gives the reason for each component. Configuration is read at start and is
the models' constants; errors and telemetry, the command line's parsing and printing, the
dashboard, packages and scripts have no state of their own that anything depends on.
Fetching a page and extracting its text (`hosted/web_read`), the operation of the hosted
gateway (deployment, alerts), and the example agent economy are outside: what a fetch
returns is an input of `PageSale`. Translations between the formats of providers are
represented by the usage fields they carry. What the libraries below promise is assumed:
SQLite's transactions are atomic, durable and serialized by the write lock, `asyncio` runs
one task at a time, and `os.replace` is atomic.
