---------------------------- MODULE TrialTenants ----------------------------
(***************************************************************************)
(* The hosted cost gateway's self-serve trials (hosted/cost_gateway): a    *)
(* credential that expires, the provider keys its visitor may add, held in *)
(* memory only, and the files of its receipts and budget.                  *)
(*                                                                         *)
(* A handler is authenticated in a worker thread and then runs on the      *)
(* event loop, so other requests and the sweep come between the two.  The  *)
(* registry drops a trial before it has its data wiped, and a file that    *)
(* cannot be deleted ends that sweep there.                                *)
(*                                                                         *)
(* A demonstration call is a call without a key.  Rates and the throttle   *)
(* of addresses refuse requests, which changes nothing.                    *)
(***************************************************************************)
EXTENDS Integers, FiniteSets

CONSTANTS
  Trials,          \* the tenants that may be issued
  Providers,       \* openai, anthropic
  Handlers,        \* the requests that may be handled at once
  DemoTTL, KeyTTL, \* of an issued trial, and from the moment a key is added
  Grace,           \* purge_grace_seconds
  MaxLive,         \* max_live_tenants
  MaxTime, MaxTrialRestarts \* bounds

ASSUME TrialAssumption ==
  /\ IsFiniteSet(Trials) /\ IsFiniteSet(Providers) /\ IsFiniteSet(Handlers)
  /\ DemoTTL \in Nat \ {0} /\ KeyTTL \in Nat \ {0} /\ Grace \in Nat /\ MaxLive \in Nat
  /\ MaxTime \in Nat /\ MaxTrialRestarts \in Nat

VARIABLES
  tenants,  \* TrialRegistry._tenants: when each expires, 0 if it is not there
  issued,   \* the trials that were issued
  vault,    \* KeyVault._keys: of which providers each tenant's key is held,
  keyedAt,  \* and when one was last submitted
  disk,     \* the tenants that have files
  handling, \* what each handler is in the middle of
  clock,
  strays,   \* trials that left the registry in the middle of something
  trialRestarts

trialVars == <<tenants, issued, vault, keyedAt, disk, handling, clock, strays, trialRestarts>>

-----------------------------------------------------------------------------
Resting == [at |-> "resting"]

Handle(at, t, p) == [at |-> at, of |-> t, with |-> p]

Registered(t) == tenants[t] # 0

TrialExpired(t) == clock >= tenants[t]

LiveTrials == {t \in Trials : Registered(t) /\ ~TrialExpired(t)}

Stale == {t \in Trials : Registered(t) /\ tenants[t] + Grace <= clock}

Busy(t) == \E h \in Handlers : handling[h] # Resting /\ handling[h].of = t

TrialInit ==
  /\ tenants = [t \in Trials |-> 0] /\ issued = {}
  /\ vault = [t \in Trials |-> {}] /\ keyedAt = [t \in Trials |-> 0]
  /\ disk = {}
  /\ handling = [h \in Handlers |-> Resting]
  /\ clock = 1 /\ strays = {} /\ trialRestarts = 0

(***************************************************************************)
(* _purge_expired_locked and end_trial: the trials gone are dropped and    *)
(* their data wiped, but those of failed, whose files could not be.        *)
(***************************************************************************)
Dropped(gone) == [t \in Trials |-> IF t \in gone THEN 0 ELSE tenants[t]]

Wiped(gone) ==
  /\ vault' = [t \in Trials |-> IF t \in gone THEN {} ELSE vault[t]]
  /\ keyedAt' = [t \in Trials |-> IF t \in gone THEN 0 ELSE keyedAt[t]]
  /\ disk' = disk \ gone

Purge(gone, failed) ==
  /\ Wiped(gone)
  /\ strays' = strays \cup failed \cup {t \in gone : Busy(t)}

HasRoomUnswept == Cardinality({t \in Trials : Registered(t)}) <= MaxLive

HasRoom == Cardinality(LiveTrials) < MaxLive

Issue(t) ==
  /\ t \notin issued
  /\ HasRoom
  /\ tenants' = [Dropped(Stale) EXCEPT ![t] = clock + DemoTTL]
  /\ issued' = issued \cup {t}
  /\ Purge(Stale, {})
  /\ UNCHANGED <<handling, clock, trialRestarts>>

(***************************************************************************)
(* A request: authenticated, which sweeps first, and handled.              *)
(***************************************************************************)
AuthenticateTrial(h, t) ==
  /\ handling[h] = Resting
  /\ t \in LiveTrials
  /\ tenants' = Dropped(Stale)
  /\ Purge(Stale, {})
  /\ handling' = [handling EXCEPT ![h] = Handle("let in", t, "")]
  /\ UNCHANGED <<issued, clock, trialRestarts>>

LetIn(h) == handling[h].at = "let in"

\* The files of a tenant are made whenever a handler asks for its stores.
OpenStores(t) == disk' = disk \cup {t}

TightenedExpiry(t) == IF clock + KeyTTL < tenants[t] THEN clock + KeyTTL ELSE tenants[t]

SubmitKeys(h, p) ==
  LET t == handling[h].of IN
  /\ LetIn(h)
  /\ vault' = [vault EXCEPT ![t] = @ \cup {p}]
  /\ keyedAt' = [keyedAt EXCEPT ![t] = clock]
  /\ tenants' = [tenants EXCEPT ![t] = IF Registered(t) THEN TightenedExpiry(t) ELSE @]
  /\ OpenStores(t)
  /\ handling' = [handling EXCEPT ![h] = Resting]
  /\ UNCHANGED <<issued, clock, strays, trialRestarts>>

DeleteKeys(h) ==
  LET t == handling[h].of IN
  /\ LetIn(h)
  /\ vault' = [vault EXCEPT ![t] = {}] /\ keyedAt' = [keyedAt EXCEPT ![t] = 0]
  /\ handling' = [handling EXCEPT ![h] = Resting]
  /\ UNCHANGED <<tenants, issued, disk, clock, strays, trialRestarts>>

EndTrial(h) ==
  LET t == handling[h].of IN
  /\ LetIn(h)
  /\ handling' = [handling EXCEPT ![h] = Resting]
  /\ \/ /\ Registered(t)
        /\ tenants' = Dropped({t})
        /\ Wiped({t})
        /\ strays' = strays \cup (IF \E g \in Handlers \ {h} : handling[g] # Resting /\ handling[g].of = t
                                  THEN {t} ELSE {})
     \/ /\ Registered(t)
        /\ tenants' = Dropped({t}) /\ strays' = strays \cup {t}
        /\ UNCHANGED <<vault, keyedAt, disk>>
     \/ ~Registered(t) /\ UNCHANGED <<tenants, vault, keyedAt, disk, strays>>
  /\ UNCHANGED <<issued, clock, trialRestarts>>

\* Receipts, work, a report or the status; or a call for which no key is held.
Consult(h) ==
  /\ LetIn(h)
  /\ OpenStores(handling[h].of)
  /\ handling' = [handling EXCEPT ![h] = Resting]
  /\ UNCHANGED <<tenants, issued, vault, keyedAt, clock, strays, trialRestarts>>

Proxy(h, p) ==
  LET t == handling[h].of IN
  /\ LetIn(h)
  /\ p \in vault[t] \/ p = "demo"
  /\ OpenStores(t)
  /\ handling' = [handling EXCEPT ![h] = Handle("calling", t, p)]
  /\ UNCHANGED <<tenants, issued, vault, keyedAt, clock, strays, trialRestarts>>

\* The call ends, its receipt is written, its provider and key are let go.
Proxied(h) ==
  /\ handling[h].at = "calling"
  /\ OpenStores(handling[h].of)
  /\ handling' = [handling EXCEPT ![h] = Resting]
  /\ UNCHANGED <<tenants, issued, vault, keyedAt, clock, strays, trialRestarts>>

(***************************************************************************)
(* Time, the sweep, and a restart, which forgets what was in memory.       *)
(***************************************************************************)
TrialTick ==
  /\ clock < MaxTime
  /\ clock' = clock + 1
  /\ UNCHANGED <<tenants, issued, vault, keyedAt, disk, handling, strays, trialRestarts>>

Sweep ==
  /\ Stale # {}
  /\ tenants' = Dropped(Stale)
  /\ Purge(Stale, {})
  /\ UNCHANGED <<issued, handling, clock, trialRestarts>>

\* A sweep that could not delete the files of t, after those of done.
SweepRaises(t, done) ==
  /\ t \in Stale /\ done \subseteq Stale \ {t}
  /\ tenants' = Dropped(done \cup {t})
  /\ Purge(done, {t})
  /\ UNCHANGED <<issued, handling, clock, trialRestarts>>

TrialRestart ==
  /\ trialRestarts < MaxTrialRestarts
  /\ trialRestarts' = trialRestarts + 1
  /\ strays' = strays \cup {t \in Trials : Registered(t)}
  /\ tenants' = Dropped(Trials)
  /\ vault' = [t \in Trials |-> {}] /\ keyedAt' = [t \in Trials |-> 0]
  /\ handling' = [h \in Handlers |-> Resting]
  /\ UNCHANGED <<issued, disk, clock>>

TrialNext ==
  \/ \E t \in Trials : Issue(t)
  \/ \E h \in Handlers, t \in Trials : AuthenticateTrial(h, t)
  \/ \E h \in Handlers, p \in Providers : SubmitKeys(h, p)
  \/ \E h \in Handlers : DeleteKeys(h) \/ EndTrial(h) \/ Consult(h) \/ Proxied(h)
  \/ \E h \in Handlers, p \in Providers \cup {"demo"} : Proxy(h, p)
  \/ TrialTick \/ Sweep \/ TrialRestart
  \/ \E t \in Trials : \E done \in SUBSET Trials : SweepRaises(t, done)

TrialSpec == TrialInit /\ [][TrialNext]_trialVars

(***************************************************************************)
(* The sweep's loop survives a sweep that fails, and goes on.              *)
(***************************************************************************)
TrialFairSpec == TrialSpec /\ WF_trialVars(Sweep)

-----------------------------------------------------------------------------
(***************************************************************************)
(* Every variable holds values of its kind (TrialRegistry, KeyVault).      *)
(***************************************************************************)
TrialTypeOK ==
  /\ tenants \in [Trials -> 0 .. MaxTime + DemoTTL] /\ issued \subseteq Trials
  /\ vault \in [Trials -> SUBSET Providers] /\ keyedAt \in [Trials -> 0 .. MaxTime]
  /\ disk \subseteq Trials /\ strays \subseteq Trials
  /\ \A h \in Handlers :
       handling[h] = Resting \/ handling[h] \in [at : {"let in", "calling"}, of : issued,
                                                 with : Providers \cup {"", "demo"}]
  /\ clock \in 1 .. MaxTime /\ trialRestarts \in 0 .. MaxTrialRestarts

(***************************************************************************)
(* A key is held, and files kept, of registered trials only, save for one  *)
(* that left the registry while a request of its own was being handled, or *)
(* in a sweep that failed, or (its files) in a restart; a trial with a key *)
(* expires within KeyTTL of when the key was last added, and at no time    *)
(* are more trials live than the capacity (_on_purge, submit_keys,         *)
(* tighten_for_real_key, issue).                                           *)
(***************************************************************************)
KeysDieWithTheirTrial ==
  /\ \A t \in Trials \ strays : vault[t] # {} \/ t \in disk => Registered(t)
  /\ \A t \in Trials : Registered(t) /\ keyedAt[t] > 0 => tenants[t] <= keyedAt[t] + KeyTTL
  /\ Cardinality(LiveTrials) <= MaxLive

(***************************************************************************)
(* An expired trial leaves the registry in the end, whatever raises in a   *)
(* sweep (_purge_loop).                                                    *)
(***************************************************************************)
ExpiredTrialsEnd == \A t \in Trials : (t \in Stale) ~> ~Registered(t)

(***************************************************************************)
(* What keys.py says of a key: it must never outlive its tenant (forget,   *)
(* _on_purge).                                                             *)
(***************************************************************************)
NoKeyOutlivesItsTrial == \A t \in Trials : vault[t] # {} => Registered(t)
=============================================================================
