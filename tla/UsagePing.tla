----------------------------- MODULE UsagePing -----------------------------
(***************************************************************************)
(* The usage ping: the client (src/inferrail/usage_ping), whose state file *)
(* is read, changed and replaced without a lock by the gateway's calls,    *)
(* its heartbeat thread, the dashboard's switch and the command line; and  *)
(* the collector (hosted/usage_ping).                                      *)
(*                                                                         *)
(* A call is one maybe_send_event, maybe_send_heartbeat or switch, with    *)
(* the background thread that posts what it sends; an endpoint is          *)
(* configured and the environment allows the ping.  There is one install.  *)
(* A writer empties the temporary file as it opens it and keeps it open,   *)
(* wherever it is moved, until it has written; files are POSIX's.          *)
(***************************************************************************)
EXTENDS Integers, FiniteSets, Sequences

CONSTANTS
  Calls,           \* the calls that may be under way at once
  Does,            \* what each may be: an event to send, or a switch
  OnceEver,        \* the events sent once per install: install and first_receipt
  SeedEnabled,     \* usage_ping.enabled of inferrail.yaml
  MaxPings, MaxPingCrashes \* bounds

ASSUME PingAssumption ==
  /\ IsFiniteSet(Calls) /\ OnceEver \subseteq {"install", "first_receipt"}
  /\ Does \in [Calls -> SUBSET (OnceEver \cup {"serve_start", "heartbeat", "enable", "disable"})]
  /\ SeedEnabled \in BOOLEAN /\ MaxPings \in Nat /\ MaxPingCrashes \in Nat

VARIABLES
  stateFile, \* usage-ping-state.json
  tmpFile,   \* the temporary file all writers share
  idFile,    \* usage-ping-install-id: "absent", "empty" or "written"
  pinging,   \* what each call is in the middle of
  optedOut,  \* ghost: the last switch was "disable", and it crossed no other writer, nor
             \* have two writers crossed since
  collected, \* the collector's events, in order
  activated, \* installs.reached_first_receipt_at: 0, or the place in collected
  pingCrashes

clientVars == <<stateFile, tmpFile, idFile, pinging, optedOut>>
collectorVars == <<collected, activated>>
pingVars == <<clientVars, collectorVars, pingCrashes>>

-----------------------------------------------------------------------------
Events   == OnceEver \cup {"serve_start", "heartbeat"}
Switches == {"enable", "disable"}

\* UsagePingState, and what the file is: a mixed one holds parts of two.
Missing == [is |-> "absent", enabled |-> FALSE, sent |-> {}, beat |-> FALSE]
Emptied == [Missing EXCEPT !.is = "empty"]
Mixed   == [Missing EXCEPT !.is = "mixed"]
NewState(b) == [is |-> "whole", enabled |-> b, sent |-> {}, beat |-> FALSE]
Seeded  == NewState(SeedEnabled)

\* "holds" is where the file is that the call has open.
NotPinging == [op |-> "none", at |-> "free", copy |-> Missing, to |-> "free", holds |-> "none",
               named |-> FALSE, knew |-> FALSE]

PingInit ==
  /\ stateFile = Missing /\ tmpFile = Missing /\ idFile = "absent"
  /\ pinging = [c \in Calls |-> NotPinging] /\ optedOut = FALSE
  /\ collected = <<>> /\ activated = 0 /\ pingCrashes = 0

GoesTo(c, place) == pinging' = [pinging EXCEPT ![c].at = place]

\* The call c saves what it read, changed to state, and goes on at the place next.
Saves(c, state, next) ==
  pinging' = [pinging EXCEPT ![c].at = "writing", ![c].copy = state, ![c].to = next]

BeginPing(c, op) ==
  /\ pinging[c] = NotPinging
  /\ pinging' = [pinging EXCEPT ![c].op = op, ![c].at = "loading"]
  /\ optedOut' = (optedOut /\ op # "enable")
  /\ UNCHANGED <<stateFile, tmpFile, idFile, collectorVars, pingCrashes>>

(***************************************************************************)
(* load_state, on a file that does not exist: it is seeded.                *)
(***************************************************************************)
LoadSeeds(c) ==
  /\ pinging[c].at = "loading" /\ stateFile.is = "absent"
  /\ Saves(c, Seeded, "seeded")
  /\ UNCHANGED <<stateFile, tmpFile, idFile, optedOut, collectorVars, pingCrashes>>

\* A file that does not parse is as if never configured, and stays as it is.
ReadState(default) == IF stateFile.is = "whole" THEN stateFile ELSE NewState(default)

\* What c works on: what it has just seeded, or what the file holds.
Loaded(c) == IF pinging[c].at = "seeded" THEN pinging[c].copy ELSE ReadState(SeedEnabled)

MayLoad(c) == \/ pinging[c].at = "seeded"
              \/ pinging[c].at = "loading" /\ stateFile.is # "absent"

(***************************************************************************)
(* maybe_send_event and maybe_send_heartbeat: the switch is read, and the  *)
(* file is read again to mark what is sent at most once.                   *)
(***************************************************************************)
LetsThrough(state) == state.enabled

CheckSwitch(c) ==
  /\ MayLoad(c) /\ pinging[c].op \in Events
  /\ pinging' = [pinging EXCEPT ![c] =
       IF ~LetsThrough(Loaded(c)) THEN NotPinging
       ELSE [@ EXCEPT !.at = IF pinging[c].op = "serve_start" THEN "naming" ELSE "marking",
                      !.copy = Missing, !.knew = optedOut]]
  /\ UNCHANGED <<stateFile, tmpFile, idFile, optedOut, collectorVars, pingCrashes>>

MarkedAfresh(state, op) == [Seeded EXCEPT !.sent = {op}, !.beat = op = "heartbeat"]

Marked(state, op) ==
  IF op = "heartbeat" THEN [state EXCEPT !.beat = TRUE] ELSE [state EXCEPT !.sent = @ \cup {op}]

\* Whether a heartbeat is due again is left to chance.  Read without a default, what does
\* not parse is on.
MarkSent(c) ==
  LET op == pinging[c].op
      state == ReadState(TRUE)
  IN
  /\ pinging[c].at = "marking"
  /\ \/ /\ op \in state.sent \/ (op = "heartbeat" /\ state.beat)
        /\ pinging' = [pinging EXCEPT ![c] = NotPinging]
     \/ /\ op \notin state.sent
        /\ Saves(c, Marked(state, op), "naming")
  /\ UNCHANGED <<stateFile, tmpFile, idFile, optedOut, collectorVars, pingCrashes>>

(***************************************************************************)
(* set_usage_ping, run_telemetry_enable and run_telemetry_disable.         *)
(***************************************************************************)
Switch(c) ==
  /\ MayLoad(c) /\ pinging[c].op \in Switches
  /\ Saves(c, [Loaded(c) EXCEPT !.enabled = pinging[c].op = "enable"], "free")
  /\ UNCHANGED <<stateFile, tmpFile, idFile, optedOut, collectorVars, pingCrashes>>

(***************************************************************************)
(* save_state: the temporary file is emptied, written, then moved into     *)
(* place; the move fails when another writer has moved it away, and the    *)
(* call raises.                                                            *)
(***************************************************************************)
AtFile(c) == pinging[c].at \in {"open", "moving"}

Undisturbed(c) == \A other \in Calls \ {c} : ~AtFile(other)

OpenTmp(c) ==
  /\ pinging[c].at = "writing"
  /\ tmpFile' = Emptied
  /\ pinging' = [pinging EXCEPT ![c].at = "open", ![c].holds = "tmp"]
  /\ optedOut' = (optedOut /\ Undisturbed(c))
  /\ UNCHANGED <<stateFile, idFile, collectorVars, pingCrashes>>

\* What is longer than the copy written over it leaves its end behind.
Written(file, copy) == IF file.is = "empty" THEN {copy} ELSE {copy, Mixed}

\* It is written where it is by now: moved into place by another, or replaced there.
WriteTmp(c) ==
  /\ pinging[c].at = "open"
  /\ IF pinging[c].holds = "tmp" THEN tmpFile' \in Written(tmpFile, pinging[c].copy)
     ELSE UNCHANGED tmpFile
  /\ IF pinging[c].holds = "state" THEN stateFile' \in Written(stateFile, pinging[c].copy)
     ELSE UNCHANGED stateFile
  /\ pinging' = [pinging EXCEPT ![c].at = "moving", ![c].holds = "none"]
  /\ UNCHANGED <<idFile, optedOut, collectorVars, pingCrashes>>

\* No other call is turning the ping on, holds a copy that would, or is at the file.
Alone(c) ==
  /\ Undisturbed(c)
  /\ \A other \in Calls \ {c} : ~pinging[other].copy.enabled /\ pinging[other].op # "enable"

\* The move of c takes the file from under the others that have it open.
Shifted(call) ==
  [call EXCEPT !.holds = CASE @ = "tmp" -> "state" [] @ = "state" -> "gone" [] OTHER -> @]

Saved(call) ==
  CASE call.to = "free"   -> NotPinging
    [] call.to = "seeded" -> [call EXCEPT !.at = "seeded"]
    [] call.to = "naming" -> [call EXCEPT !.at = "naming", !.copy = Missing]

MoveTmp(c) ==
  /\ pinging[c].at = "moving" /\ tmpFile.is # "absent"
  /\ stateFile' = tmpFile /\ tmpFile' = Missing
  /\ pinging' = [d \in Calls |-> IF d = c THEN Saved(pinging[d]) ELSE Shifted(pinging[d])]
  /\ optedOut' = IF pinging[c].op = "disable" /\ pinging[c].to = "free"
                 THEN tmpFile.is = "whole" /\ ~tmpFile.enabled /\ Alone(c) ELSE optedOut
  /\ UNCHANGED <<idFile, collectorVars, pingCrashes>>

MoveFails(c) ==
  /\ pinging[c].at = "moving" /\ tmpFile.is = "absent"
  /\ pinging' = [pinging EXCEPT ![c] = NotPinging]
  /\ UNCHANGED <<stateFile, tmpFile, idFile, optedOut, collectorVars, pingCrashes>>

(***************************************************************************)
(* ensure_install_id: created exclusively, then written; a reader between  *)
(* the two gets an empty id.                                               *)
(***************************************************************************)
CreateId(c) ==
  /\ pinging[c].at = "naming" /\ idFile = "absent"
  /\ idFile' = "empty"
  /\ GoesTo(c, "writing id")
  /\ UNCHANGED <<stateFile, tmpFile, optedOut, collectorVars, pingCrashes>>

WriteId(c) ==
  /\ pinging[c].at = "writing id"
  /\ idFile' = "written"
  /\ pinging' = [pinging EXCEPT ![c].at = "posting", ![c].named = TRUE]
  /\ UNCHANGED <<stateFile, tmpFile, optedOut, collectorVars, pingCrashes>>

ReadId(c) ==
  /\ pinging[c].at = "naming" /\ idFile # "absent"
  /\ pinging' = [pinging EXCEPT ![c].at = "posting", ![c].named = idFile = "written"]
  /\ UNCHANGED <<stateFile, tmpFile, idFile, optedOut, collectorVars, pingCrashes>>

-----------------------------------------------------------------------------
(***************************************************************************)
(* The collector: the install is upserted and the event appended, in one   *)
(* transaction.  A ping without an id, over the rate limit, or posted      *)
(* while collection is off is not stored; posts arrive in any order.       *)
(***************************************************************************)
Reached(event, place) ==
  IF event = "first_receipt" /\ activated = 0 THEN place ELSE activated

Collect(c) ==
  LET event == pinging[c].op IN
  /\ pinging[c].at = "posting" /\ pinging[c].named
  /\ Len(collected) < MaxPings
  /\ collected' = Append(collected, event)
  /\ activated' = Reached(event, Len(collected'))
  /\ pinging' = [pinging EXCEPT ![c] = NotPinging]
  /\ UNCHANGED <<stateFile, tmpFile, idFile, optedOut, pingCrashes>>

PostFails(c) ==
  /\ pinging[c].at = "posting"
  /\ pinging' = [pinging EXCEPT ![c] = NotPinging]
  /\ UNCHANGED <<stateFile, tmpFile, idFile, optedOut, collectorVars, pingCrashes>>

-----------------------------------------------------------------------------
\* The process of c dies with a file half done; the others go on.  Killed elsewhere it
\* leaves nothing behind, as a call that never goes on.
PingCrash(c) ==
  /\ pinging[c].at \in {"open", "moving", "writing id"}
  /\ pingCrashes < MaxPingCrashes /\ pingCrashes' = pingCrashes + 1
  /\ pinging' = [pinging EXCEPT ![c] = NotPinging]
  /\ UNCHANGED <<stateFile, tmpFile, idFile, optedOut, collectorVars>>

PingNext ==
  \E c \in Calls :
       \/ \E op \in Does[c] : BeginPing(c, op)
       \/ LoadSeeds(c) \/ CheckSwitch(c) \/ MarkSent(c) \/ Switch(c)
       \/ OpenTmp(c) \/ WriteTmp(c) \/ MoveTmp(c) \/ MoveFails(c)
       \/ CreateId(c) \/ WriteId(c) \/ ReadId(c)
       \/ Collect(c) \/ PostFails(c) \/ PingCrash(c)

PingSpec == PingInit /\ [][PingNext]_pingVars

-----------------------------------------------------------------------------
FileTypeOK(file) ==
  /\ file.is \in {"absent", "empty", "mixed", "whole"}
  /\ {file.enabled, file.beat} \subseteq BOOLEAN /\ file.sent \subseteq OnceEver

(***************************************************************************)
(* Every variable holds values of its kind (UsagePingState, the            *)
(* collector's tables).                                                    *)
(***************************************************************************)
PingTypeOK ==
  /\ FileTypeOK(stateFile) /\ FileTypeOK(tmpFile)
  /\ idFile \in {"absent", "empty", "written"}
  /\ \A c \in Calls :
       /\ pinging[c].op \in Events \cup Switches \cup {"none"}
       /\ pinging[c].at \in {"free", "loading", "seeded", "marking", "writing", "open",
                             "moving", "naming", "writing id", "posting"}
       /\ pinging[c].holds \in {"none", "tmp", "state", "gone"}
       /\ FileTypeOK(pinging[c].copy)
  /\ optedOut \in BOOLEAN
  /\ collected \in Seq(Events) /\ Len(collected) <= MaxPings
  /\ activated \in 0 .. Len(collected)
  /\ pingCrashes \in 0 .. MaxPingCrashes

(***************************************************************************)
(* A disable that crossed no other writer's copy stays in force whatever   *)
(* the unlocked writers do later, one after the other or dying half done,  *)
(* until an enable, or until two of them cross at the temporary file and   *)
(* may leave one in place that does not parse, which is read as on: the    *)
(* file is whole and says off, no copy that is still to be written would   *)
(* turn it on again, and nothing posts whose call read the switch since    *)
(* (maybe_send_event, load_state, save_state, run_telemetry_disable).      *)
(***************************************************************************)
OptOutHolds ==
  optedOut =>
    /\ stateFile.is = "whole" /\ ~stateFile.enabled
    /\ \A c \in Calls : ~pinging[c].copy.enabled /\ ~pinging[c].knew

(***************************************************************************)
(* However often the clients' races report first_receipt, and in whatever  *)
(* order: an install counts as activated from the first report that was    *)
(* stored, and only by one (the upsert's COALESCE, the transaction).       *)
(***************************************************************************)
ActivatedByTheFirst ==
  LET reports == {n \in DOMAIN collected : collected[n] = "first_receipt"}
  IN  IF reports = {} THEN activated = 0
      ELSE activated \in reports /\ \A n \in reports : activated <= n

(***************************************************************************)
(* state.py on its unlocked read-modify-write: "the consequence of losing  *)
(* that race is at most one duplicate anonymous lifecycle ping -- never a  *)
(* correctness or privacy problem".  A step that is not a switch does not  *)
(* turn the ping on again.                                                 *)
(***************************************************************************)
OnlyASwitchTurnsOn ==
  [][\A c \in Calls :
       /\ WriteTmp(c) \/ MoveTmp(c)
       /\ stateFile.is = "whole" /\ ~stateFile.enabled /\ stateFile'.enabled
       => pinging[c].op = "enable"]_pingVars

(***************************************************************************)
(* The switch holds and the collector's first is the first.                *)
(***************************************************************************)
PingIsHonest == OptOutHolds /\ ActivatedByTheFirst
=============================================================================
