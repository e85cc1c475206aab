---------------------------- MODULE Credentials ----------------------------
(***************************************************************************)
(* The credentials of the A2A economic authority: who may act on which     *)
(* delegation, how a session is bought and recovered, how the credential   *)
(* of a reserved delegation is minted, claimed and recovered, and what a   *)
(* revocation takes away.                                                  *)
(*                                                                         *)
(* One process serves every call, and no handler awaits between two of its *)
(* stores' transactions: `call' is the handler that runs, and the others   *)
(* wait.  Each transaction is a step, and the process may die between two. *)
(* What is durable survives; claims and parked tasks are in its memory.    *)
(*                                                                         *)
(* Amounts are EconomicAuthority's: here a reservation is short of its     *)
(* parent's headroom, or not, by choice, and of a delegation's authority   *)
(* what matters is whether a grant has raised it.  A session id is         *)
(* generated for its purchase, so the purchase's nonce names the session.  *)
(***************************************************************************)
EXTENDS Naturals, FiniteSets

CONSTANTS
  Nonces,       \* payments of sessions, and the sessions they buy
  Children,     \* delegations that callers reserve
  MaxTokens,    \* tokens of a delegation at a time that anything refers to
  Scopes,       \* capabilities.SCOPES
  Wanted,       \* the reservations callers ask for: parent, child, child_scopes
  MaxFaults,    \* restarts, responses that are lost, and tokens that expire
  MaxParked,    \* tasks awaiting a grant at a time
  MaxRaised,    \* delegations whose authority grants raise
  None

Delegations == Nonces \cup Children
Tokens == Delegations \X (1 .. MaxTokens)

\* A binding names who authorized a reservation, and for what.
Authorizations == [by : Tokens, scopes : SUBSET Scopes]

ASSUME CredentialsAssumption ==
  /\ Nonces \cap Children = {}
  /\ None \notin Delegations \cup Tokens \cup Authorizations
  /\ MaxTokens \in Nat \ {0} /\ MaxFaults \in Nat /\ MaxParked \in Nat /\ MaxRaised \in Nat
  /\ {"reserve", "grant", "settle", "revoke"} \subseteq Scopes
  /\ Wanted \subseteq Delegations \X Children \X ((SUBSET Scopes) \ {{}})

Buyer  == <<None, 0>>   \* the holder of a session's recovery secret

VARIABLES
  purchase,   \* session_purchases: "none", "recorded" or "claimed"
  parent, state, revoking,      \* core's delegations, without amounts
  raised,     \* those with more authority than they were created with
  token,      \* capability_tokens, and to whom each plaintext was handed
  binding,    \* reservation_authorizations
  claims,     \* pending handoffs: the authorizer each token waits for
  parked,     \* tasks in AUTH_REQUIRED
  dead,       \* delegations that a completed revocation covered
  call,       \* the handler that runs
  faults

stores == <<purchase, parent, state, revoking, raised, token, binding, dead>>
memory == <<claims, parked, call>>
vars   == <<stores, memory, faults>>

NoToken == [scopes |-> {}, status |-> "none", told |-> {}]
Idle    == [op |-> "idle", d |-> None, by |-> Buyer, scopes |-> {}]

Init ==
  /\ purchase = [n \in Nonces |-> "none"]
  /\ parent = [d \in Delegations |-> None]
  /\ state = [d \in Delegations |-> "absent"]
  /\ revoking = {}
  /\ raised = {}
  /\ token = [t \in Tokens |-> NoToken]
  /\ binding = [c \in Children |-> None]
  /\ claims = [t \in Tokens |-> None]
  /\ parked = {}
  /\ dead = {}
  /\ call = Idle
  /\ faults = 0

-----------------------------------------------------------------------------
Exists(d) == state[d] # "absent"
Active(d) == state[d] = "active"

\* authority_usd is not what the purchase, or the reservation, says it is.
HasGrown(d) == d \in raised

Lineage(d) ==
  {x \in Delegations : \A S \in SUBSET Delegations :
     d \in S /\ (\A y \in S : parent[y] # None => parent[y] \in S) => x \in S}

Subtree(d) == {x \in Delegations : Exists(x) /\ d \in Lineage(x)}

RevocationInProgress(d) == Lineage(d) \cap revoking # {}

Of(t)   == t[1]
Live(t) == token[t].status = "live"

\* Nobody presents a token whose plaintext was handed to nobody.
Authorized(t, d, scope) ==
  token[t].told # {} /\ Live(t) /\ Of(t) = d /\ scope \in token[t].scopes

(***************************************************************************)
(* A token that is dead, revoked or expired, is remembered while a binding *)
(* names it or a claim waits with it; its id may then name another.        *)
(***************************************************************************)
Named(t) == \E c \in Children : binding[c] # None /\ binding[c].by = t

Ended(t) == IF Named(t) THEN [token[t] EXCEPT !.status = "dead"] ELSE NoToken

Unused(d) == {t \in Tokens : Of(t) = d /\ ~Live(t) /\ ~Named(t) /\ claims[t] = None}
Fresh(d)  == CHOOSE t \in Unused(d) : \A u \in Unused(d) : t[2] <= u[2]

Issued(S, reader) == [scopes |-> S, status |-> "live", told |-> reader]

\* Mutant: a credential is issued beside the one that lives.
MintedBeside(d, S, reader) == [token EXCEPT ![Fresh(d)] = Issued(S, reader)]

\* What lived for the delegation is revoked as the new one is issued.
Minted(d, S, reader) ==
  [t \in Tokens |-> IF t = Fresh(d) THEN Issued(S, reader)
                    ELSE IF Of(t) = d THEN Ended(t) ELSE token[t]]

\* A claim goes with its issuer's delegation and with its own.
Purged(D) ==
  [t \in Tokens |-> IF claims[t] # None /\ {Of(t), parent[Of(t)]} \cap D # {}
                    THEN None ELSE claims[t]]

Begin(op, d, by, S) == call' = [op |-> op, d |-> d, by |-> by, scopes |-> S]
Running(op) == call.op = op
Return == call' = Idle

(***************************************************************************)
(* The response that carries a token reaches its reader, or is lost.       *)
(***************************************************************************)
Reach(readers, reader) ==
  \/ readers = {reader} /\ UNCHANGED faults
  \/ readers = {} /\ faults < MaxFaults /\ faults' = faults + 1

-----------------------------------------------------------------------------
(***************************************************************************)
(* POST /sessions, once its payment has settled.  The endpoint may say so  *)
(* of the same payment again; other terms for it are refused.              *)
(***************************************************************************)
CreateSession(n) ==
  /\ Running("idle") /\ Unused(n) # {}
  /\ purchase' = [purchase EXCEPT ![n] = IF @ = "none" THEN "recorded" ELSE @]
  /\ Begin("session", n, Buyer, Scopes)
  /\ UNCHANGED <<parent, state, revoking, raised, token, binding, claims, parked, dead, faults>>

\* Mutant: only a session that was claimed can be recovered.
RecoverableIfClaimed(n) == purchase[n] = "claimed"

Recoverable(n) == purchase[n] # "none"

\* POST /sessions/recover with the secret that the buyer committed to.
RecoverSession(n) ==
  /\ Running("idle") /\ Unused(n) # {}
  /\ Recoverable(n)
  /\ Begin("recovery", n, Buyer, Scopes)
  /\ UNCHANGED <<stores, claims, parked, faults>>

(***************************************************************************)
(* create_root answers for a root that has the authority it was created    *)
(* with; once a grant has raised it, EventConflict ends the handler.       *)
(***************************************************************************)
CreateRoot ==
  /\ call.op \in {"session", "recovery"}
  /\ \/ /\ ~HasGrown(call.d)
        /\ state' = [state EXCEPT ![call.d] = IF Exists(call.d) THEN @ ELSE "active"]
        /\ call' = [call EXCEPT !.op = IF @ = "session" THEN "issue" ELSE "rotate"]
     \/ HasGrown(call.d) /\ Return /\ UNCHANGED state
  /\ UNCHANGED <<purchase, parent, revoking, raised, token, binding, claims, parked, dead, faults>>

\* Mutant: a retry of the purchase mints again.
NeedsIssueAlways(n) == TRUE

NeedsIssue(n) == purchase[n] # "claimed"

IssueRoot ==
  \/ Running("rotate")
  \/ Running("issue") /\ NeedsIssue(call.d)

MintRoot ==
  /\ IssueRoot
  /\ \E readers \in {{}, {Buyer}} :
       Reach(readers, Buyer) /\ token' = Minted(call.d, Scopes, readers)
  /\ purchase' = [purchase EXCEPT ![call.d] = "claimed"]
  /\ Return
  /\ UNCHANGED <<parent, state, revoking, raised, binding, claims, parked, dead>>

AlreadyClaimed ==
  /\ Running("issue") /\ ~NeedsIssue(call.d)
  /\ Return
  /\ UNCHANGED <<stores, claims, parked, faults>>

-----------------------------------------------------------------------------
ValidChildScopes(t, S) == S \subseteq token[t].scopes

(***************************************************************************)
(* What a reservation asks for: the credential t, in the name of which the *)
(* child c of p is wanted with scopes S.                                   *)
(***************************************************************************)
Available(p, t, S) == Active(p) /\ ValidChildScopes(t, S)

Authorization(t, S) == [by |-> t, scopes |-> S]

BindingFits(c, t, S) == binding[c] \in {None, Authorization(t, S)}

\* record_reservation_authorization; then the headroom is looked at.
Bind(p, c, t, S) ==
  /\ Available(p, t, S) /\ ~Exists(c)
  /\ BindingFits(c, t, S)
  /\ binding' = [binding EXCEPT ![c] = Authorization(t, S)]
  /\ UNCHANGED <<purchase, parent, state, revoking, token, claims, dead, faults>>

Reserve(t, p, c, S) ==
  /\ Running("idle") /\ Unused(c) # {}
  /\ Authorized(t, p, "reserve")
  /\ Bind(p, c, t, S)
  /\ \/ call' = [op |-> "reserve", d |-> c, by |-> t, scopes |-> S] /\ UNCHANGED parked
     \/ /\ Cardinality(parked) < MaxParked
        /\ parked' = parked \cup {[p |-> p, c |-> c, by |-> t, scopes |-> S]}
        /\ UNCHANGED call
  /\ UNCHANGED raised

\* core.reserve refuses below a revocation, even one that died.
ReserveCore ==
  /\ Running("reserve")
  /\ LET c == call.d
         p == Of(call.by)
     IN  \/ /\ ~RevocationInProgress(p)
            /\ parent' = [parent EXCEPT ![c] = p]
            /\ state' = [state EXCEPT ![c] = "active"]
            /\ call' = [call EXCEPT !.op = "mint"]
         \/ RevocationInProgress(p) /\ Return /\ UNCHANGED <<parent, state>>
  /\ UNCHANGED <<purchase, revoking, raised, token, binding, claims, parked, dead, faults>>

(***************************************************************************)
(* _mint_reservation_credential: the claim waits, in memory, for the       *)
(* credential that authorized the reservation.                             *)
(***************************************************************************)
MintCredential(c, by, S) ==
  /\ token' = Minted(c, S, {})
  /\ claims' = [Purged({c}) EXCEPT ![Fresh(c)] = by]
  /\ UNCHANGED <<purchase, parent, state, revoking, binding, dead, faults>>

MintChild ==
  /\ Running("mint")
  /\ MintCredential(call.d, call.by, call.scopes)
  /\ Return
  /\ UNCHANGED <<raised, parked>>

\* Mutant: a delegation that is being revoked can be recovered.
OpenAnyway(c) == TRUE

Open(c) == Active(c) /\ ~RevocationInProgress(c)

Recovers(c, t, S) == binding[c] = Authorization(t, S)

(***************************************************************************)
(* A reservation of what exists mints nothing, but for the exact           *)
(* authorizer, with recover_credential; and nothing, EventConflict, once   *)
(* a grant has raised what it reserved.                                    *)
(***************************************************************************)
RecoverCredential(p, c, t, S) ==
  /\ Available(p, t, S)
  /\ Exists(c) /\ parent[c] = p /\ ~HasGrown(c)
  /\ Recovers(c, t, S)
  /\ Open(c)
  /\ MintCredential(c, t, S)

Recover(t, p, c, S) ==
  /\ Running("idle") /\ Unused(c) # {}
  /\ Authorized(t, p, "reserve")
  /\ RecoverCredential(p, c, t, S)
  /\ UNCHANGED <<raised, parked, call>>

(***************************************************************************)
(* A grant raises a delegation's authority; repeated, it answers again and *)
(* raises nothing, also below a revocation.                                *)
(***************************************************************************)
GrantCore(d) ==
  \/ /\ ~RevocationInProgress(d)
     /\ Cardinality(raised \cup {d}) <= MaxRaised
     /\ raised' = raised \cup {d}
  \/ UNCHANGED raised

Grant(t, d) ==
  /\ Running("idle")
  /\ Authorized(t, d, "grant")
  /\ Active(d) /\ GrantCore(d)
  /\ UNCHANGED <<purchase, parent, state, revoking, token, binding, dead, memory, faults>>

(***************************************************************************)
(* A grant on the parked task's parent resumes it, in the name of its      *)
(* authorizer, who is not authorized again.  The task ends, however the    *)
(* resumption does: also when the grant is still not enough.  Whether it   *)
(* asked to recover the credential is seen where it would.                 *)
(***************************************************************************)
ContinueAfterGrant(g, k) ==
  /\ Running("idle") /\ Unused(k.c) # {}
  /\ k \in parked /\ parked' = parked \ {k}
  /\ Authorized(g, k.p, "grant")
  /\ Active(k.p) /\ GrantCore(k.p)
  /\ \/ /\ Bind(k.p, k.c, k.by, k.scopes)
        /\ call' \in {Idle, [op |-> "reserve", d |-> k.c, by |-> k.by, scopes |-> k.scopes]}
     \/ /\ RecoverCredential(k.p, k.c, k.by, k.scopes)
        /\ UNCHANGED call
     \/ /\ Exists(k.c)
        /\ UNCHANGED <<purchase, parent, state, revoking, token, binding, dead>>
        /\ UNCHANGED <<claims, faults, call>>

\* A refused grant, or another operation on the task, fails the task.
FailTask(k) ==
  /\ Running("idle")
  /\ k \in parked /\ parked' = parked \ {k}
  /\ UNCHANGED <<stores, claims, faults, call>>

-----------------------------------------------------------------------------
IsAuthorizer(t, k) == claims[k] = t

Issuer(k) == parent[Of(k)]

Consumed(k) == claims' = [claims EXCEPT ![k] = None]

(***************************************************************************)
(* POST /capabilities/claim.  Only the authorizer redeems; its own end     *)
(* ends the claim, nobody else's does.  That the delegation may be under   *)
(* revocation is looked at as well; RevokedStaysDead says that it is not.  *)
(***************************************************************************)
Redeem(t, k) ==
  /\ Running("idle")
  /\ claims[k] # None
  /\ \/ /\ Authorized(t, Issuer(k), "reserve") /\ IsAuthorizer(t, k)
        /\ \E readers \in {{}, {t}} :
             Reach(readers, t) /\ token' = [token EXCEPT ![k].told = @ \cup readers]
     \/ /\ token[t].told # {} /\ ~Live(t) /\ claims[k] = t
        /\ UNCHANGED <<token, faults>>
  /\ Consumed(k)
  /\ UNCHANGED <<purchase, parent, state, revoking, raised, binding, dead, parked, call>>

ClaimExpires(k) ==
  /\ Running("idle")
  /\ claims[k] # None /\ Consumed(k)
  /\ UNCHANGED <<stores, parked, call, faults>>

TokenExpires(t) ==
  /\ Live(t)
  /\ faults < MaxFaults /\ faults' = faults + 1
  /\ token' = [token EXCEPT ![t] = IF claims[t] # None THEN [@ EXCEPT !.status = "dead"]
                                  ELSE Ended(t)]
  /\ UNCHANGED <<purchase, parent, state, revoking, raised, binding, dead, memory>>

-----------------------------------------------------------------------------
MaySettle(d) == Active(d) /\ \A x \in Subtree(d) \ {d} : ~Active(x)

SettleCore(d) == state' = [state EXCEPT ![d] = "settled"]

\* The credential of a delegation that settled lives on.
Settle(t, d) ==
  /\ Running("idle")
  /\ Authorized(t, d, "settle")
  /\ MaySettle(d) /\ SettleCore(d)
  /\ UNCHANGED <<purchase, parent, revoking, raised, token, binding, dead, memory, faults>>

\* A credential revokes its delegation and those below it.
Revoke(t, d) ==
  /\ Running("idle")
  /\ Exists(d)
  /\ \E x \in Lineage(d) : Authorized(t, x, "revoke")
  /\ revoking' = revoking \cup {d}
  /\ Begin("revoke", d, Buyer, {})
  /\ UNCHANGED <<purchase, parent, state, raised, token, binding, claims, parked, dead, faults>>

RevokeSettles ==
  /\ Running("revoke")
  /\ \E x \in Subtree(call.d) : MaySettle(x) /\ SettleCore(x)
  /\ UNCHANGED <<purchase, parent, revoking, raised, token, binding, dead, memory, faults>>

RevokeTokens ==
  /\ Running("revoke")
  /\ \A x \in Subtree(call.d) : ~Active(x)
  /\ token' = [t \in Tokens |-> IF Of(t) \in Subtree(call.d)
                                THEN Ended(t) ELSE token[t]]
  /\ claims' = Purged(Subtree(call.d))
  /\ dead' = dead \cup Subtree(call.d)
  /\ Return
  /\ UNCHANGED <<purchase, parent, state, revoking, raised, binding, parked, faults>>

\* The process dies and is started again.
Restart ==
  /\ faults < MaxFaults /\ faults' = faults + 1
  /\ claims' = [t \in Tokens |-> None] /\ parked' = {} /\ Return
  /\ UNCHANGED <<stores>>

-----------------------------------------------------------------------------
Proceed ==
  \/ CreateRoot \/ MintRoot \/ AlreadyClaimed
  \/ ReserveCore \/ MintChild
  \/ RevokeSettles \/ RevokeTokens

Next ==
  \/ \E n \in Nonces : CreateSession(n) \/ RecoverSession(n)
  \/ \E t \in Tokens, w \in Wanted :
       \/ Reserve(t, w[1], w[2], w[3])
       \/ Recover(t, w[1], w[2], w[3])
  \/ \E k \in parked : FailTask(k) \/ \E g \in Tokens : ContinueAfterGrant(g, k)
  \/ \E k \in Tokens : ClaimExpires(k) \/ TokenExpires(k) \/ \E t \in Tokens : Redeem(t, k)
  \/ \E t \in Tokens, d \in Delegations : Grant(t, d) \/ Settle(t, d) \/ Revoke(t, d)
  \/ Proceed
  \/ Restart

Spec == Init /\ [][Next]_vars

HasRoot(n) == \E t \in Tokens : Live(t) /\ Of(t) = n /\ token[t].told # {}

(***************************************************************************)
(* A handler that runs goes on, and a buyer without a credential asks for  *)
(* it until its request is served; requests are served as they come.       *)
(***************************************************************************)
FairSpec ==
  /\ Spec
  /\ WF_vars(call # Idle /\ Proceed)
  /\ \A n \in Nonces : SF_vars(~HasRoot(n) /\ RecoverSession(n))

-----------------------------------------------------------------------------
Token == [scopes : SUBSET Scopes, status : {"none", "live", "dead"},
          told : SUBSET (Tokens \cup {Buyer})]

TypeOK ==
  /\ purchase \in [Nonces -> {"none", "recorded", "claimed"}]
  /\ parent \in [Delegations -> Delegations \cup {None}]
  /\ state \in [Delegations -> {"absent", "active", "settled"}]
  /\ revoking \subseteq Delegations
  /\ raised \subseteq Delegations
  /\ token \in [Tokens -> Token]
  /\ binding \in [Children -> Authorizations \cup {None}]
  /\ claims \in [Tokens -> Tokens \cup {None}]
  /\ parked \subseteq [p : Delegations, c : Children, by : Tokens, scopes : SUBSET Scopes]
  /\ dead \subseteq Delegations
  /\ call \in [op : {"idle", "session", "recovery", "issue", "rotate", "reserve", "mint", "revoke"},
               d : Delegations \cup {None}, by : Tokens \cup {Buyer}, scopes : SUBSET Scopes]
  /\ faults \in 0 .. MaxFaults

(***************************************************************************)
(* At most one credential of a delegation lives, however it was minted,    *)
(* claimed, lost or recovered: no plaintext that was handed to somebody    *)
(* works beside another one.                                               *)
(***************************************************************************)
OneLiveCredential ==
  \A t, u \in Tokens : Live(t) /\ Live(u) /\ Of(t) = Of(u) => t = u

(***************************************************************************)
(* A child's credential descends from the credential that authorized its   *)
(* reservation: it carries no scope that one lacks, its plaintext, and its *)
(* claim, are for the holder of that one only, and that one was of the     *)
(* child's parent; also when the reservation was resumed by another        *)
(* credential's grant, or recovered after a restart.                       *)
(***************************************************************************)
CredentialsDescend ==
  \A t \in Tokens : Of(t) \in Children /\ token[t] # NoToken =>
    LET authorizer == binding[Of(t)].by
    IN  /\ token[t].scopes \subseteq token[authorizer].scopes
        /\ Of(authorizer) = parent[Of(t)]
        /\ token[t].told \subseteq {authorizer}
        /\ claims[t] \in {None, authorizer}

(***************************************************************************)
(* What a completed revocation covered stays dead: it is not funded again, *)
(* nothing is reserved below it, no parked task or late recovery mints a   *)
(* credential for it, and no claim on one is left.  A session's buyer may  *)
(* still recover the credential of its dead root, which can only be read.  *)
(***************************************************************************)
RevokedStaysDead ==
  /\ \A d \in dead : ~Active(d) /\ Subtree(d) \subseteq dead
  /\ \A t \in Tokens : Of(t) \in dead =>
       /\ Live(t) => Of(t) \in Nonces
       /\ claims[t] = None
  /\ Running("idle") => \A t \in Tokens : claims[t] # None => ~RevocationInProgress(Of(t))

(***************************************************************************)
(* A request that is delivered twice ends no credential: only a recovery   *)
(* that was asked for, a revocation and the clock do.                      *)
(***************************************************************************)
RetriesEndNothing ==
  [][call.op \notin {"idle", "rotate", "revoke"} /\ call' # call =>
       \A t \in Tokens : Live(t) => Live(t)']_vars

(***************************************************************************)
(* Whoever paid for a session that was recorded gets its root's credential *)
(* whatever crashed, was lost or expired on the way, unless the root was   *)
(* raised: create_root's conflict then ends every recovery of it.          *)
(***************************************************************************)
SessionRecovered == \A n \in Nonces : purchase[n] # "none" ~> HasRoot(n) \/ HasGrown(n)

(***************************************************************************)
(* Whatever is repeated, recovered or rotated, a delegation has one live   *)
(* credential at most, and it descends from one that could issue it.       *)
(***************************************************************************)
CredentialsAreSound == TypeOK /\ OneLiveCredential /\ CredentialsDescend
=============================================================================
