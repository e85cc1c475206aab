-------------------------- MODULE CredentialsProofs --------------------------
(***************************************************************************)
(* What Credentials guarantees for any delegations, scopes, tokens and     *)
(* wishes of the callers, and any number of restarts, lost responses and   *)
(* parked tasks: a delegation has one live credential at most, descended   *)
(* from the one that authorized it, and what was revoked stays dead.       *)
(***************************************************************************)
EXTENDS Credentials, WellFoundedInduction, TLAPS

-----------------------------------------------------------------------------
(***************************************************************************)
(* The inductive invariant, in parts.  First, the delegations: only what   *)
(* exists has a parent, a child's parent is the delegation whose           *)
(* credential its binding names, and a binding's scopes are scopes of that *)
(* credential, whose record is kept while the binding names it.            *)
(***************************************************************************)
ForestSound ==
  /\ \A d \in Delegations : parent[d] # None => d \in Children /\ Exists(d) /\ Exists(parent[d])
  /\ \A c \in Children : Exists(c) => binding[c] # None /\ parent[c] = Of(binding[c].by)
  /\ revoking \cup dead \subseteq {d \in Delegations : Exists(d)}

BindingsSound ==
  /\ \A c \in Children : binding[c] # None =>
       /\ Exists(Of(binding[c].by)) /\ token[binding[c].by] # NoToken
       /\ binding[c].scopes \subseteq token[binding[c].by].scopes
  /\ \A k \in parked : binding[k.c] = Authorization(k.by, k.scopes) /\ Of(k.by) = k.p

(***************************************************************************)
(* The tokens of a child carry its binding's scopes and are for the holder *)
(* it names; only a child's token is claimed; a session that nobody        *)
(* claimed has no live token.                                              *)
(***************************************************************************)
ChildToken(t) ==
  /\ Exists(Of(t)) /\ token[t].scopes = binding[Of(t)].scopes
  /\ token[t].told \subseteq {binding[Of(t)].by}
  /\ claims[t] \in {None, binding[Of(t)].by}

TokensSound ==
  /\ OneLiveCredential
  /\ \A t \in Tokens : Of(t) \in Children /\ token[t] # NoToken => ChildToken(t)
  /\ \A t \in Tokens : claims[t] # None => Of(t) \in Children /\ token[t] # NoToken
  /\ \A t \in Tokens : Live(t) /\ Of(t) \in Nonces => purchase[Of(t)] = "claimed"

(***************************************************************************)
(* What a handler that was interrupted between two transactions counts on. *)
(***************************************************************************)
CallSound ==
  /\ call.op \in {"session", "recovery", "issue", "rotate"} => call.d \in Nonces
  /\ call.op \in {"reserve", "mint"} =>
       /\ call.d \in Children /\ call.by \in Tokens
       /\ binding[call.d] = Authorization(call.by, call.scopes)
  /\ call.op = "reserve" => ~Exists(call.d)
  /\ call.op = "mint" => /\ Open(call.d)
                         /\ \A t \in Tokens : Of(t) = call.d => ~Live(t)
  /\ call.op = "revoke" => call.d \in revoking
  /\ call.op \notin {"idle", "revoke"} => Unused(call.d) # {}

(***************************************************************************)
(* What a completed revocation covered is under a revocation, and so is    *)
(* all below it; a claim below one is there only until its handler ends.   *)
(***************************************************************************)
DeadSound ==
  /\ \A d \in dead : ~Active(d) /\ RevocationInProgress(d) /\ Subtree(d) \subseteq dead
  /\ \A t \in Tokens : Of(t) \in dead => (Live(t) => Of(t) \in Nonces) /\ claims[t] = None
  /\ \A t \in Tokens : claims[t] # None =>
       \/ ~RevocationInProgress(Of(t))
       \/ call.op = "revoke" /\ call.d \in Lineage(Of(t))

IInv == TypeOK /\ ForestSound /\ BindingsSound /\ TokensSound /\ CallSound /\ DeadSound

-----------------------------------------------------------------------------
(***************************************************************************)
(* The lineage of a delegation under the parents par: the least set with   *)
(* it in it that is closed under par.                                      *)
(***************************************************************************)
Closed(par, S) == \A y \in S : par[y] # None => par[y] \in S

LineageIn(par, d) ==
  {x \in Delegations : \A S \in SUBSET Delegations : d \in S /\ Closed(par, S) => x \in S}

LEMMA LineageIs ==
  ASSUME NEW par \in [Delegations -> Delegations \cup {None}], NEW d \in Delegations
  PROVE  /\ d \in LineageIn(par, d) /\ LineageIn(par, d) \subseteq Delegations
         /\ Closed(par, LineageIn(par, d))
         /\ \A S \in SUBSET Delegations : d \in S /\ Closed(par, S) => LineageIn(par, d) \subseteq S
<1>1. d \in LineageIn(par, d) /\ LineageIn(par, d) \subseteq Delegations
  BY DEF LineageIn
<1>2. ASSUME NEW y \in LineageIn(par, d), par[y] # None
      PROVE  par[y] \in LineageIn(par, d)
  <2>1. y \in Delegations /\ par[y] \in Delegations
    BY <1>2 DEF LineageIn
  <2>2. ASSUME NEW S \in SUBSET Delegations, d \in S, Closed(par, S)
        PROVE  par[y] \in S
    <3>1. y \in S
      BY <2>2 DEF LineageIn
    <3> QED
      BY <1>2, <2>2, <3>1 DEF Closed
  <2> QED
    BY <2>1, <2>2 DEF LineageIn
<1>3. \A S \in SUBSET Delegations : d \in S /\ Closed(par, S) => LineageIn(par, d) \subseteq S
  BY DEF LineageIn
<1> QED
  BY <1>1, <1>2, <1>3 DEF Closed

LEMMA LineageGoesUp ==
  ASSUME NEW par \in [Delegations -> Delegations \cup {None}], NEW d \in Delegations,
         NEW x \in LineageIn(par, d)
  PROVE  LineageIn(par, x) \subseteq LineageIn(par, d)
<1>1. x \in Delegations /\ LineageIn(par, d) \in SUBSET Delegations /\ Closed(par, LineageIn(par, d))
  BY LineageIs
<1> QED
  BY <1>1, LineageIs

(***************************************************************************)
(* A new delegation c below p changes the lineage of nobody else.          *)
(***************************************************************************)
LEMMA LineageGrows ==
  ASSUME NEW par \in [Delegations -> Delegations \cup {None}],
         NEW E \in SUBSET Delegations, Closed(par, E),
         NEW c \in Delegations \ E, NEW p \in E,
         NEW new \in [Delegations -> Delegations \cup {None}],
         new[c] = p, \A y \in Delegations \ {c} : new[y] = par[y]
  PROVE  /\ \A x \in E : LineageIn(new, x) = LineageIn(par, x) /\ LineageIn(par, x) \subseteq E
         /\ LineageIn(new, c) = {c} \cup LineageIn(par, p)
<1>1. /\ new \in [Delegations -> Delegations \cup {None}] /\ new[c] = p
      /\ \A y \in Delegations \ {c} : new[y] = par[y]
  OBVIOUS
<1>2. ASSUME NEW x \in E
      PROVE  LineageIn(new, x) = LineageIn(par, x) /\ LineageIn(par, x) \subseteq E
  <2>1. LineageIn(par, x) \subseteq E
    BY LineageIs
  <2>2. Closed(new, LineageIn(par, x))
    <3>1. Closed(par, LineageIn(par, x)) /\ c \notin LineageIn(par, x)
      BY <2>1, LineageIs
    <3> QED
      BY <1>1, <2>1, <3>1 DEF Closed
  <2>3. LineageIn(new, x) \subseteq LineageIn(par, x)
    <3>1. x \in LineageIn(par, x) /\ LineageIn(par, x) \in SUBSET Delegations /\ x \in Delegations
      BY LineageIs
    <3> QED
      BY <1>1, <2>2, <3>1, LineageIs
  <2>4. Closed(par, LineageIn(new, x))
    <3>1. Closed(new, LineageIn(new, x)) /\ c \notin LineageIn(new, x)
      BY <1>1, <2>1, <2>3, LineageIs
    <3> QED
      BY <1>1, <2>1, <2>3, <3>1 DEF Closed
  <2>5. LineageIn(par, x) \subseteq LineageIn(new, x)
    <3>1. x \in LineageIn(new, x) /\ LineageIn(new, x) \in SUBSET Delegations /\ x \in Delegations
      BY <1>1, LineageIs
    <3> QED
      BY <2>4, <3>1, LineageIs
  <2> QED
    BY <2>1, <2>3, <2>5
<1>3. LineageIn(new, c) = {c} \cup LineageIn(par, p)
  <2> DEFINE L == LineageIn(par, p)
  <2>1. L = LineageIn(new, p) /\ L \subseteq E /\ p \in L /\ Closed(new, L)
    BY <1>1, <1>2, LineageIs
  <2>2. /\ c \in LineageIn(new, c) /\ LineageIn(new, c) \subseteq Delegations
        /\ Closed(new, LineageIn(new, c))
        /\ \A S \in SUBSET Delegations : c \in S /\ Closed(new, S) => LineageIn(new, c) \subseteq S
    BY <1>1, LineageIs
  <2> HIDE DEF L
  <2>3. Closed(new, {c} \cup L) /\ {c} \cup L \in SUBSET Delegations
    BY <1>1, <2>1 DEF Closed
  <2>4. LineageIn(new, c) \subseteq {c} \cup L
    BY <2>2, <2>3
  <2>5. p \in LineageIn(new, c)
    <3>1. p # None
      BY CredentialsAssumption
    <3> QED
      BY <1>1, <2>2, <3>1 DEF Closed
  <2>6. L \subseteq LineageIn(new, c)
    BY <1>1, <2>1, <2>5, LineageGoesUp
  <2> QED
    BY <2>2, <2>4, <2>6 DEF L
<1> QED
  BY <1>2, <1>3

LEMMA LineageOf ==
  \A d : Lineage(d) = LineageIn(parent, d)
BY DEF Lineage, LineageIn, Closed

-----------------------------------------------------------------------------
(***************************************************************************)
(* The tokens: a fresh one, one that ends, and all of them after a mint.   *)
(***************************************************************************)
LEMMA BuyerIsNoToken == Buyer \notin Tokens
BY CredentialsAssumption DEF Buyer, Tokens

LEMMA TokenIs ==
  /\ \A t \in Tokens : Of(t) \in Delegations
  /\ NoToken \in Token /\ NoToken.status # "live" /\ NoToken.told = {}
BY DEF Tokens, Of, NoToken, Token

LEMMA FreshIs ==
  ASSUME NEW d \in Delegations, Unused(d) # {}
  PROVE  /\ Fresh(d) \in Tokens /\ Of(Fresh(d)) = d /\ ~Live(Fresh(d)) /\ ~Named(Fresh(d))
         /\ claims[Fresh(d)] = None
<1> DEFINE numbers == {t[2] : t \in Unused(d)}
           less    == OpToRel(<, Nat)
<1>1. Unused(d) \subseteq Tokens /\ \A t \in Tokens : t[2] \in Nat
  BY CredentialsAssumption DEF Unused, Tokens
<1>2. numbers \subseteq Nat /\ numbers # {}
  BY <1>1
<1>3. IsWellFoundedOn(less, Nat)
  BY NatLessThanWellFounded
<1>4. less = {p \in Nat \X Nat : p[1] < p[2]}
  BY DEF OpToRel
<1> HIDE DEF less, numbers
<1>5. PICK n \in numbers : \A m \in numbers : <<m, n>> \notin less
  BY <1>2, <1>3, WFMin
<1>6. ASSUME NEW m \in numbers
      PROVE  n <= m
  <2>1. m \in Nat /\ n \in Nat /\ <<m, n>> \notin less
    BY <1>2, <1>5
  <2>2. <<m, n>> \in Nat \X Nat /\ <<m, n>>[1] = m /\ <<m, n>>[2] = n
    BY <2>1
  <2>3. ~(m < n)
    BY <1>4, <2>1, <2>2
  <2> QED
    BY <2>1, <2>3
<1>7. \E t \in Unused(d) : \A u \in Unused(d) : t[2] <= u[2]
  BY <1>6 DEF numbers
<1>8. Fresh(d) \in Unused(d)
  BY <1>7 DEF Fresh
<1> QED
  BY <1>8 DEF Unused

LEMMA EndedIs ==
  ASSUME TypeOK, NEW t \in Tokens
  PROVE  /\ Ended(t) \in Token /\ Ended(t).status # "live"
         /\ Named(t) => Ended(t) # NoToken /\ Ended(t).scopes = token[t].scopes /\ Ended(t).told = token[t].told
         /\ ~Named(t) => Ended(t) = NoToken
<1>1. token[t] \in Token
  BY DEF TypeOK
<1>2. [token[t] EXCEPT !.status = "dead"] \in Token
      /\ [token[t] EXCEPT !.status = "dead"].status = "dead"
      /\ [token[t] EXCEPT !.status = "dead"].scopes = token[t].scopes
      /\ [token[t] EXCEPT !.status = "dead"].told = token[t].told
  BY <1>1 DEF Token
<1>3. NoToken.status = "none"
  BY DEF NoToken
<1> QED
  BY <1>2, <1>3, TokenIs DEF Ended

Mints(d, S, readers) ==
  /\ token' \in [Tokens -> Token]
  /\ token'[Fresh(d)] = Issued(S, readers)
  /\ \A t \in Tokens \ {Fresh(d)} : token'[t] = IF Of(t) = d THEN Ended(t) ELSE token[t]

LEMMA MintedIs ==
  ASSUME TypeOK, NEW d \in Delegations, NEW S \in SUBSET Scopes,
         NEW readers \in SUBSET (Tokens \cup {Buyer}), Unused(d) # {},
         token' = Minted(d, S, readers)
  PROVE  Mints(d, S, readers)
<1>1. Fresh(d) \in Tokens
  BY FreshIs
<1>2. Issued(S, readers) \in Token
  BY DEF Issued, Token
<1>3. \A t \in Tokens : Ended(t) \in Token /\ token[t] \in Token
  BY EndedIs DEF TypeOK
<1> QED
  BY <1>1, <1>2, <1>3 DEF Minted, Mints

-----------------------------------------------------------------------------
(***************************************************************************)
(* The forest: a root is alone in its lineage, what exists is below what   *)
(* exists, and what is below a dead delegation is below its revocation.    *)
(***************************************************************************)
LEMMA ForestIs ==
  ASSUME TypeOK, ForestSound
  PROVE  /\ \A d \in Delegations : /\ d \in Lineage(d) /\ Lineage(d) \subseteq Delegations
                                   /\ \A x \in Lineage(d) : Lineage(x) \subseteq Lineage(d)
         /\ \A n \in Nonces : Lineage(n) = {n}
         /\ Closed(parent, {d \in Delegations : Exists(d)})
         /\ \A d \in Delegations : Exists(d) => \A x \in Lineage(d) : Exists(x)
<1>1. parent \in [Delegations -> Delegations \cup {None}]
  BY DEF TypeOK
<1>2. \A d \in Delegations : /\ d \in Lineage(d) /\ Lineage(d) \subseteq Delegations
                             /\ \A x \in Lineage(d) : Lineage(x) \subseteq Lineage(d)
  BY <1>1, LineageIs, LineageGoesUp, LineageOf
<1>3. ASSUME NEW n \in Nonces
      PROVE  Lineage(n) = {n}
  <2>1. n \in Delegations /\ n \notin Children
    BY CredentialsAssumption DEF Delegations
  <2>2. parent[n] = None
    BY <2>1 DEF ForestSound
  <2>3. Closed(parent, {n}) /\ {n} \in SUBSET Delegations
    BY <2>1, <2>2 DEF Closed
  <2> QED
    BY <1>1, <1>2, <2>1, <2>3, LineageIs, LineageOf
<1>4. Closed(parent, {d \in Delegations : Exists(d)})
  BY <1>1, CredentialsAssumption DEF ForestSound, Closed
<1>5. ASSUME NEW d \in Delegations, Exists(d)
      PROVE  \A x \in Lineage(d) : Exists(x)
  <2>1. d \in {y \in Delegations : Exists(y)} /\ {y \in Delegations : Exists(y)} \in SUBSET Delegations
    BY <1>5
  <2>2. Lineage(d) \subseteq {y \in Delegations : Exists(y)}
    BY <1>1, <1>4, <2>1, LineageIs, LineageOf
  <2> QED
    BY <2>2
<1> QED
  BY <1>2, <1>3, <1>4, <1>5

LEMMA LineageStays ==
  ASSUME UNCHANGED parent
  PROVE  \A d : Lineage(d)' = Lineage(d)
BY DEF Lineage

-----------------------------------------------------------------------------
(***************************************************************************)
(* A claim, a task or a handler ends, or a delegation's authority is       *)
(* raised: nothing else that is durable changes.                           *)
(***************************************************************************)
LEMMA MemoryFades ==
  ASSUME IInv, UNCHANGED <<purchase, parent, state, revoking, token, binding, dead>>,
         raised' \subseteq Delegations,
         claims' \in [Tokens -> Tokens \cup {None}],
         \A t \in Tokens : claims'[t] \in {claims[t], None},
         call.op # "revoke" \/ \A t \in Tokens : claims'[t] = None,
         parked' \subseteq parked, call' \in {call, Idle}, call'.op = "idle",
         faults' \in 0 .. MaxFaults
  PROVE  IInv'
<1>1. /\ UNCHANGED <<purchase, parent, state, revoking, token, binding, dead>>
      /\ TypeOK /\ ForestSound /\ BindingsSound /\ TokensSound /\ DeadSound
  BY DEF IInv
<1>2. TypeOK'
  BY <1>1 DEF TypeOK, Idle
<1>3. ForestSound' /\ BindingsSound'
  BY <1>1 DEF ForestSound, BindingsSound, Exists
<1>4. TokensSound'
  <2>1. \A t \in Tokens : ChildToken(t) => ChildToken(t)'
    BY <1>1 DEF ChildToken, Exists
  <2> QED
    BY <1>1, <2>1 DEF TokensSound, OneLiveCredential, Live
<1>5. CallSound'
  BY DEF CallSound
<1>6. DeadSound'
  <2>1. \A d : Lineage(d)' = Lineage(d)
    BY <1>1, LineageStays
  <2>2. \A d : Subtree(d)' = Subtree(d) /\ (Active(d)' <=> Active(d))
                /\ (RevocationInProgress(d)' <=> RevocationInProgress(d))
    BY <1>1, <2>1 DEF Subtree, Exists, Active, RevocationInProgress
  <2>3. \A t \in Tokens : claims'[t] # None => ~RevocationInProgress(Of(t))
    BY <1>1 DEF DeadSound
  <2> QED
    BY <1>1, <2>2, <2>3 DEF DeadSound, Live
<1> QED
  BY <1>2, <1>3, <1>4, <1>5, <1>6 DEF IInv

-----------------------------------------------------------------------------
LEMMA InitIInv == Init => IInv
<1> SUFFICES ASSUME Init PROVE IInv
  OBVIOUS
<1>1. TypeOK
  BY CredentialsAssumption DEF Init, TypeOK, Token, NoToken, Idle
<1>2. ForestSound
  BY CredentialsAssumption DEF Init, ForestSound, Exists, Delegations
<1>3. BindingsSound
  BY DEF Init, BindingsSound
<1>4. TokensSound
  BY DEF Init, TokensSound, OneLiveCredential, Live, NoToken
<1>5. CallSound
  BY DEF Init, CallSound, Idle
<1>6. DeadSound
  BY DEF Init, DeadSound
<1> QED
  BY <1>1, <1>2, <1>3, <1>4, <1>5, <1>6 DEF IInv

(***************************************************************************)
(* The handlers of a session, before its token is minted.                  *)
(***************************************************************************)
LEMMA SessionStep ==
  ASSUME IInv, NEW n \in Nonces, CreateSession(n) \/ RecoverSession(n)
  PROVE  IInv'
<1>1. /\ call.op = "idle" /\ Unused(n) # {} /\ n \in Delegations
      /\ \E op \in {"session", "recovery"} :
           call' = [op |-> op, d |-> n, by |-> Buyer, scopes |-> Scopes]
      /\ UNCHANGED <<parent, state, revoking, raised, token, binding, claims, parked, dead, faults>>
  BY DEF CreateSession, RecoverSession, Running, Begin, stores, Delegations
<1>2. purchase' \in [Nonces -> {"none", "recorded", "claimed"}]
      /\ \A m \in Nonces : purchase[m] = "claimed" => purchase'[m] = "claimed"
  BY DEF CreateSession, RecoverSession, stores, IInv, TypeOK
<1>3. call'.op \in {"session", "recovery"} /\ call'.d = n
      /\ call' \in [op : {"idle", "session", "recovery", "issue", "rotate", "reserve", "mint", "revoke"},
                    d : Delegations \cup {None}, by : Tokens \cup {Buyer}, scopes : SUBSET Scopes]
  BY <1>1
<1>4. TypeOK'
  BY <1>1, <1>2, <1>3 DEF IInv, TypeOK
<1>5. ForestSound' /\ BindingsSound'
  BY <1>1 DEF IInv, ForestSound, Exists, BindingsSound
<1>6. TokensSound'
  <2>1. TokensSound /\ \A t : ChildToken(t)' = ChildToken(t) /\ Live(t)' = Live(t)
    BY <1>1 DEF IInv, ChildToken, Exists, Live
  <2>2. \A t \in Tokens : Live(t) /\ Of(t) \in Nonces => purchase'[Of(t)] = "claimed"
    BY <1>2, <2>1 DEF TokensSound
  <2> QED
    BY <1>1, <2>1, <2>2 DEF TokensSound, OneLiveCredential
<1>7. CallSound'
  BY <1>1, <1>3 DEF CallSound, Unused, Named, Live
<1>8. DeadSound'
  <2>1. DeadSound /\ \A d : Lineage(d)' = Lineage(d)
    BY <1>1, LineageStays DEF IInv
  <2>2. \A d : Subtree(d)' = Subtree(d) /\ (Active(d)' <=> Active(d))
                /\ (RevocationInProgress(d)' <=> RevocationInProgress(d))
    BY <1>1, <2>1 DEF Subtree, Exists, Active, RevocationInProgress
  <2> QED
    BY <1>1, <2>1, <2>2 DEF DeadSound, Live
<1> QED
  BY <1>4, <1>5, <1>6, <1>7, <1>8 DEF IInv

LEMMA CreateRootStep ==
  ASSUME IInv, CreateRoot
  PROVE  IInv'
<1> DEFINE n == call.d
<1>1. /\ call.op \in {"session", "recovery"} /\ n \in Nonces /\ n \in Delegations /\ n \notin Children
      /\ Unused(n) # {}
  BY CredentialsAssumption DEF CreateRoot, IInv, CallSound, Delegations
<1>0. CASE HasGrown(n)
  <2>1. /\ UNCHANGED <<purchase, parent, state, revoking, raised, token, binding, dead>>
        /\ UNCHANGED <<claims, parked, faults>> /\ call' = Idle /\ Idle.op = "idle"
    BY <1>0 DEF CreateRoot, Return, Idle
  <2> QED
    BY <1>1, <2>1, MemoryFades DEF IInv, TypeOK
<1> SUFFICES ASSUME ~HasGrown(n)
             PROVE  IInv'
  BY <1>0
<1>2. /\ state' = [state EXCEPT ![n] = IF Exists(n) THEN @ ELSE "active"]
      /\ call' = [call EXCEPT !.op = IF @ = "session" THEN "issue" ELSE "rotate"]
      /\ UNCHANGED <<purchase, parent, revoking, raised, token, binding, claims, parked, dead, faults>>
  BY DEF CreateRoot
<1>3. TypeOK /\ ForestSound /\ BindingsSound /\ TokensSound /\ DeadSound
  BY DEF IInv
<1> HIDE DEF n
<1>4. /\ state' \in [Delegations -> {"absent", "active", "settled"}]
      /\ \A d \in Delegations : Exists(d) => state'[d] = state[d]
      /\ \A d \in Delegations : d # n => state'[d] = state[d]
  BY <1>1, <1>2, <1>3 DEF TypeOK, Exists
<1>5. /\ call' \in [op : {"idle", "session", "recovery", "issue", "rotate", "reserve", "mint", "revoke"},
                    d : Delegations \cup {None}, by : Tokens \cup {Buyer}, scopes : SUBSET Scopes]
      /\ call'.op \in {"issue", "rotate"} /\ call'.d = n
  <2>1. call \in [op : {"idle", "session", "recovery", "issue", "rotate", "reserve", "mint", "revoke"},
                    d : Delegations \cup {None}, by : Tokens \cup {Buyer}, scopes : SUBSET Scopes]
    BY <1>3 DEF TypeOK
  <2> QED
    BY <1>2, <2>1 DEF n
<1>6. /\ \A d \in Delegations : Exists(d) => Exists(d)'
      /\ \A d \in Delegations : d # n => (Exists(d)' <=> Exists(d))
  BY <1>4 DEF Exists
<1>7. TypeOK'
  BY <1>2, <1>3, <1>4, <1>5 DEF TypeOK
<1>8. ForestSound'
  <2>1. \A d \in Delegations : parent[d] # None => parent[d] \in Delegations
    BY <1>3 DEF TypeOK
  <2>2. Children \subseteq Delegations
    BY DEF Delegations
  <2> QED
    BY <1>1, <1>2, <1>3, <1>6, <2>1, <2>2 DEF ForestSound
<1>9. BindingsSound'
  <2>1. \A c \in Children : binding[c] # None => binding[c].by \in Tokens
    BY <1>3 DEF TypeOK, Authorizations
  <2> QED
    BY <1>2, <1>3, <1>6, <2>1, TokenIs DEF BindingsSound
<1>10. TokensSound'
  BY <1>2, <1>3, <1>6, TokenIs DEF TokensSound, OneLiveCredential, ChildToken, Live
<1>11. CallSound'
  BY <1>1, <1>2, <1>5 DEF CallSound, Unused, Named, Live
<1>12. DeadSound'
  <2>1. \A d : Lineage(d)' = Lineage(d)
    BY <1>2, LineageStays
  <2>2. dead \subseteq Delegations /\ \A d \in dead : Exists(d)
    BY <1>3 DEF ForestSound, TypeOK
  <2>3. \A d : RevocationInProgress(d)' <=> RevocationInProgress(d)
    BY <1>2, <2>1 DEF RevocationInProgress
  <2>4. ASSUME NEW d \in dead
        PROVE  ~Active(d)' /\ RevocationInProgress(d)' /\ Subtree(d)' \subseteq dead
    <3>1. ~Active(d) /\ RevocationInProgress(d) /\ Subtree(d) \subseteq dead
      BY <1>3 DEF DeadSound
    <3>2. ~Active(d)'
      BY <1>4, <2>2, <3>1 DEF Active
    <3>3. ASSUME NEW x \in Delegations, Exists(x)', d \in Lineage(x)
          PROVE  x \in dead
      <4>1. CASE Exists(x)
        BY <3>1, <3>3, <4>1 DEF Subtree
      <4>2. CASE ~Exists(x)
        BY <1>1, <1>3, <1>6, <2>2, <3>3, <4>2, ForestIs
      <4> QED
        BY <4>1, <4>2
    <3> QED
      BY <2>1, <2>3, <3>1, <3>2, <3>3 DEF Subtree
  <2>5. \A t \in Tokens : Of(t) \in dead => (Live(t) => Of(t) \in Nonces) /\ claims[t] = None
    BY <1>3 DEF DeadSound
  <2>6. \A t \in Tokens : claims[t] # None => ~RevocationInProgress(Of(t))
    BY <1>1, <1>3 DEF DeadSound
  <2> QED
    BY <1>2, <2>3, <2>4, <2>5, <2>6 DEF DeadSound, Live
<1> QED
  BY <1>7, <1>8, <1>9, <1>10, <1>11, <1>12 DEF IInv

-----------------------------------------------------------------------------
(***************************************************************************)
(* What may become of a token that is not the one being minted: it is      *)
(* forgotten, which one that a binding names is not, or it keeps its       *)
(* record; and it does not come to life.                                   *)
(***************************************************************************)
Fades(t) ==
  /\ \/ token'[t] = NoToken
     \/ /\ token[t] # NoToken
        /\ token'[t].scopes = token[t].scopes /\ token'[t].told = token[t].told
  /\ Live(t)' => Live(t)
  /\ Named(t) /\ token[t] # NoToken => token'[t] # NoToken

LEMMA EndedFades ==
  ASSUME TypeOK, BindingsSound, NEW t \in Tokens, token'[t] \in {token[t], Ended(t)}
  PROVE  Fades(t) /\ (token'[t] = Ended(t) => ~Live(t)')
<1>1. Live(t)' <=> token'[t].status = "live"
  BY DEF Live
<1>2. CASE token'[t] = token[t] /\ token'[t] # Ended(t)
  BY <1>1, <1>2 DEF Fades, Live
<1>3. CASE token'[t] = Ended(t) /\ Named(t)
  <2>1. Ended(t) # NoToken /\ Ended(t).scopes = token[t].scopes /\ Ended(t).told = token[t].told
        /\ Ended(t).status # "live"
    BY <1>3, EndedIs
  <2>2. token[t] # NoToken
    BY <1>3 DEF Named, BindingsSound
  <2>3. ~Live(t)'
    BY <1>1, <1>3, <2>1
  <2> QED
    BY <1>3, <2>1, <2>2, <2>3 DEF Fades
<1>4. CASE token'[t] = Ended(t) /\ ~Named(t)
  <2>1. token'[t] = NoToken /\ ~Live(t)'
    BY <1>1, <1>4, EndedIs
  <2> QED
    BY <1>4, <2>1 DEF Fades
<1> QED
  BY <1>2, <1>3, <1>4

LEMMA MintedFades ==
  ASSUME TypeOK, BindingsSound, NEW d \in Delegations, NEW S \in SUBSET Scopes,
         NEW readers \in SUBSET (Tokens \cup {Buyer}), Unused(d) # {},
         token' = Minted(d, S, readers)
  PROVE  \A t \in Tokens \ {Fresh(d)} : /\ Fades(t)
                                        /\ Of(t) = d => ~Live(t)'
                                        /\ Of(t) # d => token'[t] = token[t]
<1> SUFFICES ASSUME NEW t \in Tokens \ {Fresh(d)}
             PROVE  /\ Fades(t)
                    /\ Of(t) = d => ~Live(t)'
                    /\ Of(t) # d => token'[t] = token[t]
  OBVIOUS
<1>1. token'[t] = IF Of(t) = d THEN Ended(t) ELSE token[t]
  BY MintedIs DEF Mints
<1> QED
  BY <1>1, EndedFades

(***************************************************************************)
(* A token may fade while what refers to it stays as it was.               *)
(***************************************************************************)
LEMMA BindingsHold ==
  ASSUME TypeOK, BindingsSound, UNCHANGED <<binding, state>>,
         \A t \in Tokens : Named(t) => Fades(t)
  PROVE  \A c \in Children : binding'[c] # None =>
           /\ state'[Of(binding'[c].by)] # "absent" /\ token'[binding'[c].by] # NoToken
           /\ binding'[c].scopes \subseteq token'[binding'[c].by].scopes
<1> SUFFICES ASSUME NEW c \in Children, binding[c] # None
             PROVE  /\ state[Of(binding[c].by)] # "absent" /\ token'[binding[c].by] # NoToken
                    /\ binding[c].scopes \subseteq token'[binding[c].by].scopes
  OBVIOUS
<1> DEFINE t == binding[c].by
<1>1. t \in Tokens
  BY DEF TypeOK, Authorizations
<1>2. Named(t)
  BY DEF Named
<1>3. token[t] # NoToken /\ Exists(Of(t)) /\ binding[c].scopes \subseteq token[t].scopes
  BY DEF BindingsSound
<1> QED
  BY <1>1, <1>2, <1>3 DEF Fades, Exists

LEMMA MintRootStep ==
  ASSUME IInv, MintRoot
  PROVE  IInv'
<1> DEFINE n == call.d
           f == Fresh(n)
<1>1. /\ n \in Nonces /\ n \in Delegations /\ n \notin Children /\ Unused(n) # {}
      /\ call.op \in {"issue", "rotate"}
  BY CredentialsAssumption DEF MintRoot, IssueRoot, Running, IInv, CallSound, Delegations
<1>2. PICK readers \in {{}, {Buyer}} : Reach(readers, Buyer) /\ token' = Minted(n, Scopes, readers)
  BY DEF MintRoot
<1>3. /\ purchase' = [purchase EXCEPT ![n] = "claimed"] /\ call' = Idle
      /\ UNCHANGED <<parent, state, revoking, raised, binding, claims, parked, dead>>
  BY DEF MintRoot, Return
<1>4. TypeOK /\ ForestSound /\ BindingsSound /\ TokensSound /\ DeadSound
  BY DEF IInv
<1> HIDE DEF n
<1>5. readers \in SUBSET (Tokens \cup {Buyer})
  OBVIOUS
<1>6. f \in Tokens /\ Of(f) = n /\ ~Live(f) /\ ~Named(f) /\ claims[f] = None
  BY <1>1, FreshIs
<1>7. token' \in [Tokens -> Token] /\ token'[f] = Issued(Scopes, readers)
  <2>1. Mints(n, Scopes, readers)
    BY <1>1, <1>2, <1>4, <1>5, MintedIs
  <2> QED
    BY <2>1 DEF Mints
<1>8. \A t \in Tokens \ {f} : /\ Fades(t)
                              /\ Of(t) = n => ~Live(t)'
                              /\ Of(t) # n => token'[t] = token[t]
  BY <1>1, <1>2, <1>4, <1>5, MintedFades
<1> HIDE DEF f
<1>9. /\ purchase' \in [Nonces -> {"none", "recorded", "claimed"}]
      /\ purchase'[n] = "claimed" /\ \A m \in Nonces : m # n => purchase'[m] = purchase[m]
  BY <1>1, <1>3, <1>4 DEF TypeOK
<1>10. TypeOK'
  <2>1. faults' \in 0 .. MaxFaults
    BY <1>2, <1>4, CredentialsAssumption DEF TypeOK, Reach
  <2>2. call' \in [op : {"idle", "session", "recovery", "issue", "rotate", "reserve", "mint", "revoke"},
                   d : Delegations \cup {None}, by : Tokens \cup {Buyer}, scopes : SUBSET Scopes]
    BY <1>3 DEF Idle
  <2> QED
    BY <1>3, <1>4, <1>7, <1>9, <2>1, <2>2 DEF TypeOK
<1>11. ForestSound'
  BY <1>3, <1>4 DEF ForestSound, Exists
<1>12. BindingsSound'
  <2>1. \A t \in Tokens : Named(t) => Fades(t)
    BY <1>6, <1>8
  <2>2. \A k \in parked' : binding'[k.c] = Authorization(k.by, k.scopes) /\ Of(k.by) = k.p
    BY <1>3, <1>4 DEF BindingsSound
  <2> QED
    BY <1>3, <1>4, <2>1, <2>2, BindingsHold DEF BindingsSound, Exists
<1>13. TokensSound'
  <2>1. OneLiveCredential'
    <3>1. \A t \in Tokens \ {f} : Live(t)' => Live(t) /\ Of(t) # n
      BY <1>8 DEF Fades
    <3>2. \A t, u \in Tokens : Live(t) /\ Live(u) /\ Of(t) = Of(u) => t = u
      BY <1>4 DEF TokensSound, OneLiveCredential
    <3> QED
      BY <1>6, <3>1, <3>2 DEF OneLiveCredential
  <2>2. ASSUME NEW t \in Tokens, Of(t) \in Children, token'[t] # NoToken
        PROVE  ChildToken(t)'
    <3>1. t # f /\ token'[t] = token[t]
      BY <1>1, <1>6, <1>8, <2>2
    <3>2. ChildToken(t)
      BY <1>4, <2>2, <3>1 DEF TokensSound
    <3> QED
      BY <1>3, <3>1, <3>2 DEF ChildToken, Exists
  <2>3. ASSUME NEW t \in Tokens, claims'[t] # None
        PROVE  Of(t) \in Children /\ token'[t] # NoToken
    <3>1. Of(t) \in Children /\ token[t] # NoToken
      BY <1>3, <1>4, <2>3 DEF TokensSound
    <3> QED
      BY <1>1, <1>6, <1>8, <3>1
  <2>4. ASSUME NEW t \in Tokens, Live(t)', Of(t) \in Nonces
        PROVE  purchase'[Of(t)] = "claimed"
    <3>1. CASE t = f
      BY <1>6, <1>9, <3>1
    <3>2. CASE t # f
      <4>1. Live(t) /\ Of(t) # n
        BY <1>8, <2>4, <3>2 DEF Fades
      <4> QED
        BY <1>4, <1>9, <2>4, <4>1 DEF TokensSound
    <3> QED
      BY <3>1, <3>2
  <2> QED
    BY <2>1, <2>2, <2>3, <2>4 DEF TokensSound
<1>14. CallSound'
  BY <1>3 DEF CallSound, Idle
<1>15. DeadSound'
  <2>1. \A d : Lineage(d)' = Lineage(d)
    BY <1>3, LineageStays
  <2>2. \A d : Subtree(d)' = Subtree(d) /\ (Active(d)' <=> Active(d))
                /\ (RevocationInProgress(d)' <=> RevocationInProgress(d))
    BY <1>3, <2>1 DEF Subtree, Exists, Active, RevocationInProgress
  <2>3. ASSUME NEW t \in Tokens, Of(t) \in dead
        PROVE  (Live(t)' => Of(t) \in Nonces) /\ claims'[t] = None
    <3>1. (Live(t) => Of(t) \in Nonces) /\ claims[t] = None
      BY <1>4, <2>3 DEF DeadSound
    <3> QED
      BY <1>1, <1>3, <1>6, <1>8, <3>1 DEF Fades
  <2>4. \A t \in Tokens : claims[t] # None => ~RevocationInProgress(Of(t))
    BY <1>1, <1>4 DEF DeadSound
  <2>5. \A d \in dead : ~Active(d) /\ RevocationInProgress(d) /\ Subtree(d) \subseteq dead
    BY <1>4 DEF DeadSound
  <2> QED
    BY <1>3, <2>2, <2>3, <2>4, <2>5 DEF DeadSound
<1> QED
  BY <1>10, <1>11, <1>12, <1>13, <1>14, <1>15 DEF IInv

-----------------------------------------------------------------------------
LEMMA PurgedIs ==
  ASSUME TypeOK, NEW D
  PROVE  /\ Purged(D) \in [Tokens -> Tokens \cup {None}]
         /\ \A t \in Tokens : /\ Purged(D)[t] \in {claims[t], None}
                              /\ Of(t) \in D => Purged(D)[t] = None
BY DEF Purged, TypeOK

(***************************************************************************)
(* A credential is minted for a child that is open, in the name of the     *)
(* credential that its binding names.                                      *)
(***************************************************************************)
LEMMA MintCredentialSound ==
  ASSUME IInv, NEW c \in Children, NEW by \in Tokens, NEW S \in SUBSET Scopes,
         binding[c] = Authorization(by, S), Unused(c) # {}, Open(c),
         call.op # "revoke", MintCredential(c, by, S)
  PROVE  /\ token' \in [Tokens -> Token] /\ claims' \in [Tokens -> Tokens \cup {None}]
         /\ ForestSound' /\ TokensSound' /\ DeadSound'
         /\ \A x \in Children : binding'[x] # None =>
              /\ state'[Of(binding'[x].by)] # "absent" /\ token'[binding'[x].by] # NoToken
              /\ binding'[x].scopes \subseteq token'[binding'[x].by].scopes
<1> DEFINE f == Fresh(c)
<1>1. /\ token' = Minted(c, S, {}) /\ claims' = [Purged({c}) EXCEPT ![f] = by]
      /\ UNCHANGED <<purchase, parent, state, revoking, binding, dead>>
      /\ c \in Delegations /\ c \notin Nonces
  BY CredentialsAssumption DEF MintCredential, Delegations
<1>2. TypeOK /\ ForestSound /\ BindingsSound /\ TokensSound /\ DeadSound
  BY DEF IInv
<1>3. f \in Tokens /\ Of(f) = c /\ ~Live(f) /\ ~Named(f) /\ claims[f] = None
  BY <1>1, FreshIs
<1>4. token' \in [Tokens -> Token] /\ token'[f] = Issued(S, {})
  <2>1. Mints(c, S, {})
    BY <1>1, <1>2, MintedIs
  <2> QED
    BY <2>1 DEF Mints
<1>5. \A t \in Tokens \ {f} : /\ Fades(t)
                              /\ Of(t) = c => ~Live(t)'
                              /\ Of(t) # c => token'[t] = token[t]
  BY <1>1, <1>2, MintedFades
<1> HIDE DEF f
<1>6. /\ claims' \in [Tokens -> Tokens \cup {None}] /\ claims'[f] = by
      /\ \A t \in Tokens \ {f} : claims'[t] \in {claims[t], None}
      /\ \A t \in Tokens \ {f} : Of(t) = c => claims'[t] = None
  <2>1. /\ Purged({c}) \in [Tokens -> Tokens \cup {None}]
        /\ \A t \in Tokens : Purged({c})[t] \in {claims[t], None}
        /\ \A t \in Tokens : Of(t) = c => Purged({c})[t] = None
    BY <1>2, PurgedIs
  <2> QED
    BY <1>1, <1>3, <2>1
<1>7. ForestSound'
  BY <1>1, <1>2 DEF ForestSound, Exists
<1>8. \A t \in Tokens : Named(t) => Fades(t)
  BY <1>3, <1>5
<1>9. \A x \in Children : binding'[x] # None =>
        /\ state'[Of(binding'[x].by)] # "absent" /\ token'[binding'[x].by] # NoToken
        /\ binding'[x].scopes \subseteq token'[binding'[x].by].scopes
  BY <1>1, <1>2, <1>8, BindingsHold
<1>10. TokensSound'
  <2>1. OneLiveCredential'
    <3>1. \A t \in Tokens \ {f} : Live(t)' => Live(t) /\ Of(t) # c
      BY <1>5 DEF Fades
    <3>2. \A t, u \in Tokens : Live(t) /\ Live(u) /\ Of(t) = Of(u) => t = u
      BY <1>2 DEF TokensSound, OneLiveCredential
    <3> QED
      BY <1>3, <3>1, <3>2 DEF OneLiveCredential
  <2>2. ASSUME NEW t \in Tokens, Of(t) \in Children, token'[t] # NoToken
        PROVE  ChildToken(t)'
    <3>1. CASE t = f
      <4>1. Exists(c) /\ binding'[c].scopes = S /\ binding'[c].by = by
        BY <1>1 DEF Authorization, Open, Active, Exists
      <4>2. token'[f].scopes = S /\ token'[f].told = {}
        BY <1>4 DEF Issued
      <4> QED
        BY <1>1, <1>3, <1>6, <3>1, <4>1, <4>2 DEF ChildToken, Exists
    <3>2. CASE t # f
      <4>1. /\ token[t] # NoToken
            /\ token'[t].scopes = token[t].scopes /\ token'[t].told = token[t].told
        BY <1>5, <2>2, <3>2 DEF Fades
      <4>2. ChildToken(t)
        BY <1>2, <2>2, <4>1 DEF TokensSound
      <4> QED
        BY <1>1, <1>6, <3>2, <4>1, <4>2 DEF ChildToken, Exists
    <3> QED
      BY <3>1, <3>2
  <2>3. ASSUME NEW t \in Tokens, claims'[t] # None
        PROVE  Of(t) \in Children /\ token'[t] # NoToken
    <3>1. CASE t = f
      BY <1>3, <1>4, <3>1 DEF Issued, NoToken
    <3>2. CASE t # f
      <4>1. claims[t] # None /\ Of(t) # c
        BY <1>6, <2>3, <3>2
      <4> QED
        BY <1>2, <1>5, <3>2, <4>1 DEF TokensSound
    <3> QED
      BY <3>1, <3>2
  <2>4. ASSUME NEW t \in Tokens, Live(t)', Of(t) \in Nonces
        PROVE  purchase'[Of(t)] = "claimed"
    <3>1. t # f /\ Live(t)
      BY <1>1, <1>3, <1>5, <2>4 DEF Fades
    <3> QED
      BY <1>1, <1>2, <2>4, <3>1 DEF TokensSound
  <2> QED
    BY <2>1, <2>2, <2>3, <2>4 DEF TokensSound
<1>11. DeadSound'
  <2>1. \A d : Lineage(d)' = Lineage(d)
    BY <1>1, LineageStays
  <2>2. \A d : Subtree(d)' = Subtree(d) /\ (Active(d)' <=> Active(d))
                /\ (RevocationInProgress(d)' <=> RevocationInProgress(d))
    BY <1>1, <2>1 DEF Subtree, Exists, Active, RevocationInProgress
  <2>3. \A d \in dead : ~Active(d) /\ RevocationInProgress(d) /\ Subtree(d) \subseteq dead
    BY <1>2 DEF DeadSound
  <2>4. c \notin dead /\ ~RevocationInProgress(c)
    BY <2>3 DEF Open
  <2>5. ASSUME NEW t \in Tokens, Of(t) \in dead
        PROVE  (Live(t)' => Of(t) \in Nonces) /\ claims'[t] = None
    <3>1. (Live(t) => Of(t) \in Nonces) /\ claims[t] = None /\ t # f
      BY <1>2, <1>3, <2>4, <2>5 DEF DeadSound
    <3> QED
      BY <1>5, <1>6, <3>1 DEF Fades
  <2>6. ASSUME NEW t \in Tokens, claims'[t] # None
        PROVE  ~RevocationInProgress(Of(t))
    <3>1. CASE t = f
      BY <1>3, <2>4, <3>1
    <3>2. CASE t # f
      BY <1>2, <1>6, <2>6, <3>2 DEF DeadSound
    <3> QED
      BY <3>1, <3>2
  <2> QED
    BY <1>1, <2>2, <2>3, <2>5, <2>6 DEF DeadSound
<1> QED
  BY <1>4, <1>6, <1>7, <1>9, <1>10, <1>11

LEMMA MintChildStep ==
  ASSUME IInv, MintChild
  PROVE  IInv'
<1>1. /\ call.op = "mint" /\ call.d \in Children /\ call.by \in Tokens /\ Open(call.d)
      /\ binding[call.d] = Authorization(call.by, call.scopes) /\ Unused(call.d) # {}
      /\ call.scopes \in SUBSET Scopes
      /\ MintCredential(call.d, call.by, call.scopes) /\ call' = Idle
      /\ UNCHANGED <<raised, parked>>
  BY DEF MintChild, Running, Return, IInv, CallSound, TypeOK
<1>2. /\ token' \in [Tokens -> Token] /\ claims' \in [Tokens -> Tokens \cup {None}]
      /\ ForestSound' /\ TokensSound' /\ DeadSound'
      /\ \A x \in Children : binding'[x] # None =>
           /\ state'[Of(binding'[x].by)] # "absent" /\ token'[binding'[x].by] # NoToken
           /\ binding'[x].scopes \subseteq token'[binding'[x].by].scopes
  BY <1>1, MintCredentialSound DEF Exists
<1>3. UNCHANGED <<purchase, parent, state, revoking, binding, dead, faults>>
  BY <1>1 DEF MintCredential
<1>4. TypeOK'
  BY <1>1, <1>2, <1>3 DEF IInv, TypeOK, Idle
<1>5. BindingsSound'
  BY <1>1, <1>2, <1>3 DEF IInv, BindingsSound, Exists
<1>6. CallSound'
  BY <1>1 DEF CallSound, Idle
<1> QED
  BY <1>2, <1>4, <1>5, <1>6 DEF IInv

LEMMA RecoverSound ==
  ASSUME IInv, NEW p, NEW c \in Children, NEW t \in Tokens, NEW S \in SUBSET Scopes,
         call.op = "idle", Unused(c) # {}, RecoverCredential(p, c, t, S),
         UNCHANGED call, parked' \subseteq parked, raised' \subseteq Delegations
  PROVE  IInv'
<1>1. binding[c] = Authorization(t, S) /\ Open(c) /\ MintCredential(c, t, S)
  BY DEF RecoverCredential, Recovers
<1>2. /\ token' \in [Tokens -> Token] /\ claims' \in [Tokens -> Tokens \cup {None}]
      /\ ForestSound' /\ TokensSound' /\ DeadSound'
      /\ \A x \in Children : binding'[x] # None =>
           /\ state'[Of(binding'[x].by)] # "absent" /\ token'[binding'[x].by] # NoToken
           /\ binding'[x].scopes \subseteq token'[binding'[x].by].scopes
  BY <1>1, MintCredentialSound DEF Exists
<1>3. UNCHANGED <<purchase, parent, state, revoking, binding, dead, faults>>
  BY <1>1 DEF MintCredential
<1>4. TypeOK'
  BY <1>2, <1>3 DEF IInv, TypeOK
<1>5. BindingsSound'
  BY <1>2, <1>3 DEF IInv, BindingsSound, Exists
<1>6. CallSound'
  BY DEF CallSound
<1> QED
  BY <1>2, <1>4, <1>5, <1>6 DEF IInv

-----------------------------------------------------------------------------
(***************************************************************************)
(* A reservation is bound to a live credential of the parent, or to the    *)
(* one that it was bound to before; a binding that is there stays.         *)
(***************************************************************************)
LEMMA BindSound ==
  ASSUME IInv, NEW p \in Delegations, NEW c \in Children, NEW t \in Tokens,
         NEW S \in SUBSET Scopes, Of(t) = p, Live(t) \/ binding[c] = Authorization(t, S),
         Unused(c) # {}, Bind(p, c, t, S), call.op = "idle"
  PROVE  /\ binding' \in [Children -> Authorizations \cup {None}]
         /\ binding'[c] = Authorization(t, S)
         /\ \A x \in Children : binding[x] # None => binding'[x] = binding[x]
         /\ ~Exists(c)' /\ Unused(c)' # {}
         /\ ForestSound' /\ TokensSound' /\ DeadSound'
         /\ \A x \in Children : binding'[x] # None =>
              /\ state'[Of(binding'[x].by)] # "absent" /\ token'[binding'[x].by] # NoToken
              /\ binding'[x].scopes \subseteq token'[binding'[x].by].scopes
<1>1. /\ Active(p) /\ S \subseteq token[t].scopes /\ ~Exists(c)
      /\ binding[c] \in {None, Authorization(t, S)}
      /\ binding' = [binding EXCEPT ![c] = Authorization(t, S)]
      /\ UNCHANGED <<purchase, parent, state, revoking, token, claims, dead, faults>>
  BY DEF Bind, Available, ValidChildScopes, BindingFits
<1>2. TypeOK /\ ForestSound /\ BindingsSound /\ TokensSound /\ DeadSound
  BY DEF IInv
<1>3. /\ Authorization(t, S) \in Authorizations /\ Authorization(t, S) # None
      /\ Authorization(t, S).by = t /\ Authorization(t, S).scopes = S
  BY CredentialsAssumption DEF Authorization, Authorizations
<1>4. /\ binding' \in [Children -> Authorizations \cup {None}]
      /\ binding'[c] = Authorization(t, S)
      /\ \A x \in Children \ {c} : binding'[x] = binding[x]
  BY <1>1, <1>2, <1>3 DEF TypeOK
<1>5. \A x \in Children : binding[x] # None => binding'[x] = binding[x]
  BY <1>1, <1>4
<1>6. ~Exists(c)'
  BY <1>1 DEF Exists
<1>7. Unused(c)' # {}
  <2>1. PICK u \in Unused(c) : TRUE
    OBVIOUS
  <2>2. u \in Tokens /\ Of(u) = c /\ ~Live(u) /\ ~Named(u) /\ claims[u] = None
    BY <2>1 DEF Unused
  <2>3. ASSUME NEW x \in Children, binding'[x] # None, binding'[x].by = u
        PROVE  FALSE
    <3>1. binding[x] = None
      BY <1>5, <2>2, <2>3 DEF Named
    <3>2. x = c /\ u = t
      BY <1>3, <1>4, <2>3, <3>1
    <3>3. binding[c] = Authorization(t, S)
      BY <2>2, <3>2
    <3> QED
      BY <1>3, <3>1, <3>2, <3>3
  <2>4. ~Named(u)' /\ ~Live(u)' /\ claims'[u] = None
    BY <1>1, <2>2, <2>3 DEF Named, Live
  <2> QED
    BY <2>2, <2>4 DEF Unused
<1>8. ForestSound'
  <2>1. \A x \in Children : Exists(x) => x # c
    BY <1>1
  <2> QED
    BY <1>1, <1>2, <1>4, <2>1 DEF ForestSound, Exists
<1>9. TokensSound'
  <2>1. ASSUME NEW u \in Tokens, Of(u) \in Children, token[u] # NoToken
        PROVE  ChildToken(u)'
    <3>1. ChildToken(u)
      BY <1>2, <2>1 DEF TokensSound
    <3>2. Of(u) # c
      BY <1>1, <3>1 DEF ChildToken
    <3>3. binding'[Of(u)] = binding[Of(u)]
      BY <1>4, <2>1, <3>2
    <3> QED
      BY <1>1, <3>1, <3>3 DEF ChildToken, Exists
  <2> QED
    BY <1>1, <1>2, <2>1 DEF TokensSound, OneLiveCredential, Live
<1>10. DeadSound'
  <2>1. \A d : Lineage(d)' = Lineage(d)
    BY <1>1, LineageStays
  <2>2. \A d : Subtree(d)' = Subtree(d) /\ (Active(d)' <=> Active(d))
                /\ (RevocationInProgress(d)' <=> RevocationInProgress(d))
    BY <1>1, <2>1 DEF Subtree, Exists, Active, RevocationInProgress
  <2>3. \A u \in Tokens : claims[u] # None => ~RevocationInProgress(Of(u))
    BY <1>2 DEF DeadSound
  <2> QED
    BY <1>1, <1>2, <2>2, <2>3 DEF DeadSound, Live
<1>11. \A x \in Children : binding'[x] # None =>
         /\ state'[Of(binding'[x].by)] # "absent" /\ token'[binding'[x].by] # NoToken
         /\ binding'[x].scopes \subseteq token'[binding'[x].by].scopes
  <2>1. ASSUME NEW x \in Children, binding[x] # None
        PROVE  /\ state'[Of(binding'[x].by)] # "absent" /\ token'[binding'[x].by] # NoToken
               /\ binding'[x].scopes \subseteq token'[binding'[x].by].scopes
    BY <1>1, <1>2, <1>5, <2>1 DEF BindingsSound, Exists
  <2>2. ASSUME binding[c] = None
        PROVE  /\ state'[Of(binding'[c].by)] # "absent" /\ token'[binding'[c].by] # NoToken
               /\ binding'[c].scopes \subseteq token'[binding'[c].by].scopes
    <3>1. Live(t)
      BY <1>3, <2>2
    <3>2. token[t] # NoToken
      BY <3>1, TokenIs DEF Live
    <3> QED
      BY <1>1, <1>3, <1>4, <3>2 DEF Active
  <2> QED
    BY <1>4, <2>1, <2>2
<1> QED
  BY <1>4, <1>5, <1>6, <1>7, <1>8, <1>9, <1>10, <1>11

LEMMA BoundStep ==
  ASSUME IInv, NEW p \in Delegations, NEW c \in Children, NEW t \in Tokens,
         NEW S \in SUBSET Scopes, Of(t) = p, Live(t) \/ binding[c] = Authorization(t, S),
         Unused(c) # {}, Bind(p, c, t, S), call.op = "idle",
         call' \in {call, Idle, [op |-> "reserve", d |-> c, by |-> t, scopes |-> S]},
         raised' \subseteq Delegations,
         parked' \subseteq parked \cup {[p |-> p, c |-> c, by |-> t, scopes |-> S]}
  PROVE  IInv'
<1>1. /\ binding' \in [Children -> Authorizations \cup {None}]
      /\ binding'[c] = Authorization(t, S)
      /\ \A x \in Children : binding[x] # None => binding'[x] = binding[x]
      /\ ~Exists(c)' /\ Unused(c)' # {}
      /\ ForestSound' /\ TokensSound' /\ DeadSound'
      /\ \A x \in Children : binding'[x] # None =>
           /\ state'[Of(binding'[x].by)] # "absent" /\ token'[binding'[x].by] # NoToken
           /\ binding'[x].scopes \subseteq token'[binding'[x].by].scopes
  BY BindSound
<1>2. UNCHANGED <<purchase, parent, state, revoking, token, claims, dead, faults>>
  BY DEF Bind
<1>3. TypeOK /\ BindingsSound /\ c \in Delegations
  BY DEF IInv, Delegations
<1> DEFINE task == [p |-> p, c |-> c, by |-> t, scopes |-> S]
           reserving == [op |-> "reserve", d |-> c, by |-> t, scopes |-> S]
<1>4. /\ task \in [p : Delegations, c : Children, by : Tokens, scopes : SUBSET Scopes]
      /\ task.p = p /\ task.c = c /\ task.by = t /\ task.scopes = S
  OBVIOUS
<1>5. /\ reserving \in [op : {"idle", "session", "recovery", "issue", "rotate", "reserve", "mint", "revoke"},
                        d : Delegations \cup {None}, by : Tokens \cup {Buyer}, scopes : SUBSET Scopes]
      /\ reserving.op = "reserve" /\ reserving.d = c /\ reserving.by = t /\ reserving.scopes = S
  BY <1>3
<1>6. parked' \subseteq parked \cup {task} /\ call' \in {call, Idle, reserving}
  OBVIOUS
<1> HIDE DEF task, reserving
<1>7. TypeOK'
  <2>1. Idle \in [op : {"idle", "session", "recovery", "issue", "rotate", "reserve", "mint", "revoke"},
                   d : Delegations \cup {None}, by : Tokens \cup {Buyer}, scopes : SUBSET Scopes]
    BY DEF Idle
  <2>2. call' \in [op : {"idle", "session", "recovery", "issue", "rotate", "reserve", "mint", "revoke"},
                   d : Delegations \cup {None}, by : Tokens \cup {Buyer}, scopes : SUBSET Scopes]
    BY <1>3, <1>5, <1>6, <2>1 DEF TypeOK
  <2>3. parked' \subseteq [p : Delegations, c : Children, by : Tokens, scopes : SUBSET Scopes]
    BY <1>3, <1>4, <1>6 DEF TypeOK
  <2> QED
    BY <1>1, <1>2, <1>3, <2>2, <2>3 DEF TypeOK
<1>8. BindingsSound'
  <2>1. ASSUME NEW k \in parked'
        PROVE  binding'[k.c] = Authorization(k.by, k.scopes) /\ Of(k.by) = k.p
    <3>1. CASE k = task
      BY <1>1, <1>4, <3>1
    <3>2. CASE k \in parked
      <4>1. k.c \in Children /\ k.by \in Tokens /\ k.scopes \in SUBSET Scopes
        BY <1>3, <3>2 DEF TypeOK
      <4>2. binding[k.c] = Authorization(k.by, k.scopes) /\ Of(k.by) = k.p
        BY <1>3, <3>2 DEF BindingsSound
      <4>3. Authorization(k.by, k.scopes) # None
        BY <4>1, CredentialsAssumption DEF Authorization, Authorizations
      <4> QED
        BY <1>1, <4>1, <4>2, <4>3
    <3> QED
      BY <1>6, <3>1, <3>2
  <2> QED
    BY <1>1, <2>1 DEF BindingsSound, Exists
<1>9. CallSound'
  <2>1. CASE call'.op = "idle"
    BY <2>1 DEF CallSound
  <2>2. CASE call' = reserving
    BY <1>1, <1>5, <2>2 DEF CallSound
  <2> QED
    BY <1>6, <2>1, <2>2 DEF Idle
<1> QED
  BY <1>1, <1>7, <1>8, <1>9 DEF IInv

LEMMA ReserveStep ==
  ASSUME IInv, NEW t \in Tokens, NEW w \in Wanted,
         Reserve(t, w[1], w[2], w[3])
  PROVE  IInv'
<1>1. w[1] \in Delegations /\ w[2] \in Children /\ w[3] \in SUBSET Scopes
  BY CredentialsAssumption
<1>2. /\ call.op = "idle" /\ Unused(w[2]) # {} /\ Live(t) /\ Of(t) = w[1]
      /\ Bind(w[1], w[2], t, w[3])
  BY DEF Reserve, Running, Authorized
<1>3. call' \in {call, Idle, [op |-> "reserve", d |-> w[2], by |-> t, scopes |-> w[3]]}
  BY DEF Reserve
<1>4. parked' \subseteq
        parked \cup {[p |-> w[1], c |-> w[2], by |-> t, scopes |-> w[3]]}
  BY DEF Reserve
<1>5. raised' \subseteq Delegations
  BY DEF Reserve, IInv, TypeOK
<1> QED
  BY <1>1, <1>2, <1>3, <1>4, <1>5, BoundStep

LEMMA RecoverStep ==
  ASSUME IInv, NEW t \in Tokens, NEW w \in Wanted, Recover(t, w[1], w[2], w[3])
  PROVE  IInv'
<1>1. w[1] \in Delegations /\ w[2] \in Children /\ w[3] \in SUBSET Scopes
  BY CredentialsAssumption
<1>2. /\ call.op = "idle" /\ Unused(w[2]) # {} /\ RecoverCredential(w[1], w[2], t, w[3])
      /\ UNCHANGED call /\ parked' \subseteq parked /\ raised' \subseteq Delegations
  BY DEF Recover, Running, IInv, TypeOK
<1> QED
  BY <1>1, <1>2, RecoverSound

LEMMA ContinueStep ==
  ASSUME IInv, NEW k \in parked, NEW g \in Tokens, ContinueAfterGrant(g, k)
  PROVE  IInv'
<1>1. /\ k.p \in Delegations /\ k.c \in Children /\ k.by \in Tokens /\ k.scopes \in SUBSET Scopes
      /\ binding[k.c] = Authorization(k.by, k.scopes) /\ Of(k.by) = k.p
  BY DEF IInv, TypeOK, BindingsSound
<1>2. /\ call.op = "idle" /\ Unused(k.c) # {} /\ parked' \subseteq parked
      /\ raised' \subseteq Delegations
  BY <1>1 DEF ContinueAfterGrant, Running, GrantCore, IInv, TypeOK
<1>3. CASE /\ Bind(k.p, k.c, k.by, k.scopes)
           /\ call' \in {Idle, [op |-> "reserve", d |-> k.c, by |-> k.by, scopes |-> k.scopes]}
  <2>1. parked' \subseteq parked \cup
             {[p |-> k.p, c |-> k.c, by |-> k.by, scopes |-> k.scopes]}
    BY <1>2
  <2> QED
    BY <1>1, <1>2, <1>3, <2>1, BoundStep
<1>4. CASE RecoverCredential(k.p, k.c, k.by, k.scopes) /\ UNCHANGED call
  BY <1>1, <1>2, <1>4, RecoverSound
<1>5. CASE UNCHANGED <<purchase, parent, state, revoking, token, binding, dead, claims, faults, call>>
  BY <1>2, <1>5, MemoryFades DEF IInv, TypeOK
<1> QED
  BY <1>3, <1>4, <1>5 DEF ContinueAfterGrant

LEMMA GrantStep ==
  ASSUME IInv, NEW t \in Tokens, NEW d \in Delegations, Grant(t, d)
  PROVE  IInv'
<1>1. /\ UNCHANGED <<purchase, parent, state, revoking, token, binding, dead>>
      /\ UNCHANGED <<claims, parked, call, faults>> /\ call.op = "idle"
      /\ raised' \subseteq Delegations
  BY DEF Grant, GrantCore, Running, memory, IInv, TypeOK
<1> QED
  BY <1>1, MemoryFades DEF IInv, TypeOK

-----------------------------------------------------------------------------
(***************************************************************************)
(* A claim, a task or a handler ends.                                      *)
(***************************************************************************)
LEMMA FadingSteps ==
  ASSUME IInv,
         \/ AlreadyClaimed
         \/ \E k \in parked : FailTask(k)
         \/ \E k \in Tokens : ClaimExpires(k)
         \/ Restart
  PROVE  IInv'
<1>1. TypeOK
  BY DEF IInv
<1>2. CASE AlreadyClaimed
  <2>1. /\ UNCHANGED <<stores, claims, parked, faults>> /\ call.op = "issue" /\ call' = Idle
        /\ Idle.op = "idle"
    BY <1>2 DEF AlreadyClaimed, Running, Return, Idle
  <2> QED
    BY <1>1, <2>1, MemoryFades DEF TypeOK, stores
<1>3. ASSUME NEW k \in parked, FailTask(k)
      PROVE  IInv'
  <2>1. UNCHANGED <<stores, claims, faults, call>> /\ call.op = "idle" /\ parked' \subseteq parked
    BY <1>3 DEF FailTask, Running
  <2> QED
    BY <1>1, <2>1, MemoryFades DEF TypeOK, stores
<1>4. ASSUME NEW k \in Tokens, ClaimExpires(k)
      PROVE  IInv'
  <2>1. /\ UNCHANGED <<stores, parked, call, faults>> /\ call.op = "idle"
        /\ claims' = [claims EXCEPT ![k] = None]
    BY <1>4 DEF ClaimExpires, Running, Consumed
  <2>2. claims' \in [Tokens -> Tokens \cup {None}]
        /\ \A t \in Tokens : claims'[t] \in {claims[t], None}
    BY <1>1, <2>1 DEF TypeOK
  <2> QED
    BY <1>1, <2>1, <2>2, MemoryFades DEF TypeOK, stores
<1>5. CASE Restart
  <2>1. /\ UNCHANGED stores /\ faults' = faults + 1 /\ faults < MaxFaults
        /\ claims' = [t \in Tokens |-> None] /\ parked' = {} /\ call' = Idle
        /\ Idle.op = "idle"
    BY <1>5 DEF Restart, Return, Idle
  <2>2. faults' \in 0 .. MaxFaults
    BY <1>1, <2>1, CredentialsAssumption DEF TypeOK
  <2> QED
    BY <1>1, <2>1, <2>2, MemoryFades DEF TypeOK, stores
<1> QED
  BY <1>2, <1>3, <1>4, <1>5

(***************************************************************************)
(* The authorizer redeems its claim, or loses it.                          *)
(***************************************************************************)
LEMMA RedeemStep ==
  ASSUME IInv, NEW t \in Tokens, NEW k \in Tokens, Redeem(t, k)
  PROVE  IInv'
<1>1. /\ TypeOK /\ ForestSound /\ BindingsSound /\ TokensSound /\ DeadSound
      /\ call.op = "idle" /\ claims[k] = t /\ claims' = [claims EXCEPT ![k] = None]
      /\ UNCHANGED <<purchase, parent, state, revoking, raised, binding, dead, parked, call>>
  BY DEF IInv, Redeem, Running, Consumed, IsAuthorizer
<1>2. \E readers \in {{}, {t}} :
        token' = [token EXCEPT ![k].told = @ \cup readers] \/ UNCHANGED token
  BY DEF Redeem
<1>3. claims' \in [Tokens -> Tokens \cup {None}]
      /\ \A u \in Tokens : claims'[u] \in {claims[u], None}
  BY <1>1 DEF TypeOK
<1>4. faults' \in 0 .. MaxFaults
  BY <1>1, CredentialsAssumption DEF Redeem, Reach, TypeOK
<1>5. CASE UNCHANGED token
  BY <1>1, <1>3, <1>4, <1>5, MemoryFades DEF stores, IInv, TypeOK
<1>6. CASE token' = [token EXCEPT ![k].told = @ \cup {}]
  <2>1. token[k] \in Token
    BY <1>1 DEF TypeOK
  <2>2. [token[k] EXCEPT !.told = @ \cup {}] = token[k]
    BY <2>1 DEF Token
  <2>3. token' = token
    BY <1>1, <1>6, <2>2 DEF TypeOK
  <2> QED
    BY <1>5, <2>3
<1>7. CASE token' = [token EXCEPT ![k].told = @ \cup {t}]
  <2>1. token[k] \in Token
    BY <1>1 DEF TypeOK
  <2>2. /\ [token[k] EXCEPT !.told = @ \cup {t}] \in Token
        /\ [token[k] EXCEPT !.told = @ \cup {t}].told = token[k].told \cup {t}
        /\ [token[k] EXCEPT !.told = @ \cup {t}].scopes = token[k].scopes
        /\ [token[k] EXCEPT !.told = @ \cup {t}].status = token[k].status
    BY <2>1 DEF Token
  <2>3. /\ token' \in [Tokens -> Token]
        /\ token'[k].told = token[k].told \cup {t} /\ token'[k].scopes = token[k].scopes
        /\ token'[k].status = token[k].status
        /\ \A u \in Tokens \ {k} : token'[u] = token[u]
    BY <1>1, <1>7, <2>2 DEF TypeOK
  <2>4. token[k] # NoToken /\ token'[k] # NoToken /\ Of(k) \in Children /\ ChildToken(k)
    <3>1. token[k] # NoToken /\ Of(k) \in Children
      BY <1>1, CredentialsAssumption DEF TokensSound, Delegations
    <3> QED
      BY <1>1, <2>3, <3>1, TokenIs DEF TokensSound
  <2>5. \A u \in Tokens : /\ token'[u].scopes = token[u].scopes /\ token'[u].status = token[u].status
                          /\ token'[u] = NoToken <=> token[u] = NoToken
    BY <2>3, <2>4
  <2>6. TypeOK'
    BY <1>1, <1>3, <1>4, <2>3 DEF TypeOK
  <2>7. ForestSound'
    BY <1>1 DEF ForestSound, Exists
  <2>8. BindingsSound'
    <3>1. \A c \in Children : binding[c] # None => binding[c].by \in Tokens
      BY <1>1 DEF TypeOK, Authorizations
    <3>2. \A q \in parked : binding[q.c] = Authorization(q.by, q.scopes) /\ Of(q.by) = q.p
      BY <1>1 DEF BindingsSound
    <3> QED
      BY <1>1, <2>5, <3>1, <3>2 DEF BindingsSound, Exists
  <2>9. \A u \in Tokens : Live(u)' <=> Live(u)
    BY <2>5 DEF Live
  <2>10. TokensSound'
    <3>1. ASSUME NEW u \in Tokens, ChildToken(u)
          PROVE  ChildToken(u)'
      <4>1. CASE u = k
        <5>1. binding[Of(k)].by = t
          BY <1>1, <2>4, CredentialsAssumption DEF ChildToken
        <5> QED
          BY <1>1, <1>3, <2>3, <2>4, <4>1, <5>1 DEF ChildToken, Exists
      <4>2. CASE u # k
        BY <1>1, <1>3, <2>3, <3>1, <4>2 DEF ChildToken, Exists
      <4> QED
        BY <4>1, <4>2
    <3>2. \A u \in Tokens : claims'[u] # None => Of(u) \in Children /\ token'[u] # NoToken
      BY <1>1, <1>3, <2>5 DEF TokensSound
    <3> QED
      BY <1>1, <2>5, <2>9, <3>1, <3>2 DEF TokensSound, OneLiveCredential
  <2>11. CallSound'
    BY <1>1 DEF CallSound
  <2>12. DeadSound'
    <3>1. \A d : Lineage(d)' = Lineage(d)
      BY <1>1, LineageStays
    <3>2. \A d : Subtree(d)' = Subtree(d) /\ (Active(d)' <=> Active(d))
                  /\ (RevocationInProgress(d)' <=> RevocationInProgress(d))
      BY <1>1, <3>1 DEF Subtree, Exists, Active, RevocationInProgress
    <3>3. \A u \in Tokens : claims'[u] # None => ~RevocationInProgress(Of(u))
      BY <1>1, <1>3 DEF DeadSound
    <3> QED
      BY <1>1, <1>3, <2>9, <3>2, <3>3 DEF DeadSound
  <2> QED
    BY <2>6, <2>7, <2>8, <2>10, <2>11, <2>12 DEF IInv
<1> QED
  BY <1>2, <1>5, <1>6, <1>7

(***************************************************************************)
(* A token expires, at any time.                                           *)
(***************************************************************************)
LEMMA ExpiryStep ==
  ASSUME IInv, NEW t \in Tokens, TokenExpires(t)
  PROVE  IInv'
<1>1. /\ TypeOK /\ ForestSound /\ BindingsSound /\ TokensSound /\ CallSound /\ DeadSound
      /\ Live(t) /\ faults < MaxFaults /\ faults' = faults + 1
      /\ token' = [token EXCEPT ![t] = IF claims[t] # None THEN [@ EXCEPT !.status = "dead"]
                                       ELSE Ended(t)]
      /\ UNCHANGED <<purchase, parent, state, revoking, raised, binding, dead, claims, parked, call>>
  BY DEF IInv, TokenExpires, memory
<1>2. token[t] \in Token /\ Ended(t) \in Token
  BY <1>1, EndedIs DEF TypeOK
<1> DEFINE buried == [token[t] EXCEPT !.status = "dead"]
<1>3. /\ buried \in Token /\ buried.status = "dead" /\ buried # NoToken
      /\ buried.scopes = token[t].scopes /\ buried.told = token[t].told
  <2>1. buried \in Token /\ buried.status = "dead" /\ buried.scopes = token[t].scopes
        /\ buried.told = token[t].told
    BY <1>2 DEF Token
  <2> QED
    BY <2>1 DEF NoToken
<1>4. /\ token' \in [Tokens -> Token]
      /\ token'[t] = IF claims[t] # None THEN buried ELSE Ended(t)
      /\ \A u \in Tokens \ {t} : token'[u] = token[u]
  BY <1>1, <1>2, <1>3 DEF TypeOK
<1> HIDE DEF buried
<1>5. token[t] # NoToken
  BY <1>1, TokenIs DEF Live
<1>6. \A u \in Tokens : Fades(u)
  <2>1. ASSUME NEW u \in Tokens, u # t
        PROVE  Fades(u)
    BY <1>1, <1>4, <2>1, EndedFades
  <2>2. CASE claims[t] # None
    BY <1>3, <1>4, <1>5, <2>2 DEF Fades, Live
  <2>3. CASE claims[t] = None
    BY <1>1, <1>4, <2>3, EndedFades
  <2> QED
    BY <2>1, <2>2, <2>3
<1>7. TypeOK'
  <2>1. faults' \in 0 .. MaxFaults
    BY <1>1, CredentialsAssumption DEF TypeOK
  <2> QED
    BY <1>1, <1>4, <2>1 DEF TypeOK
<1>8. ForestSound'
  BY <1>1 DEF ForestSound, Exists
<1>9. BindingsSound'
  BY <1>1, <1>6, BindingsHold DEF BindingsSound, Exists
<1>10. TokensSound'
  <2>1. OneLiveCredential'
    BY <1>1, <1>6 DEF TokensSound, OneLiveCredential, Fades
  <2>2. ASSUME NEW u \in Tokens, Of(u) \in Children, token'[u] # NoToken
        PROVE  ChildToken(u)'
    <3>1. /\ token[u] # NoToken
          /\ token'[u].scopes = token[u].scopes /\ token'[u].told = token[u].told
      BY <1>6, <2>2 DEF Fades
    <3>2. ChildToken(u)
      BY <1>1, <2>2, <3>1 DEF TokensSound
    <3> QED
      BY <1>1, <3>1, <3>2 DEF ChildToken, Exists
  <2>3. \A u \in Tokens : claims'[u] # None => Of(u) \in Children /\ token'[u] # NoToken
    BY <1>1, <1>3, <1>4 DEF TokensSound
  <2>4. \A u \in Tokens : Live(u)' /\ Of(u) \in Nonces => purchase'[Of(u)] = "claimed"
    BY <1>1, <1>6 DEF TokensSound, Fades
  <2> QED
    BY <2>1, <2>2, <2>3, <2>4 DEF TokensSound
<1>11. \A d : Lineage(d)' = Lineage(d)
  BY <1>1, LineageStays
<1>12. \A d : Subtree(d)' = Subtree(d) /\ (Active(d)' <=> Active(d))
              /\ (RevocationInProgress(d)' <=> RevocationInProgress(d))
              /\ (Exists(d)' <=> Exists(d))
  BY <1>1, <1>11 DEF Subtree, Exists, Active, RevocationInProgress
<1>13. CallSound'
  <2>1. \A u \in Tokens : Live(u)' => Live(u)
    BY <1>6 DEF Fades
  <2>2. \A d : Unused(d) \subseteq Unused(d)'
    BY <1>1, <2>1 DEF Unused, Named
  <2>3. \A d : Unused(d) # {} => Unused(d)' # {}
    BY <2>2
  <2>4. call.op = "mint" => Open(call.d)' /\ \A u \in Tokens : Of(u) = call.d => ~Live(u)'
    BY <1>1, <1>12, <2>1 DEF CallSound, Open
  <2>5. call.op = "reserve" => ~Exists(call.d)'
    BY <1>1, <1>12 DEF CallSound
  <2>6. call.op \notin {"idle", "revoke"} => Unused(call.d)' # {}
    BY <1>1, <2>3 DEF CallSound
  <2> QED
    BY <1>1, <2>4, <2>5, <2>6 DEF CallSound
<1>14. DeadSound'
  <2>1. \A u \in Tokens : Live(u)' => Live(u)
    BY <1>6 DEF Fades
  <2> QED
    BY <1>1, <1>11, <1>12, <2>1 DEF DeadSound
<1> QED
  BY <1>7, <1>8, <1>9, <1>10, <1>13, <1>14 DEF IInv

-----------------------------------------------------------------------------
(***************************************************************************)
(* A delegation settles, by its holder or under a revocation.              *)
(***************************************************************************)
LEMMA SettleSound ==
  ASSUME IInv, NEW d \in Delegations, MaySettle(d), SettleCore(d),
         call.op \in {"idle", "revoke"},
         UNCHANGED <<purchase, parent, revoking, raised, token, binding, dead, memory, faults>>
  PROVE  IInv'
<1>1. /\ TypeOK /\ ForestSound /\ BindingsSound /\ TokensSound /\ CallSound /\ DeadSound
      /\ state[d] = "active" /\ state' = [state EXCEPT ![d] = "settled"]
      /\ UNCHANGED <<purchase, parent, revoking, raised, token, binding, dead, claims, parked, call, faults>>
  BY DEF IInv, MaySettle, SettleCore, Active, memory
<1>2. /\ state' \in [Delegations -> {"absent", "active", "settled"}]
      /\ \A x \in Delegations : (Exists(x)' <=> Exists(x)) /\ (Active(x)' => Active(x))
  BY <1>1 DEF TypeOK, Exists, Active
<1>3. TypeOK'
  BY <1>1, <1>2 DEF TypeOK
<1>4. ForestSound'
  <2>1. \A x \in Delegations : parent[x] # None => parent[x] \in Delegations
    BY <1>1 DEF TypeOK
  <2> QED
    BY <1>1, <1>2, <2>1 DEF ForestSound, Delegations
<1>5. BindingsSound'
  <2>1. \A c \in Children : binding[c] # None => Of(binding[c].by) \in Delegations
    BY <1>1, TokenIs DEF TypeOK, Authorizations
  <2> QED
    BY <1>1, <1>2, <2>1 DEF BindingsSound
<1>6. TokensSound'
  BY <1>1, <1>2, TokenIs DEF TokensSound, OneLiveCredential, Live, ChildToken
<1>7. CallSound'
  BY <1>1 DEF CallSound
<1>8. DeadSound'
  <2>1. \A x : Lineage(x)' = Lineage(x)
    BY <1>1, LineageStays
  <2>2. \A x : Subtree(x)' = Subtree(x) /\ (RevocationInProgress(x)' <=> RevocationInProgress(x))
    BY <1>1, <1>2, <2>1 DEF Subtree, RevocationInProgress
  <2>3. \A x \in dead : ~Active(x)'
    BY <1>1, <1>2 DEF DeadSound, TypeOK
  <2> QED
    BY <1>1, <2>1, <2>2, <2>3 DEF DeadSound, Live
<1> QED
  BY <1>3, <1>4, <1>5, <1>6, <1>7, <1>8 DEF IInv

LEMMA SettleSteps ==
  ASSUME IInv,
         \/ \E t \in Tokens, d \in Delegations : Settle(t, d)
         \/ RevokeSettles
  PROVE  IInv'
<1>1. ASSUME NEW t \in Tokens, NEW d \in Delegations, Settle(t, d)
      PROVE  IInv'
  BY <1>1, SettleSound DEF Settle, Running
<1>2. CASE RevokeSettles
  <2>1. PICK d \in Subtree(call.d) : MaySettle(d) /\ SettleCore(d)
    BY <1>2 DEF RevokeSettles
  <2>2. d \in Delegations
    BY DEF Subtree
  <2> QED
    BY <1>2, <2>1, <2>2, SettleSound DEF RevokeSettles, Running
<1> QED
  BY <1>1, <1>2

-----------------------------------------------------------------------------
(***************************************************************************)
(* A revocation begins: every claim below it is its handler's to end.      *)
(***************************************************************************)
LEMMA RevokeStep ==
  ASSUME IInv, NEW t \in Tokens, NEW d \in Delegations, Revoke(t, d)
  PROVE  IInv'
<1>1. /\ TypeOK /\ ForestSound /\ BindingsSound /\ TokensSound /\ DeadSound
      /\ call.op = "idle" /\ Exists(d) /\ revoking' = revoking \cup {d}
      /\ call' = [op |-> "revoke", d |-> d, by |-> Buyer, scopes |-> {}]
      /\ UNCHANGED <<purchase, parent, state, raised, token, binding, claims, parked, dead, faults>>
  BY DEF IInv, Revoke, Running, Begin
<1>2. TypeOK'
  BY <1>1 DEF TypeOK
<1>3. ForestSound' /\ BindingsSound'
  BY <1>1 DEF ForestSound, BindingsSound, Exists
<1>4. TokensSound'
  BY <1>1 DEF TokensSound, OneLiveCredential, Live, ChildToken, Exists
<1>5. call'.op = "revoke" /\ call'.d = d
  BY <1>1
<1>6. CallSound'
  BY <1>1, <1>5 DEF CallSound
<1>7. DeadSound'
  <2>1. \A x : Lineage(x)' = Lineage(x)
    BY <1>1, LineageStays
  <2>2. \A x : Subtree(x)' = Subtree(x) /\ (Active(x)' <=> Active(x))
    BY <1>1, <2>1 DEF Subtree, Exists, Active
  <2>3. \A x : /\ RevocationInProgress(x) => RevocationInProgress(x)'
               /\ RevocationInProgress(x)' => RevocationInProgress(x) \/ d \in Lineage(x)
    BY <1>1, <2>1 DEF RevocationInProgress
  <2>4. \A u \in Tokens : claims[u] # None => ~RevocationInProgress(Of(u))
    BY <1>1 DEF DeadSound
  <2> QED
    BY <1>1, <1>5, <2>1, <2>2, <2>3, <2>4 DEF DeadSound, Live
<1> QED
  BY <1>2, <1>3, <1>4, <1>6, <1>7 DEF IInv

LEMMA RevokeTokensStep ==
  ASSUME IInv, RevokeTokens
  PROVE  IInv'
<1> DEFINE d == call.d
           D == Subtree(d)
<1>1. /\ TypeOK /\ ForestSound /\ BindingsSound /\ TokensSound /\ CallSound /\ DeadSound
      /\ call.op = "revoke" /\ d \in revoking /\ d \in Delegations
      /\ \A x \in D : ~Active(x)
      /\ token' = [t \in Tokens |-> IF Of(t) \in D THEN Ended(t) ELSE token[t]]
      /\ claims' = Purged(D) /\ dead' = dead \cup D /\ call' = Idle
      /\ UNCHANGED <<purchase, parent, state, revoking, raised, binding, parked, faults>>
  BY DEF IInv, RevokeTokens, Running, Return, CallSound, TypeOK
<1> HIDE DEF d
<1>2. D = {x \in Delegations : Exists(x) /\ d \in Lineage(x)}
  BY DEF Subtree
<1> HIDE DEF D
<1>3. \A t \in Tokens : /\ Fades(t) /\ token'[t] \in Token
                        /\ Of(t) \in D => ~Live(t)'
                        /\ Of(t) \notin D => token'[t] = token[t]
  <2> SUFFICES ASSUME NEW t \in Tokens
               PROVE  /\ Fades(t) /\ token'[t] \in Token
                      /\ Of(t) \in D => ~Live(t)'
                      /\ Of(t) \notin D => token'[t] = token[t]
    OBVIOUS
  <2>1. token'[t] = IF Of(t) \in D THEN Ended(t) ELSE token[t]
    BY <1>1
  <2>2. token[t] \in Token /\ Ended(t) \in Token
    BY <1>1, EndedIs DEF TypeOK
  <2> QED
    BY <1>1, <2>1, <2>2, EndedFades
<1>4. /\ claims' \in [Tokens -> Tokens \cup {None}]
      /\ \A t \in Tokens : claims'[t] \in {claims[t], None}
      /\ \A t \in Tokens : Of(t) \in D => claims'[t] = None
  BY <1>1, PurgedIs
<1>5. TypeOK'
  <2>1. token' \in [Tokens -> Token]
    BY <1>1, <1>3
  <2>2. dead' \subseteq Delegations
    BY <1>1, <1>2 DEF TypeOK
  <2> QED
    BY <1>1, <1>4, <2>1, <2>2 DEF TypeOK, Idle
<1>6. ForestSound'
  BY <1>1, <1>2 DEF ForestSound, Exists
<1>7. BindingsSound'
  BY <1>1, <1>3, BindingsHold DEF BindingsSound, Exists
<1>8. TokensSound'
  <2>1. OneLiveCredential'
    BY <1>1, <1>3 DEF TokensSound, OneLiveCredential, Fades
  <2>2. ASSUME NEW u \in Tokens, Of(u) \in Children, token'[u] # NoToken
        PROVE  ChildToken(u)'
    <3>1. /\ token[u] # NoToken
          /\ token'[u].scopes = token[u].scopes /\ token'[u].told = token[u].told
      BY <1>3, <2>2 DEF Fades
    <3>2. ChildToken(u)
      BY <1>1, <2>2, <3>1 DEF TokensSound
    <3> QED
      BY <1>1, <1>4, <3>1, <3>2 DEF ChildToken, Exists
  <2>3. \A u \in Tokens : claims'[u] # None => Of(u) \in Children /\ token'[u] # NoToken
    BY <1>1, <1>3, <1>4 DEF TokensSound
  <2>4. \A u \in Tokens : Live(u)' /\ Of(u) \in Nonces => purchase'[Of(u)] = "claimed"
    BY <1>1, <1>3 DEF TokensSound, Fades
  <2> QED
    BY <2>1, <2>2, <2>3, <2>4 DEF TokensSound
<1>9. CallSound'
  BY <1>1 DEF CallSound, Idle
<1>10. DeadSound'
  <2>1. \A x : Lineage(x)' = Lineage(x)
    BY <1>1, LineageStays
  <2>2. \A x : Subtree(x)' = Subtree(x) /\ (Active(x)' <=> Active(x))
               /\ (RevocationInProgress(x)' <=> RevocationInProgress(x))
    BY <1>1, <2>1 DEF Subtree, Exists, Active, RevocationInProgress
  <2>3. ASSUME NEW x \in D
        PROVE  ~Active(x) /\ RevocationInProgress(x) /\ Subtree(x) \subseteq D
    <3>1. x \in Delegations /\ d \in Lineage(x)
      BY <1>2
    <3>2. RevocationInProgress(x)
      BY <1>1, <3>1 DEF RevocationInProgress
    <3>3. ASSUME NEW y \in Subtree(x)
          PROVE  y \in D
      <4>1. y \in Delegations /\ Exists(y) /\ x \in Lineage(y)
        BY DEF Subtree
      <4>2. d \in Lineage(y)
        BY <1>1, <3>1, <4>1, ForestIs
      <4> QED
        BY <1>2, <4>1, <4>2
    <3> QED
      BY <1>1, <3>2, <3>3
  <2>4. \A x \in dead : ~Active(x) /\ RevocationInProgress(x) /\ Subtree(x) \subseteq dead
    BY <1>1 DEF DeadSound
  <2>5. \A x \in dead' : ~Active(x)' /\ RevocationInProgress(x)' /\ Subtree(x)' \subseteq dead'
    BY <1>1, <2>2, <2>3, <2>4
  <2>6. \A u \in Tokens : Of(u) \in dead' => (Live(u)' => Of(u) \in Nonces) /\ claims'[u] = None
    BY <1>1, <1>3, <1>4 DEF DeadSound, Fades
  <2>7. ASSUME NEW u \in Tokens, claims'[u] # None
        PROVE  ~RevocationInProgress(Of(u))
    <3>1. claims[u] # None /\ Of(u) \notin D
      BY <1>4, <2>7
    <3>2. ChildToken(u)
      BY <1>1, <3>1 DEF TokensSound
    <3>3. d \notin Lineage(Of(u))
      BY <1>2, <3>1, <3>2, TokenIs DEF ChildToken
    <3> QED
      BY <1>1, <3>1, <3>3 DEF DeadSound, d
  <2> QED
    BY <2>2, <2>5, <2>6, <2>7 DEF DeadSound
<1> QED
  BY <1>5, <1>6, <1>7, <1>8, <1>9, <1>10 DEF IInv

-----------------------------------------------------------------------------
(***************************************************************************)
(* The reservation is made, unless a revocation covers its parent.         *)
(***************************************************************************)
LEMMA ReserveCoreStep ==
  ASSUME IInv, ReserveCore
  PROVE  IInv'
<1> DEFINE E == {x \in Delegations : Exists(x)}
<1>a. PICK c \in Children, by \in Tokens : c = call.d /\ by = call.by
  BY DEF IInv, ReserveCore, Running, CallSound
<1> DEFINE p == Of(by)
<1>1. /\ TypeOK /\ ForestSound /\ BindingsSound /\ TokensSound /\ CallSound /\ DeadSound
      /\ call.op = "reserve" /\ c \in Delegations
      /\ binding[c] = Authorization(by, call.scopes) /\ ~Exists(c) /\ Unused(c) # {}
      /\ p \in Delegations
      /\ UNCHANGED <<purchase, revoking, raised, token, binding, claims, parked, dead, faults>>
  BY <1>a, TokenIs DEF IInv, ReserveCore, Running, CallSound, Delegations
<1>2. /\ Exists(p) /\ binding[c] # None /\ binding[c].by = by
  <2>1. Authorization(by, call.scopes) # None
    BY <1>1, CredentialsAssumption DEF Authorization, Authorizations, TypeOK
  <2> QED
    BY <1>1, <2>1 DEF Authorization, BindingsSound
<1>3. CASE RevocationInProgress(p) /\ Return /\ UNCHANGED <<parent, state>>
  BY <1>1, <1>3, MemoryFades DEF Return, Idle, stores, TypeOK
<1>4. CASE /\ ~RevocationInProgress(p)
           /\ parent' = [parent EXCEPT ![c] = p]
           /\ state' = [state EXCEPT ![c] = "active"]
           /\ call' = [call EXCEPT !.op = "mint"]
  <2>1. /\ call' \in [op : {"idle", "session", "recovery", "issue", "rotate", "reserve", "mint", "revoke"},
                      d : Delegations \cup {None}, by : Tokens \cup {Buyer}, scopes : SUBSET Scopes]
        /\ call'.op = "mint" /\ call'.d = c /\ call'.by = by /\ call'.scopes = call.scopes
    <3>1. call \in [op : {"idle", "session", "recovery", "issue", "rotate", "reserve", "mint", "revoke"},
                    d : Delegations \cup {None}, by : Tokens \cup {Buyer}, scopes : SUBSET Scopes]
      BY <1>1 DEF TypeOK
    <3> QED
      BY <1>4, <1>a, <3>1
  <2> HIDE DEF p
  <2>2. /\ parent' \in [Delegations -> Delegations \cup {None}] /\ parent'[c] = p
        /\ \A x \in Delegations \ {c} : parent'[x] = parent[x]
        /\ state' \in [Delegations -> {"absent", "active", "settled"}] /\ state'[c] = "active"
        /\ \A x \in Delegations \ {c} : state'[x] = state[x]
    BY <1>1, <1>4 DEF TypeOK
  <2>3. /\ Exists(c)' /\ Active(c)'
        /\ \A x \in Delegations \ {c} : (Exists(x)' <=> Exists(x)) /\ (Active(x)' <=> Active(x))
    BY <2>2 DEF Exists, Active
  <2>4. E \in SUBSET Delegations /\ Closed(parent, E) /\ c \in Delegations \ E /\ p \in E
    BY <1>1, <1>2, ForestIs
  <2>5. /\ revoking \cup dead \subseteq E /\ c \notin E
        /\ \A x \in E : x # c /\ x \in Delegations
    BY <1>1 DEF ForestSound
  <2> HIDE DEF E
  <2>6. /\ \A x \in E : Lineage(x)' = Lineage(x) /\ Lineage(x) \subseteq E
        /\ Lineage(c)' = {c} \cup Lineage(p)
    <3>1. parent \in [Delegations -> Delegations \cup {None}]
      BY <1>1 DEF TypeOK
    <3>2. /\ \A x \in E : /\ LineageIn(parent', x) = LineageIn(parent, x)
                           /\ LineageIn(parent, x) \subseteq E
          /\ LineageIn(parent', c) = {c} \cup LineageIn(parent, p)
      BY <2>2, <2>4, <3>1, LineageGrows
    <3>3. \A d : Lineage(d) = LineageIn(parent, d)
      BY LineageOf
    <3>4. \A d : Lineage(d)' = LineageIn(parent', d)
      BY DEF Lineage, LineageIn, Closed
    <3> QED
      BY <3>2, <3>3, <3>4
  <2>7. /\ \A x \in E : RevocationInProgress(x)' <=> RevocationInProgress(x)
        /\ ~RevocationInProgress(c)'
    BY <1>1, <1>4, <2>6, <2>5 DEF RevocationInProgress
  <2>8. TypeOK'
    BY <1>1, <2>1, <2>2 DEF TypeOK
  <2>9. ForestSound'
    <3>1. ASSUME NEW d \in Delegations, parent'[d] # None
          PROVE  d \in Children /\ Exists(d)' /\ state'[parent'[d]] # "absent"
      <4>1. CASE d = c
        BY <1>1, <1>2, <2>2, <2>3, <4>1 DEF Exists
      <4>2. CASE d # c
        <5>1. parent'[d] = parent[d] /\ parent[d] \in Delegations
          BY <1>1, <2>2, <3>1, <4>2 DEF TypeOK
        <5>2. d \in Children /\ Exists(d) /\ Exists(parent[d])
          BY <1>1, <3>1, <5>1 DEF ForestSound
        <5> QED
          BY <1>1, <2>2, <2>3, <4>2, <5>1, <5>2 DEF Exists
      <4> QED
        BY <4>1, <4>2
    <3>2. ASSUME NEW x \in Children, Exists(x)'
          PROVE  binding'[x] # None /\ parent'[x] = Of(binding'[x].by)
      <4>1. CASE x = c
        BY <1>1, <1>2, <2>2, <4>1 DEF p
      <4>2. CASE x # c
        BY <1>1, <2>2, <2>3, <3>2, <4>2 DEF ForestSound, Delegations
      <4> QED
        BY <4>1, <4>2
    <3>3. revoking' \cup dead' \subseteq {d \in Delegations : Exists(d)'}
      BY <1>1, <2>3, <2>5 DEF E
    <3> QED
      BY <3>1, <3>2, <3>3 DEF ForestSound, Exists
  <2>10. BindingsSound'
    <3>1. \A x \in Children : binding[x] # None => Of(binding[x].by) \in Delegations
      BY <1>1, TokenIs DEF TypeOK, Authorizations
    <3>2. \A x \in Delegations : state[x] # "absent" => state'[x] # "absent"
      BY <2>2
    <3> QED
      BY <1>1, <3>1, <3>2 DEF BindingsSound, Exists
  <2>11. TokensSound'
    <3>1. \A u \in Tokens : ChildToken(u) => ChildToken(u)'
      BY <1>1, <2>3, TokenIs DEF ChildToken
    <3> QED
      BY <1>1, <3>1 DEF TokensSound, OneLiveCredential, Live
  <2>12. CallSound'
    <3>1. \A u \in Tokens : Of(u) = c => ~Live(u)'
      <4>1. ASSUME NEW u \in Tokens, Of(u) = c, Live(u)
            PROVE  FALSE
        <5>1. token[u] # NoToken
          BY <4>1, TokenIs DEF Live
        <5> QED
          BY <1>1, <4>1, <5>1 DEF TokensSound, ChildToken
      <4> QED
        BY <1>1, <4>1 DEF Live
    <3>2. Unused(c)' = Unused(c)
      BY <1>1 DEF Unused, Live, Named
    <3>3. Open(c)'
      BY <2>3, <2>7 DEF Open
    <3>4. binding'[c] = Authorization(by, call.scopes) /\ Unused(c)' # {}
      BY <1>1, <3>2
    <3> QED
      BY <1>1, <2>1, <3>1, <3>3, <3>4 DEF CallSound
  <2>13. DeadSound'
    <3>1. ASSUME NEW d \in dead
          PROVE  ~Active(d)' /\ RevocationInProgress(d)' /\ Subtree(d)' \subseteq dead
      <4>1. ~Active(d) /\ RevocationInProgress(d) /\ Subtree(d) \subseteq dead /\ d \in E
        BY <1>1, <2>5 DEF DeadSound
      <4>2. ASSUME NEW x \in Delegations, Exists(x)', d \in Lineage(x)'
            PROVE  x \in dead
        <5>1. CASE x = c
          <6>1. d \in Lineage(p)
            BY <2>6, <2>5, <4>1, <4>2, <5>1
          <6>2. Lineage(d) \subseteq Lineage(p)
            BY <1>1, <6>1, ForestIs
          <6> QED
            BY <1>4, <4>1, <6>2 DEF RevocationInProgress
        <5>2. CASE x # c
          <6>1. Exists(x) /\ d \in Lineage(x)
            BY <2>3, <2>6, <4>2, <5>2 DEF E
          <6> QED
            BY <4>1, <6>1 DEF Subtree
        <5> QED
          BY <5>1, <5>2
      <4>3. Subtree(d)' \subseteq dead
        BY <4>2 DEF Subtree
      <4> QED
        BY <2>3, <2>5, <2>7, <4>1, <4>3
    <3>2. ASSUME NEW u \in Tokens, claims[u] # None
          PROVE  ~RevocationInProgress(Of(u))'
      <4>1. ChildToken(u) /\ ~RevocationInProgress(Of(u))
        BY <1>1, <3>2 DEF TokensSound, DeadSound
      <4>2. Of(u) \in E
        BY <4>1, TokenIs DEF ChildToken, E
      <4> QED
        BY <2>7, <4>1, <4>2
    <3> QED
      BY <1>1, <3>1, <3>2 DEF DeadSound, Live
  <2> QED
    BY <2>8, <2>9, <2>10, <2>11, <2>12, <2>13 DEF IInv
<1> QED
  BY <1>a, <1>3, <1>4 DEF ReserveCore, p

-----------------------------------------------------------------------------
LEMMA StutterStep ==
  ASSUME IInv, UNCHANGED vars
  PROVE  IInv'
<1>1. UNCHANGED <<purchase, parent, state, revoking, raised, token, binding, dead, claims, parked, call, faults>>
  BY DEF vars, stores, memory
<1>2. TypeOK'
  BY <1>1 DEF IInv, TypeOK
<1>3. ForestSound' /\ BindingsSound'
  BY <1>1 DEF IInv, ForestSound, BindingsSound, Exists
<1>4. TokensSound'
  BY <1>1 DEF IInv, TokensSound, OneLiveCredential, Live, ChildToken, Exists
<1>5. \A d : Lineage(d)' = Lineage(d)
  BY <1>1, LineageStays
<1>6. \A d : Subtree(d)' = Subtree(d) /\ (Active(d)' <=> Active(d)) /\ (Exists(d)' <=> Exists(d))
             /\ (RevocationInProgress(d)' <=> RevocationInProgress(d)) /\ Unused(d)' = Unused(d)
  BY <1>1, <1>5 DEF Subtree, Exists, Active, RevocationInProgress, Unused, Live, Named
<1>7. CallSound'
  BY <1>1, <1>6 DEF IInv, CallSound, Open, Live
<1>8. DeadSound'
  BY <1>1, <1>5, <1>6 DEF IInv, DeadSound, Live
<1> QED
  BY <1>2, <1>3, <1>4, <1>7, <1>8 DEF IInv

LEMMA StepIInv == IInv /\ [Next]_vars => IInv'
<1> SUFFICES ASSUME IInv, [Next]_vars
             PROVE  IInv'
  OBVIOUS
<1>1. CASE UNCHANGED vars
  BY <1>1, StutterStep
<1>2. CASE \E n \in Nonces : CreateSession(n) \/ RecoverSession(n)
  BY <1>2, SessionStep
<1>3. CASE \E t \in Tokens, w \in Wanted :
             \/ Reserve(t, w[1], w[2], w[3])
             \/ Recover(t, w[1], w[2], w[3])
  BY <1>3, ReserveStep, RecoverStep
<1>4. CASE \E k \in parked : FailTask(k) \/ \E g \in Tokens : ContinueAfterGrant(g, k)
  BY <1>4, FadingSteps, ContinueStep
<1>5. CASE \E k \in Tokens : ClaimExpires(k) \/ TokenExpires(k) \/ \E t \in Tokens : Redeem(t, k)
  BY <1>5, FadingSteps, ExpiryStep, RedeemStep
<1>6. CASE \E t \in Tokens, d \in Delegations : Grant(t, d) \/ Settle(t, d) \/ Revoke(t, d)
  BY <1>6, GrantStep, SettleSteps, RevokeStep
<1>7. CASE Proceed
  BY <1>7, CreateRootStep, MintRootStep, FadingSteps, ReserveCoreStep, MintChildStep,
     SettleSteps, RevokeTokensStep DEF Proceed
<1>8. CASE Restart
  BY <1>8, FadingSteps
<1> QED
  BY <1>1, <1>2, <1>3, <1>4, <1>5, <1>6, <1>7, <1>8 DEF Next

LEMMA AlwaysIInv == Spec => []IInv
BY InitIInv, StepIInv, PTL DEF Spec

-----------------------------------------------------------------------------
(***************************************************************************)
(* Whatever is repeated, recovered, rotated or resumed after a restart: a  *)
(* delegation has one live credential at most, and a child's descends from *)
(* the credential that authorized it (a2a_economic_authority's             *)
(* capabilities, handoff and server).                                      *)
(***************************************************************************)
THEOREM CredentialsStaySound == Spec => []CredentialsAreSound
<1>1. IInv => CredentialsAreSound
  <2> SUFFICES ASSUME IInv PROVE CredentialsAreSound
    OBVIOUS
  <2>1. TypeOK /\ OneLiveCredential
    BY DEF IInv, TokensSound
  <2>2. ASSUME NEW t \in Tokens, Of(t) \in Children, token[t] # NoToken
        PROVE  /\ token[t].scopes \subseteq token[binding[Of(t)].by].scopes
               /\ Of(binding[Of(t)].by) = parent[Of(t)]
               /\ token[t].told \subseteq {binding[Of(t)].by}
               /\ claims[t] \in {None, binding[Of(t)].by}
    <3>1. ChildToken(t)
      BY <2>2 DEF IInv, TokensSound
    <3>2. binding[Of(t)] # None /\ parent[Of(t)] = Of(binding[Of(t)].by)
      BY <2>2, <3>1 DEF IInv, ForestSound, ChildToken
    <3>3. binding[Of(t)].scopes \subseteq token[binding[Of(t)].by].scopes
      BY <2>2, <3>2 DEF IInv, BindingsSound
    <3> QED
      BY <3>1, <3>2, <3>3 DEF ChildToken
  <2> QED
    BY <2>1, <2>2 DEF CredentialsAreSound, CredentialsDescend
<1> QED
  BY <1>1, AlwaysIInv, PTL

(***************************************************************************)
(* What a completed revocation covered is never funded again, nothing is   *)
(* reserved below it, and no parked task, claim or late recovery gives it  *)
(* a credential (a2a_economic_authority's revoke, recovery and handoff).   *)
(***************************************************************************)
THEOREM RevokedAlwaysStaysDead == Spec => []RevokedStaysDead
<1>1. IInv => RevokedStaysDead
  BY DEF IInv, DeadSound, RevokedStaysDead, Running
<1> QED
  BY <1>1, AlwaysIInv, PTL

(***************************************************************************)
(* A request delivered twice ends no credential: of the handlers that      *)
(* mint, only a recovery that was asked for finds one alive                *)
(* (a2a_economic_authority's create_session and reserve).                  *)
(***************************************************************************)
THEOREM RetriesNeverEnd == Spec => RetriesEndNothing
<1>1. IInv /\ [Next]_vars =>
        [call.op \notin {"idle", "rotate", "revoke"} /\ call' # call =>
           \A t \in Tokens : Live(t) => Live(t)']_vars
  <2> SUFFICES ASSUME IInv, Next, call.op \notin {"idle", "rotate", "revoke"}, call' # call,
                      NEW t \in Tokens, Live(t)
               PROVE  Live(t)'
    BY DEF vars
  <2>1. CASE UNCHANGED token
    BY <2>1 DEF Live
  <2>2. CASE MintRoot
    <3>1. /\ call.op = "issue" /\ call.d \in Nonces /\ purchase[call.d] # "claimed"
          /\ Unused(call.d) # {} /\ call.d \in Delegations /\ TypeOK /\ BindingsSound
      BY <2>2 DEF MintRoot, IssueRoot, Running, NeedsIssue, IInv, CallSound, Delegations
    <3>2. PICK readers \in {{}, {Buyer}} : token' = Minted(call.d, Scopes, readers)
      BY <2>2 DEF MintRoot
    <3>3. readers \in SUBSET (Tokens \cup {Buyer})
      OBVIOUS
    <3>4. Of(t) # call.d
      BY <3>1 DEF IInv, TokensSound
    <3>5. t # Fresh(call.d)
      BY <3>1, FreshIs
    <3>6. Mints(call.d, Scopes, readers)
      BY <3>1, <3>2, <3>3, MintedIs
    <3>7. token'[t] = token[t]
      BY <3>4, <3>5, <3>6 DEF Mints
    <3> QED
      BY <3>7 DEF Live
  <2>3. CASE MintChild
    <3>1. /\ Of(t) # call.d /\ Unused(call.d) # {} /\ call.d \in Delegations
          /\ call.scopes \in SUBSET Scopes /\ TypeOK /\ token' = Minted(call.d, call.scopes, {})
      BY <2>3 DEF MintChild, MintCredential, Running, IInv, CallSound, Delegations, TypeOK
    <3>2. t # Fresh(call.d)
      BY <3>1, FreshIs
    <3>3. Mints(call.d, call.scopes, {})
      BY <3>1, MintedIs
    <3>4. token'[t] = token[t]
      BY <3>1, <3>2, <3>3 DEF Mints
    <3> QED
      BY <3>4 DEF Live
  <2>4. CASE CreateRoot \/ AlreadyClaimed \/ ReserveCore \/ Restart
    BY <2>1, <2>4 DEF CreateRoot, AlreadyClaimed, ReserveCore, Restart, stores
  <2>5. ASSUME Running("revoke") PROVE FALSE
    BY <2>5 DEF Running
  <2>6. ASSUME Running("idle") PROVE FALSE
    BY <2>6 DEF Running
  <2>7. ASSUME NEW k \in Tokens, TokenExpires(k)
        PROVE  FALSE
    BY <2>7 DEF TokenExpires, memory
  <2> QED
    BY <2>2, <2>3, <2>4, <2>5, <2>6, <2>7 DEF Next, Proceed, RevokeSettles, RevokeTokens,
       CreateSession, RecoverSession, Reserve, Recover, FailTask, ContinueAfterGrant,
       ClaimExpires, Redeem, Grant, Settle, Revoke
<1> QED
  BY <1>1, AlwaysIInv, PTL DEF Spec, RetriesEndNothing
=============================================================================
