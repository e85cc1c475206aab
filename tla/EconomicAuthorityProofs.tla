----------------------- MODULE EconomicAuthorityProofs -----------------------
(***************************************************************************)
(* Proofs about EconomicAuthority, for any number of delegations, amounts, *)
(* events and revocations: its types; that the books of every delegation   *)
(* balance and never promise more than it has; that the account of a       *)
(* settled delegation is final; that the log and the rows tell the same,   *)
(* every dollar once; and that a revocation leaves nothing alive.          *)
(***************************************************************************)
EXTENDS EconomicAuthority, TLAPS

-----------------------------------------------------------------------------
(***************************************************************************)
(* Every variable keeps its type; a revocation has a target, and one that  *)
(* settles a delegation has found it.                                      *)
(***************************************************************************)
HasCurrent ==
  \A v \in Revokes : /\ pc[v] # "idle" => target[v] \in Delegations
                     /\ pc[v] = "settling" => current[v] \in Delegations

LEMMA SettledType ==
  ASSUME TypeOK, NEW d \in Delegations, NEW e \in EventIds, NEW o \in Outcomes, Settled(d, e, o)
  PROVE  /\ state' \in [Delegations -> {"absent", "active", "settled"}]
         /\ consumed' \in [Delegations -> Nat]
         /\ reserved' \in [Delegations -> Int]
         /\ released' \in [Delegations -> Int]
         /\ log' \in [Delegations -> [EventIds -> Requests]]
         /\ UNCHANGED <<parent, authority, unknown, revoking, withdrawn>>
<1> USE DEF TypeOK, Settled
<1>1. state' \in [Delegations -> {"absent", "active", "settled"}]
  OBVIOUS
<1>2. Released(d) \in Int
  BY DEF Released, Headroom
<1>3. consumed' \in [Delegations -> Nat]
  BY DEF SettledConsumed
<1>4. reserved' \in [Delegations -> Int]
  BY <1>2
<1>5. released' \in [Delegations -> Int]
  BY <1>2
<1>6. [kind |-> "settlement", outcome |-> o] \in Requests
  BY DEF Requests
<1>7. log' \in [Delegations -> [EventIds -> Requests]]
  BY <1>6 DEF Record
<1> QED
  BY <1>1, <1>3, <1>4, <1>5, <1>7

LEMMA TypeStep ==
  ASSUME TypeOK, HasCurrent, [Next]_vars
  PROVE  TypeOK' /\ HasCurrent'
<1> USE AuthorityAssumption DEF TypeOK, HasCurrent, rows, job, EventIds, Goto, Acceptable
<1>1. ASSUME NEW d \in Delegations, NEW e \in Events, NEW n \in Amounts, CreateRoot(d, e, n)
      PROVE  TypeOK' /\ HasCurrent'
  <2>1. [kind |-> "root", amount |-> n] \in Requests
    BY DEF Requests
  <2>2. n \in Nat
    BY <1>1 DEF CreateRoot
  <2> QED
    BY <1>1, <2>1, <2>2 DEF CreateRoot, Record
<1>2. ASSUME NEW d \in Delegations, NEW p \in Delegations, NEW e \in Events, NEW n \in Amounts,
             Reserve(d, p, e, n)
      PROVE  TypeOK' /\ HasCurrent'
  <2>1. [kind |-> "reservation", amount |-> n, parent |-> p] \in Requests
    BY DEF Requests
  <2>2. authority' \in [Delegations -> Nat]
    BY <1>2 DEF Reserve
  <2>3. reserved' \in [Delegations -> Int]
    BY <1>2 DEF Reserve
  <2>4. log' \in [Delegations -> [EventIds -> Requests]]
    BY <1>2, <2>1 DEF Reserve, Record
  <2> QED
    BY <1>2, <2>2, <2>3, <2>4 DEF Reserve
<1>3. ASSUME NEW d \in Delegations, NEW e \in Events, NEW n \in Amounts, Grant(d, e, n)
      PROVE  TypeOK' /\ HasCurrent'
  <2>1. [kind |-> "authority_grant", amount |-> n] \in Requests
    BY DEF Requests
  <2>2. authority' \in [Delegations -> Nat]
    BY <1>3 DEF Grant
  <2>3. reserved' \in [Delegations -> Int]
    BY <1>3 DEF Grant, GrantedReserved
  <2>4. log' \in [Delegations -> [EventIds -> Requests]]
    BY <1>3, <2>1 DEF Grant, Record
  <2> QED
    BY <1>3, <2>2, <2>3, <2>4 DEF Grant
<1>4. ASSUME NEW d \in Delegations, NEW e \in Events, NEW n \in Amounts \cup {Unknown},
             Consume(d, e, n)
      PROVE  TypeOK' /\ HasCurrent'
  <2>1. [kind |-> "consumption", amount |-> n] \in Requests
    BY DEF Requests
  <2>2. consumed' \in [Delegations -> Nat] /\ unknown' \in [Delegations -> Nat]
    BY <1>4 DEF Consume
  <2> QED
    BY <1>4, <2>1, <2>2 DEF Consume, Record
<1>5. ASSUME NEW d \in Delegations, NEW e \in Events, NEW o \in Outcomes, Settle(d, e, o)
      PROVE  TypeOK' /\ HasCurrent'
  BY <1>5, SettledType DEF Settle
<1>6. ASSUME NEW v \in Revokes, NEW d \in Delegations, MarkRevocationStarted(v, d)
      PROVE  TypeOK' /\ HasCurrent'
  BY <1>6 DEF MarkRevocationStarted
<1>7. ASSUME NEW v \in Revokes, FindSubtree(v)
      PROVE  TypeOK' /\ HasCurrent'
  <2>1. /\ subtree' = [subtree EXCEPT ![v] = {target[v]} \cup Descendants(target[v])]
        /\ todo' = [todo EXCEPT ![v] = {target[v]} \cup Descendants(target[v])]
        /\ pc[v] = "marked" /\ pc' = [pc EXCEPT ![v] = "looking"]
        /\ UNCHANGED <<rows, log, withdrawn, target, current, crashes>>
    BY <1>7 DEF FindSubtree, Goto
  <2>2. {target[v]} \cup Descendants(target[v]) \in SUBSET Delegations
    BY <2>1 DEF Descendants
  <2>3. subtree' \in [Revokes -> SUBSET Delegations] /\ todo' \in [Revokes -> SUBSET Delegations]
    BY <2>1, <2>2
  <2> QED
    BY <2>1, <2>3
<1>8. ASSUME NEW v \in Revokes, NEW d \in Delegations, LookAt(v, d)
      PROVE  TypeOK' /\ HasCurrent'
  <2>1. UNCHANGED <<rows, log, withdrawn, target, subtree, crashes>>
    BY <1>8 DEF LookAt
  <2>2. pc[v] = "looking" /\ todo' = [todo EXCEPT ![v] = @ \ {d}]
    BY <1>8 DEF LookAt
  <2>3. todo' \in [Revokes -> SUBSET Delegations]
    BY <2>2
  <2>4. CASE current' = [current EXCEPT ![v] = d] /\ pc' = [pc EXCEPT ![v] = "settling"]
    <3>1. TypeOK'
      BY <2>1, <2>3, <2>4
    <3>2. HasCurrent'
      BY <2>1, <2>2, <2>4
    <3> QED
      BY <3>1, <3>2
  <2>5. CASE UNCHANGED <<current, pc>>
    BY <2>1, <2>3, <2>5
  <2> QED
    BY <1>8, <2>4, <2>5 DEF LookAt, Goto
<1>9. ASSUME NEW v \in Revokes, SettleCurrent(v)
      PROVE  TypeOK' /\ HasCurrent'
  <2>1. CASE Settled(current[v], Internal, Outcome[v])
    BY <1>9, <2>1, SettledType DEF SettleCurrent
  <2>2. CASE UNCHANGED <<rows, log, withdrawn>>
    BY <1>9, <2>2 DEF SettleCurrent
  <2> QED
    BY <1>9, <2>1, <2>2 DEF SettleCurrent
<1>10. ASSUME NEW v \in Revokes, RevokeTokens(v)
       PROVE  TypeOK' /\ HasCurrent'
  BY <1>10 DEF RevokeTokens
<1>11. ASSUME NEW v \in Revokes, Crash(v)
       PROVE  TypeOK' /\ HasCurrent'
  <2>1. crashes' \in 0 .. MaxCrashes
    BY <1>11 DEF Crash
  <2>2. pc' = [pc EXCEPT ![v] = "failed"]
    BY <1>11 DEF Crash
  <2>3. UNCHANGED <<rows, log, withdrawn, target, subtree, todo, current>>
    BY <1>11 DEF Crash
  <2>4. pc[v] # "idle"
    BY <1>11 DEF Crash
  <2>5. HasCurrent'
    BY <2>2, <2>3, <2>4
  <2>6. TypeOK'
    BY <2>1, <2>2, <2>3
  <2> QED
    BY <2>5, <2>6
<1>12. CASE UNCHANGED vars
  BY <1>12 DEF vars
<1> QED
  BY <1>1, <1>2, <1>3, <1>4, <1>5, <1>6, <1>7, <1>8, <1>9, <1>10, <1>11, <1>12
  DEF Next, Proceed

(***************************************************************************)
(* Every variable of EconomicAuthority keeps its type.                     *)
(***************************************************************************)
THEOREM TypeCorrect == Spec => []TypeOK
<1>1. Init => TypeOK /\ HasCurrent
  BY AuthorityAssumption DEF Init, TypeOK, HasCurrent, EventIds, Requests
<1>2. TypeOK /\ HasCurrent /\ [Next]_vars => (TypeOK /\ HasCurrent)'
  BY TypeStep
<1> QED
  BY <1>1, <1>2, PTL DEF Spec

-----------------------------------------------------------------------------
(***************************************************************************)
(* The invariant.  Delegations form a forest in which an active one has    *)
(* active ancestors; the books balance and cover what they promise.        *)
(***************************************************************************)
Forest ==
  \A d \in Delegations :
    /\ parent[d] # None => parent[d] # d /\ Exists(d) /\ Exists(parent[d])
    /\ parent[d] # None /\ Active(d) => Active(parent[d])

CoveredAt(d) ==
  /\ reserved[d] >= 0 /\ released[d] >= 0
  /\ consumed[d] + reserved[d] + released[d] <= authority[d]
  /\ ~Exists(d) => authority[d] = 0
  /\ Active(d) => released[d] = 0

Covered == \A d \in Delegations : CoveredAt(d)

IInv == TypeOK /\ HasCurrent /\ Forest /\ Covered /\ BooksBalance

(***************************************************************************)
(* The children of a delegation are finitely many, and what they hold or   *)
(* keep locked is not negative.                                            *)
(***************************************************************************)
LEMMA Holdings ==
  ASSUME TypeOK, Covered, NEW q \in Delegations
  PROVE  /\ IsFiniteSet(ActiveChildren(q)) /\ IsFiniteSet(SettledChildren(q))
         /\ \A x \in ActiveChildren(q) : x \in Delegations /\ authority[x] \in Nat
         /\ \A x \in SettledChildren(q) : x \in Delegations /\ Locked[x] \in Nat
         /\ Total(authority, ActiveChildren(q)) \in Nat
         /\ Total(Locked, SettledChildren(q)) \in Nat
<1>1. ActiveChildren(q) \subseteq Delegations /\ SettledChildren(q) \subseteq Delegations
  BY DEF ActiveChildren, SettledChildren, Children
<1>2. IsFiniteSet(ActiveChildren(q)) /\ IsFiniteSet(SettledChildren(q))
  BY <1>1, FS_Subset, AuthorityAssumption
<1>3. \A x \in Delegations : authority[x] \in Nat /\ Locked[x] \in Nat
  BY DEF TypeOK, Covered, CoveredAt, Locked
<1> QED
  BY <1>1, <1>2, <1>3, TotalType

(***************************************************************************)
(* The books of a delegation stay balanced when neither what it reserved   *)
(* nor its children, nor what these hold or keep locked, changes.          *)
(***************************************************************************)
LEMMA SameBooks ==
  ASSUME BooksBalance, NEW q \in Delegations,
         reserved'[q] = reserved[q],
         ActiveChildren(q)' = ActiveChildren(q),
         SettledChildren(q)' = SettledChildren(q),
         \A x \in ActiveChildren(q) : authority'[x] = authority[x],
         \A x \in SettledChildren(q) : Locked'[x] = Locked[x]
  PROVE  reserved'[q] = Total(authority', ActiveChildren(q)') + Total(Locked', SettledChildren(q)')
<1>1. Total(authority', ActiveChildren(q)) = Total(authority, ActiveChildren(q))
  BY TotalSameTerms
<1>2. Total(Locked', SettledChildren(q)) = Total(Locked, SettledChildren(q))
  BY TotalSameTerms
<1> QED
  BY <1>1, <1>2 DEF BooksBalance

(***************************************************************************)
(* Opening a root gives nobody a child.                                    *)
(***************************************************************************)
LEMMA CreateRootKeeps ==
  ASSUME IInv, NEW d \in Delegations, NEW e \in Events, NEW n \in Amounts, CreateRoot(d, e, n)
  PROVE  Forest' /\ Covered' /\ BooksBalance'
<1> USE DEF IInv, TypeOK, CreateRoot, Exists, Active
<1>1. parent[d] = None /\ n \in Nat
  BY AuthorityAssumption DEF Forest, Acceptable
<1>2. Forest'
  BY <1>1, AuthorityAssumption DEF Forest
<1>3. ASSUME NEW x \in Delegations
      PROVE  CoveredAt(x)'
  <2>1. CASE x = d
    <3>1. consumed[d] = 0 /\ reserved[d] = 0 /\ released[d] = 0
      <4>1. /\ consumed[d] \in Nat /\ reserved[d] \in Int /\ released[d] \in Int
            /\ reserved[d] >= 0 /\ released[d] >= 0
            /\ consumed[d] + reserved[d] + released[d] <= 0
        BY DEF Covered, CoveredAt
      <4> HIDE DEF IInv, TypeOK, CreateRoot
      <4> QED
        BY <4>1
    <3>2. consumed'[d] = 0 /\ reserved'[d] = 0 /\ released'[d] = 0 /\ authority'[d] = n
      BY <1>1, <3>1
    <3>3. state'[d] = "active"
      OBVIOUS
    <3> QED
      BY <1>1, <2>1, <3>2, <3>3 DEF CoveredAt
  <2>2. CASE x # d
    BY <2>2 DEF Covered, CoveredAt
  <2> QED
    BY <2>1, <2>2
<1>4. ASSUME NEW q \in Delegations
      PROVE  reserved'[q] = Total(authority', ActiveChildren(q)') + Total(Locked', SettledChildren(q)')
  <2>1. ActiveChildren(q)' = ActiveChildren(q) /\ SettledChildren(q)' = SettledChildren(q)
    BY <1>1, AuthorityAssumption DEF ActiveChildren, SettledChildren, Children
  <2>2. d \notin ActiveChildren(q) /\ d \notin SettledChildren(q)
    BY DEF ActiveChildren, SettledChildren, Children
  <2>3. \A x \in ActiveChildren(q) : authority'[x] = authority[x]
    BY <2>2 DEF ActiveChildren, Children
  <2>4. \A x \in SettledChildren(q) : Locked'[x] = Locked[x]
    BY <2>2 DEF SettledChildren, Children, Locked
  <2>5. reserved'[q] = reserved[q]
    OBVIOUS
  <2> QED
    BY <2>1, <2>3, <2>4, <2>5, SameBooks
<1>5. BooksBalance'
  BY <1>4 DEF BooksBalance
<1> QED
  BY <1>2, <1>3, <1>5 DEF Covered

(***************************************************************************)
(* A reservation adds to its parent a child, and what the child may spend. *)
(***************************************************************************)
LEMMA ReserveKeeps ==
  ASSUME IInv, NEW d \in Delegations, NEW p \in Delegations, NEW e \in Events, NEW n \in Amounts,
         Reserve(d, p, e, n)
  PROVE  Forest' /\ Covered' /\ BooksBalance'
<1> USE DEF IInv, TypeOK, Reserve, Exists, Active
<1>1. n \in Nat /\ p # d /\ p # None /\ d # None
  BY AuthorityAssumption DEF Acceptable
<1>2. Active(p) /\ consumed[p] + reserved[p] + n <= authority[p]
  BY <1>1 DEF Funds, Headroom
<1>3. Forest'
  BY <1>1, <1>2 DEF Forest
<1>4. ASSUME NEW x \in Delegations
      PROVE  CoveredAt(x)'
  <2>1. CASE x = d
    <3>1. consumed[d] = 0 /\ reserved[d] = 0 /\ released[d] = 0
      <4>1. /\ consumed[d] \in Nat /\ reserved[d] \in Int /\ released[d] \in Int
            /\ reserved[d] >= 0 /\ released[d] >= 0
            /\ consumed[d] + reserved[d] + released[d] <= 0
        BY DEF Covered, CoveredAt
      <4> HIDE DEF IInv, TypeOK, Reserve
      <4> QED
        BY <4>1
    <3>2. consumed'[d] = 0 /\ reserved'[d] = 0 /\ released'[d] = 0 /\ authority'[d] = n
      BY <1>1, <3>1
    <3>3. state'[d] = "active"
      OBVIOUS
    <3> QED
      BY <1>1, <2>1, <3>2, <3>3 DEF CoveredAt
  <2>2. CASE x = p
    BY <1>1, <1>2, <2>2 DEF Covered, CoveredAt
  <2>3. CASE x # d /\ x # p
    BY <2>3 DEF Covered, CoveredAt
  <2> QED
    BY <2>1, <2>2, <2>3
<1>5. ASSUME NEW q \in Delegations
      PROVE  reserved'[q] = Total(authority', ActiveChildren(q)') + Total(Locked', SettledChildren(q)')
  <2>1. SettledChildren(q)' = SettledChildren(q)
    BY <1>1 DEF ActiveChildren, SettledChildren, Children
  <2>2. d \notin ActiveChildren(q) /\ d \notin SettledChildren(q)
    BY DEF ActiveChildren, SettledChildren, Children
  <2>3. \A x \in ActiveChildren(q) : authority'[x] = authority[x]
    BY <2>2 DEF ActiveChildren, Children
  <2>4. ASSUME NEW x \in SettledChildren(q)
        PROVE  Locked'[x] = Locked[x]
    <3>1. x \in Delegations /\ x # d
      BY <2>2 DEF SettledChildren, Children
    <3> QED
      BY <3>1 DEF Locked
  <2>5. CASE q # p
    <3>1. ActiveChildren(q)' = ActiveChildren(q)
      BY <1>1, <2>5 DEF ActiveChildren, Children, Forest
    <3>2. reserved'[q] = reserved[q]
      BY <2>5
    <3> QED
      BY <2>1, <2>3, <2>4, <3>1, <3>2, SameBooks
  <2>6. CASE q = p
    <3>1. ActiveChildren(q)' = ActiveChildren(q) \cup {d}
      BY <1>1, <2>6 DEF ActiveChildren, Children
    <3>2. authority'[d] = n
      OBVIOUS
    <3>3. \A x \in ActiveChildren(q) \cup {d} : authority'[x] \in Nat
      BY <1>1, <2>3, <3>2, Holdings
    <3> HIDE DEF IInv, TypeOK, Reserve, Exists, Active
    <3>0. IsFiniteSet(ActiveChildren(q))
      BY Holdings DEF IInv
    <3>4. Total(authority', ActiveChildren(q)') = Total(authority', ActiveChildren(q)) + n
      BY <2>2, <3>0, <3>1, <3>2, <3>3, TotalInsert
    <3>5. Total(authority', ActiveChildren(q)) = Total(authority, ActiveChildren(q))
      BY <2>3, TotalSameTerms
    <3>6. Total(Locked', SettledChildren(q)') = Total(Locked, SettledChildren(q))
      BY <2>1, <2>4, TotalSameTerms
    <3>7. reserved'[q] = reserved[q] + n
      BY <2>6 DEF IInv, TypeOK, Reserve
    <3>8. reserved[q] = Total(authority, ActiveChildren(q)) + Total(Locked, SettledChildren(q))
      BY DEF IInv, BooksBalance
    <3>9. /\ Total(authority, ActiveChildren(q)) \in Nat
          /\ Total(Locked, SettledChildren(q)) \in Nat
      BY Holdings DEF IInv
    <3> QED
      BY <1>1, <3>4, <3>5, <3>6, <3>7, <3>8, <3>9
  <2> QED
    BY <2>5, <2>6
<1>6. BooksBalance'
  BY <1>5 DEF BooksBalance
<1> QED
  BY <1>3, <1>4, <1>6 DEF Covered

(***************************************************************************)
(* A grant to a child is set aside by its parent; a root's is a top-up.    *)
(***************************************************************************)
LEMMA GrantKeeps ==
  ASSUME IInv, NEW d \in Delegations, NEW e \in Events, NEW n \in Amounts, Grant(d, e, n)
  PROVE  Forest' /\ Covered' /\ BooksBalance'
<1> USE DEF IInv, TypeOK, Grant, GrantedReserved, Exists, Active
<1>1. n \in Nat /\ Active(d)
  BY AuthorityAssumption DEF Acceptable
<1>2. parent[d] # None =>
        /\ parent[d] \in Delegations /\ parent[d] # d /\ Active(parent[d])
        /\ consumed[parent[d]] + reserved[parent[d]] + n <= authority[parent[d]]
  BY <1>1 DEF Funds, Headroom, Forest
<1>3. Forest'
  BY DEF Forest
<1>4. ASSUME NEW x \in Delegations
      PROVE  CoveredAt(x)'
  <2>1. CASE x = d
    <3>1. parent[d] # d
      BY AuthorityAssumption DEF Forest
    <3>2. authority'[d] = authority[d] + n /\ reserved'[d] = reserved[d]
      BY <1>1, <3>1
    <3> QED
      BY <1>1, <2>1, <3>2 DEF Covered, CoveredAt
  <2>2. CASE x = parent[d]
    <3>1. x # None
      BY AuthorityAssumption
    <3>2. authority'[x] = authority[x] /\ reserved'[x] = reserved[x] + n
      BY <1>2, <2>2, <3>1
    <3>3. Active(x) /\ consumed[x] + reserved[x] + n <= authority[x]
      BY <1>2, <2>2, <3>1
    <3> QED
      BY <1>1, <3>2, <3>3 DEF Covered, CoveredAt
  <2>3. CASE x # d /\ x # parent[d]
    BY <2>3 DEF Covered, CoveredAt
  <2> QED
    BY <2>1, <2>2, <2>3
<1>5. ASSUME NEW q \in Delegations
      PROVE  reserved'[q] = Total(authority', ActiveChildren(q)') + Total(Locked', SettledChildren(q)')
  <2>1. /\ ActiveChildren(q)' = ActiveChildren(q)
        /\ SettledChildren(q)' = SettledChildren(q)
    BY DEF ActiveChildren, SettledChildren, Children
  <2>2. ASSUME NEW x \in SettledChildren(q)
        PROVE  Locked'[x] = Locked[x]
    <3>1. x \in Delegations /\ x # d
      BY <1>1 DEF SettledChildren, ActiveChildren, Children
    <3> QED
      BY <3>1 DEF Locked
  <2>3. \A x \in ActiveChildren(q) \ {d} : authority'[x] = authority[x]
    BY DEF ActiveChildren, Children
  <2>4. CASE q # parent[d]
    <3>1. d \notin ActiveChildren(q)
      BY <2>4 DEF ActiveChildren, Children
    <3>2. reserved'[q] = reserved[q]
      BY <2>4
    <3>3. \A x \in ActiveChildren(q) : authority'[x] = authority[x]
      BY <2>3, <3>1
    <3> QED
      BY <2>1, <2>2, <3>2, <3>3, SameBooks
  <2>5. CASE q = parent[d]
    <3> DEFINE others == ActiveChildren(q) \ {d}
    <3>1. d \in ActiveChildren(q)
      BY <1>1, <2>5 DEF ActiveChildren, Children
    <3>2. authority'[d] = authority[d] + n /\ authority[d] \in Nat /\ authority'[d] \in Nat
      BY <1>1
    <3>3. reserved'[q] = reserved[q] + n
      BY <2>5
    <3> HIDE DEF IInv, TypeOK, Grant, GrantedReserved, Exists, Active
    <3>4. /\ IsFiniteSet(ActiveChildren(q))
          /\ \A x \in ActiveChildren(q) : authority[x] \in Nat
          /\ Total(Locked, SettledChildren(q)) \in Nat
      BY Holdings DEF IInv
    <3>5. \A x \in ActiveChildren(q) : authority'[x] \in Nat
      BY <2>3, <3>2, <3>4
    <3>6. /\ Total(authority, ActiveChildren(q)) = Total(authority, others) + authority[d]
          /\ Total(authority, others) \in Nat
      BY <3>1, <3>4, TotalWithout
    <3>7. Total(authority', ActiveChildren(q)) = Total(authority', others) + authority'[d]
      BY <3>1, <3>4, <3>5, TotalWithout
    <3>8. Total(authority', others) = Total(authority, others)
      BY <2>3, TotalSameTerms
    <3>9. Total(Locked', SettledChildren(q)) = Total(Locked, SettledChildren(q))
      BY <2>2, TotalSameTerms
    <3>10. reserved[q] = Total(authority, ActiveChildren(q)) + Total(Locked, SettledChildren(q))
      BY DEF IInv, BooksBalance
    <3> HIDE DEF others
    <3> QED
      BY <1>1, <2>1, <3>2, <3>3, <3>4, <3>6, <3>7, <3>8, <3>9, <3>10
  <2> QED
    BY <2>4, <2>5
<1> QED
  BY <1>3, <1>4, <1>5 DEF Covered, BooksBalance

(***************************************************************************)
(* What an active delegation consumes concerns no one else's books.        *)
(***************************************************************************)
LEMMA ConsumeKeeps ==
  ASSUME IInv, NEW d \in Delegations, NEW e \in Events, NEW n \in Amounts \cup {Unknown},
         Consume(d, e, n)
  PROVE  Forest' /\ Covered' /\ BooksBalance'
<1> USE DEF IInv, TypeOK, Consume, Exists, Active
<1>1. Active(d)
  OBVIOUS
<1>2. Forest'
  BY DEF Forest
<1>3. \A x \in Delegations : x # d => consumed'[x] = consumed[x]
  OBVIOUS
<1>4. consumed'[d] + reserved[d] <= authority[d] /\ consumed'[d] \in Nat
  <2>1. CASE n = Unknown
    BY <2>1, AuthorityAssumption DEF Covered, CoveredAt
  <2>2. CASE n # Unknown
    BY <2>2, AuthorityAssumption DEF Acceptable
  <2> QED
    BY <2>1, <2>2
<1>5. ASSUME NEW x \in Delegations
      PROVE  CoveredAt(x)'
  BY <1>3, <1>4 DEF Covered, CoveredAt
<1>6. ASSUME NEW q \in Delegations
      PROVE  reserved'[q] = Total(authority', ActiveChildren(q)') + Total(Locked', SettledChildren(q)')
  <2>1. /\ ActiveChildren(q)' = ActiveChildren(q)
        /\ SettledChildren(q)' = SettledChildren(q)
    BY DEF ActiveChildren, SettledChildren, Children
  <2>2. ASSUME NEW x \in SettledChildren(q)
        PROVE  Locked'[x] = Locked[x]
    <3>1. x \in Delegations /\ x # d
      BY <1>1 DEF SettledChildren, ActiveChildren, Children
    <3> QED
      BY <1>3, <3>1 DEF Locked
  <2>3. reserved'[q] = reserved[q] /\ authority' = authority
    OBVIOUS
  <2> QED
    BY <2>1, <2>2, <2>3, SameBooks
<1> QED
  BY <1>2, <1>5, <1>6 DEF Covered, BooksBalance

(***************************************************************************)
(* Settling over settled descendants only: the parent takes over what was  *)
(* spent, gets back what is surely left, and keeps the rest locked.        *)
(***************************************************************************)
LEMMA SettledKeeps ==
  ASSUME IInv, NEW d \in Delegations, NEW e \in EventIds, NEW o \in Outcomes,
         MaySettle(d), Settled(d, e, o)
  PROVE  Forest' /\ Covered' /\ BooksBalance'
<1> DEFINE freed == consumed[d] + Released(d)
<1> USE DEF IInv, TypeOK, Settled, Exists, Active
<1>1. Active(d) /\ parent[d] # d
  BY AuthorityAssumption DEF MaySettle, Forest
<1>2. /\ Released(d) \in Nat /\ freed \in Nat
      /\ consumed[d] + reserved[d] + Released(d) <= authority[d]
  BY DEF Released, Headroom, Covered, CoveredAt
<1>3. /\ \A x \in Delegations : x # parent[d] =>
           consumed'[x] = consumed[x] /\ reserved'[x] = reserved[x]
      /\ parent[d] # None =>
           /\ parent[d] \in Delegations
           /\ consumed'[parent[d]] = consumed[parent[d]] + consumed[d]
           /\ reserved'[parent[d]] = reserved[parent[d]] - freed
  BY DEF SettledConsumed
<1>4. ASSUME NEW x \in Delegations, parent[x] = d
      PROVE  ~Active(x)
  <2>1. Exists(x) /\ x # d /\ d # None
    BY <1>4, AuthorityAssumption DEF Forest
  <2>2. d \in Lineage(x)
    BY <1>4, <2>1 DEF Lineage, Closed
  <2> QED
    BY <2>1, <2>2 DEF MaySettle, Descendants
<1>5. Forest'
  BY <1>4 DEF Forest
<1>6. ASSUME parent[d] # None
      PROVE  /\ d \in ActiveChildren(parent[d])
             /\ authority[d] <= reserved[parent[d]]
             /\ Total(authority, ActiveChildren(parent[d]))
                  = Total(authority, ActiveChildren(parent[d]) \ {d}) + authority[d]
             /\ Total(authority, ActiveChildren(parent[d]) \ {d}) \in Nat
             /\ Total(Locked, SettledChildren(parent[d])) \in Nat
  <2> DEFINE q == parent[d]
  <2>1. q \in Delegations /\ d \in ActiveChildren(q)
    BY <1>1, <1>6 DEF ActiveChildren, Children
  <2>2. authority[d] \in Nat
    OBVIOUS
  <2>3. TypeOK /\ Covered /\ BooksBalance
    OBVIOUS
  <2> HIDE DEF q, IInv, TypeOK, Settled, Exists, Active
  <2>4. /\ IsFiniteSet(ActiveChildren(q))
        /\ \A x \in ActiveChildren(q) : authority[x] \in Nat
        /\ Total(Locked, SettledChildren(q)) \in Nat
    BY <2>1, <2>3, Holdings
  <2>5. /\ Total(authority, ActiveChildren(q))
             = Total(authority, ActiveChildren(q) \ {d}) + authority[d]
        /\ Total(authority, ActiveChildren(q) \ {d}) \in Nat
    BY <2>1, <2>4, TotalWithout
  <2>6. reserved[q] = Total(authority, ActiveChildren(q)) + Total(Locked, SettledChildren(q))
    BY <2>1, <2>3 DEF BooksBalance
  <2>7. authority[d] <= reserved[q]
    BY <2>2, <2>4, <2>5, <2>6
  <2> QED
    BY <2>1, <2>4, <2>5, <2>7 DEF q
<1>7. ASSUME NEW x \in Delegations
      PROVE  CoveredAt(x)'
  <2>1. CASE x = d
    <3>1. /\ consumed'[x] = consumed[x] /\ reserved'[x] = reserved[x]
          /\ released'[x] = Released(d) /\ authority'[x] = authority[x]
          /\ ~Active(x)' /\ Exists(x)'
      BY <1>1, <1>3, <2>1
    <3> QED
      BY <1>2, <2>1, <3>1 DEF Covered, CoveredAt
  <2>2. CASE x = parent[d]
    <3>1. x # None /\ x # d
      BY <1>1, <2>2, AuthorityAssumption
    <3>2. Active(x) /\ released[x] = 0
      BY <1>1, <2>2, <3>1 DEF Forest, Covered, CoveredAt
    <3>3. /\ consumed'[x] = consumed[x] + consumed[d]
          /\ reserved'[x] = reserved[x] - freed
          /\ released'[x] = 0 /\ authority'[x] = authority[x] /\ Exists(x)'
      BY <1>3, <2>2, <3>1, <3>2
    <3>4. authority[d] <= reserved[x]
      BY <1>6, <2>2, <3>1
    <3>5. /\ consumed[x] + reserved[x] <= authority[x] /\ reserved[d] >= 0
          /\ consumed[x] \in Nat /\ consumed[d] \in Nat /\ authority[x] \in Nat
          /\ authority[d] \in Nat /\ reserved[x] \in Int /\ reserved[d] \in Int
      BY <3>2 DEF Covered, CoveredAt
    <3>6. Released(d) \in Nat /\ consumed[d] + reserved[d] + Released(d) <= authority[d]
      BY <1>2
    <3> HIDE DEF IInv, TypeOK, Settled, Exists, Active
    <3>7. consumed'[x] + reserved'[x] <= authority'[x] /\ reserved'[x] >= 0
      BY <3>3, <3>4, <3>5, <3>6
    <3>8. consumed'[x] + reserved'[x] + released'[x] <= authority'[x]
      BY <3>3, <3>5, <3>6, <3>7
    <3> QED
      BY <3>3, <3>7, <3>8 DEF CoveredAt
  <2>3. CASE x # d /\ x # parent[d]
    BY <1>3, <2>3 DEF Covered, CoveredAt
  <2> QED
    BY <2>1, <2>2, <2>3
<1>8. ASSUME NEW q \in Delegations
      PROVE  reserved'[q] = Total(authority', ActiveChildren(q)') + Total(Locked', SettledChildren(q)')
  <2>1. ASSUME NEW x \in SettledChildren(q)
        PROVE  Locked'[x] = Locked[x]
    <3>1. x \in Delegations /\ ~Active(x) /\ Exists(x)
      BY DEF SettledChildren, ActiveChildren, Children
    <3>2. x # d /\ x # parent[d]
      BY <1>1, <3>1, AuthorityAssumption DEF Forest
    <3>3. released'[x] = released[x] /\ consumed'[x] = consumed[x]
      BY <1>3, <3>1, <3>2
    <3> QED
      BY <3>1, <3>3 DEF Locked
  <2>2. CASE q # parent[d]
    <3>1. ActiveChildren(q)' = ActiveChildren(q) /\ SettledChildren(q)' = SettledChildren(q)
      BY <2>2 DEF ActiveChildren, SettledChildren, Children
    <3>2. reserved'[q] = reserved[q] /\ authority' = authority
      BY <1>3, <2>2
    <3> QED
      BY <2>1, <3>1, <3>2, SameBooks
  <2>3. CASE q = parent[d]
    <3>0. parent[d] # None
      BY <2>3, AuthorityAssumption
    <3>1. /\ ActiveChildren(q)' = ActiveChildren(q) \ {d}
          /\ SettledChildren(q)' = SettledChildren(q) \cup {d}
          /\ d \notin SettledChildren(q)
      BY <1>1, <2>3 DEF ActiveChildren, SettledChildren, Children
    <3>2. Locked'[d] = authority[d] - consumed[d] - Released(d) /\ Locked'[d] \in Nat
      BY <1>1, <1>2, <1>3 DEF Locked, Covered, CoveredAt
    <3>3. reserved'[q] = reserved[q] - freed /\ authority' = authority
      BY <1>3, <2>3, <3>0
    <3>4. TypeOK /\ Covered /\ BooksBalance /\ consumed[d] \in Nat /\ authority[d] \in Nat
      OBVIOUS
    <3> HIDE DEF IInv, TypeOK, Settled, Exists, Active
    <3>5. /\ IsFiniteSet(SettledChildren(q))
          /\ \A x \in SettledChildren(q) : Locked[x] \in Nat
      BY <3>4, Holdings
    <3>6. \A x \in SettledChildren(q) \cup {d} : Locked'[x] \in Nat
      BY <2>1, <3>2, <3>5
    <3>7. Total(Locked', SettledChildren(q)') = Total(Locked', SettledChildren(q)) + Locked'[d]
      BY <3>1, <3>5, <3>6, TotalInsert
    <3>8. Total(Locked', SettledChildren(q)) = Total(Locked, SettledChildren(q))
      BY <2>1, TotalSameTerms
    <3>9. Total(authority', ActiveChildren(q)') = Total(authority, ActiveChildren(q) \ {d})
      BY <3>1, <3>3
    <3>10. reserved[q] = Total(authority, ActiveChildren(q)) + Total(Locked, SettledChildren(q))
      BY <3>4 DEF BooksBalance
    <3>11. /\ Total(authority, ActiveChildren(q))
                = Total(authority, ActiveChildren(q) \ {d}) + authority[d]
           /\ Total(authority, ActiveChildren(q) \ {d}) \in Nat
           /\ Total(Locked, SettledChildren(q)) \in Nat
      BY <1>6, <2>3, <3>0
    <3>12. Released(d) \in Nat
      BY <1>2
    <3> QED
      BY <3>2, <3>3, <3>4, <3>7, <3>8, <3>9, <3>10, <3>11, <3>12
  <2> QED
    BY <2>2, <2>3
<1> QED
  BY <1>5, <1>7, <1>8 DEF Covered, BooksBalance

(***************************************************************************)
(* A step that leaves the rows alone leaves the books alone.               *)
(***************************************************************************)
LEMMA SameRows ==
  ASSUME Forest, Covered, BooksBalance,
         UNCHANGED <<parent, state, authority, consumed, reserved, released>>
  PROVE  Forest' /\ Covered' /\ BooksBalance'
<1>1. Forest'
  BY DEF Forest, Exists, Active
<1>2. Covered'
  BY DEF Covered, CoveredAt, Exists, Active
<1>3. ASSUME NEW q \in Delegations
      PROVE  reserved'[q] = Total(authority', ActiveChildren(q)') + Total(Locked', SettledChildren(q)')
  <2>1. ActiveChildren(q)' = ActiveChildren(q) /\ SettledChildren(q)' = SettledChildren(q)
    BY DEF ActiveChildren, SettledChildren, Children, Exists, Active
  <2>2. Locked' = Locked
    BY DEF Locked
  <2> QED
    BY <2>1, <2>2, SameBooks
<1> QED
  BY <1>1, <1>2, <1>3 DEF BooksBalance

LEMMA IInvStep ==
  ASSUME IInv, [Next]_vars
  PROVE  IInv'
<1> USE DEF IInv
<1>1. TypeOK' /\ HasCurrent'
  BY TypeStep
<1>2. ASSUME NEW d \in Delegations, NEW e \in Events, NEW n \in Amounts, CreateRoot(d, e, n)
      PROVE  Forest' /\ Covered' /\ BooksBalance'
  BY <1>2, CreateRootKeeps
<1>3. ASSUME NEW d \in Delegations, NEW p \in Delegations, NEW e \in Events, NEW n \in Amounts,
             Reserve(d, p, e, n)
      PROVE  Forest' /\ Covered' /\ BooksBalance'
  BY <1>3, ReserveKeeps
<1>4. ASSUME NEW d \in Delegations, NEW e \in Events, NEW n \in Amounts, Grant(d, e, n)
      PROVE  Forest' /\ Covered' /\ BooksBalance'
  BY <1>4, GrantKeeps
<1>5. ASSUME NEW d \in Delegations, NEW e \in Events, NEW n \in Amounts \cup {Unknown},
             Consume(d, e, n)
      PROVE  Forest' /\ Covered' /\ BooksBalance'
  BY <1>5, ConsumeKeeps
<1>6. ASSUME NEW d \in Delegations, NEW e \in Events, NEW o \in Outcomes, Settle(d, e, o)
      PROVE  Forest' /\ Covered' /\ BooksBalance'
  BY <1>6, SettledKeeps DEF Settle, EventIds
<1>7. ASSUME NEW v \in Revokes, SettleCurrent(v)
      PROVE  Forest' /\ Covered' /\ BooksBalance'
  <2>1. CASE MaySettle(current[v]) /\ Settled(current[v], Internal, Outcome[v])
    <3>1. current[v] \in Delegations /\ Internal \in EventIds /\ Outcome[v] \in Outcomes
      BY <1>7, AuthorityAssumption DEF SettleCurrent, HasCurrent, EventIds
    <3> QED
      BY <2>1, <3>1, SettledKeeps
  <2>2. CASE UNCHANGED <<rows, log, withdrawn>>
    BY <2>2, SameRows DEF rows
  <2> QED
    BY <1>7, <2>1, <2>2 DEF SettleCurrent
<1>8. ASSUME NEW v \in Revokes,
             \/ \E d \in Delegations : MarkRevocationStarted(v, d) \/ LookAt(v, d)
             \/ FindSubtree(v) \/ RevokeTokens(v) \/ Crash(v)
      PROVE  Forest' /\ Covered' /\ BooksBalance'
  <2>1. UNCHANGED <<parent, state, authority, consumed, reserved, released>>
    BY <1>8 DEF MarkRevocationStarted, LookAt, FindSubtree, RevokeTokens, Crash, rows
  <2> QED
    BY <2>1, SameRows
<1>9. CASE UNCHANGED vars
  BY <1>1, <1>9, SameRows DEF vars, rows
<1> QED
  BY <1>1, <1>2, <1>3, <1>4, <1>5, <1>6, <1>7, <1>8, <1>9 DEF Next, Proceed

LEMMA IInvHolds == Spec => []IInv
<1>1. Init => IInv
  <2> SUFFICES ASSUME Init
               PROVE  IInv
    OBVIOUS
  <2>1. TypeOK /\ HasCurrent
    BY AuthorityAssumption DEF Init, TypeOK, HasCurrent, EventIds, Requests
  <2>2. Forest /\ Covered
    BY DEF Init, Forest, Covered, CoveredAt, Exists, Active
  <2>3. ASSUME NEW q \in Delegations
        PROVE  reserved[q] = Total(authority, ActiveChildren(q)) + Total(Locked, SettledChildren(q))
    <3>1. ActiveChildren(q) = {} /\ SettledChildren(q) = {} /\ reserved[q] = 0
      BY DEF Init, ActiveChildren, SettledChildren, Children, Exists
    <3> QED
      BY <3>1, TotalEmpty
  <2> QED
    BY <2>1, <2>2, <2>3 DEF IInv, BooksBalance
<1> QED
  BY <1>1, IInvStep, PTL DEF Spec

(***************************************************************************)
(* The books of every delegation balance: what it reserves is what its     *)
(* active children may spend and what its settled ones keep locked.        *)
(***************************************************************************)
THEOREM BooksAlwaysBalance == Spec => []BooksBalance
<1>1. IInv => BooksBalance
  BY DEF IInv
<1> QED
  BY <1>1, IInvHolds, PTL

(***************************************************************************)
(* The conservation invariant that core.invariant reports holds of every   *)
(* delegation at every moment: "VIOLATED" is never reported.               *)
(***************************************************************************)
THEOREM AlwaysSatisfied == Spec => []Satisfied
<1>1. IInv => Satisfied
  <2> SUFFICES ASSUME IInv, NEW d \in Delegations
               PROVE  /\ consumed[d] >= 0 /\ reserved[d] >= 0 /\ released[d] >= 0
                      /\ consumed[d] + reserved[d] <= authority[d]
    BY DEF Satisfied
  <2>1. /\ consumed[d] \in Nat /\ reserved[d] \in Int /\ released[d] \in Int
        /\ authority[d] \in Nat
    BY DEF IInv, TypeOK
  <2>2. CoveredAt(d)
    BY DEF IInv, Covered
  <2> QED
    BY <2>1, <2>2 DEF CoveredAt
<1> QED
  BY <1>1, IInvHolds, PTL

(***************************************************************************)
(* Together: the rows of the authority are of their kind, overdraw nothing *)
(* and balance, at every moment and for any number of delegations.         *)
(***************************************************************************)
THEOREM BooksStaySound == Spec => []BooksAreSound
<1>1. TypeOK /\ Satisfied /\ BooksBalance => BooksAreSound
  BY DEF BooksAreSound
<1> QED
  BY <1>1, TypeCorrect, AlwaysSatisfied, BooksAlwaysBalance, PTL

(***************************************************************************)
(* The account of a settled delegation never changes.                      *)
(***************************************************************************)
THEOREM SettledStays == Spec => SettledIsFinal
<1>1. ASSUME IInv, [Next]_vars, NEW d \in Delegations, state[d] = "settled"
      PROVE  Account(d)' = Account(d)
  <2> USE <1>1 DEF IInv, TypeOK, Account, Active, Exists
  <2>1. ASSUME NEW x \in Delegations, NEW e \in Events, NEW n \in Amounts, CreateRoot(x, e, n)
        PROVE  Account(d)' = Account(d)
    BY <2>1 DEF CreateRoot
  <2>2. ASSUME NEW x \in Delegations, NEW p \in Delegations, NEW e \in Events, NEW n \in Amounts,
               Reserve(x, p, e, n)
        PROVE  Account(d)' = Account(d)
    BY <2>2 DEF Reserve, Funds
  <2>3. ASSUME NEW x \in Delegations, NEW e \in Events, NEW n \in Amounts, Grant(x, e, n)
        PROVE  Account(d)' = Account(d)
    BY <2>3, AuthorityAssumption DEF Grant, GrantedReserved, Funds
  <2>4. ASSUME NEW x \in Delegations, NEW e \in Events, NEW n \in Amounts \cup {Unknown},
               Consume(x, e, n)
        PROVE  Account(d)' = Account(d)
    BY <2>4 DEF Consume
  <2>5. ASSUME NEW x \in Delegations, NEW e, NEW o, MaySettle(x), Settled(x, e, o)
        PROVE  Account(d)' = Account(d)
    <3>1. d # x /\ d # parent[x]
      BY <2>5, AuthorityAssumption DEF MaySettle, Forest
    <3> QED
      BY <2>5, <3>1 DEF Settled, SettledConsumed
  <2>6. ASSUME NEW v \in Revokes, SettleCurrent(v)
        PROVE  Account(d)' = Account(d)
    <3>1. CASE MaySettle(current[v]) /\ Settled(current[v], Internal, Outcome[v])
      BY <2>5, <2>6, <3>1 DEF SettleCurrent, HasCurrent
    <3>2. CASE UNCHANGED rows
      BY <3>2 DEF rows
    <3> QED
      BY <2>6, <3>1, <3>2 DEF SettleCurrent
  <2>7. ASSUME NEW v \in Revokes,
               \/ \E x \in Delegations : MarkRevocationStarted(v, x) \/ LookAt(v, x)
               \/ FindSubtree(v) \/ RevokeTokens(v) \/ Crash(v)
        PROVE  Account(d)' = Account(d)
    BY <2>7 DEF MarkRevocationStarted, LookAt, FindSubtree, RevokeTokens, Crash, rows
  <2>8. CASE UNCHANGED vars
    BY <2>8 DEF vars, rows
  <2> HIDE DEF IInv, TypeOK, Account, Active, Exists
  <2> QED
    BY <2>1, <2>2, <2>3, <2>4, <2>5, <2>6, <2>7, <2>8 DEF Next, Proceed, Settle
<1>2. ASSUME IInv, [Next]_vars
      PROVE  [\A d \in Delegations : state[d] = "settled" => Account(d)' = Account(d)]_vars
  <2>1. \A d \in Delegations : state[d] = "settled" => Account(d)' = Account(d)
    BY <1>1, <1>2
  <2> QED
    BY <2>1
<1> QED
  BY <1>2, IInvHolds, PTL DEF Spec, SettledIsFinal

-----------------------------------------------------------------------------
(***************************************************************************)
(* The log.  It has no event of a delegation that has no row, and the      *)
(* amounts it has are those the rows were changed by.                      *)
(***************************************************************************)
Funding  == {"root", "reservation", "authority_grant"}
Spending == {"consumption"}

LogIsClean ==
  \A d \in Delegations, e \in EventIds :
    /\ ~Exists(d) => New(d, e)
    /\ log[d][e].kind \in Funding \cup Spending =>
         log[d][e].amount \in Nat \/ (log[d][e].kind \in Spending /\ log[d][e].amount = Unknown)

\* What a request adds to the amounts of its kind.
Adds(request, kinds) ==
  IF request.kind \in kinds /\ request.amount # Unknown THEN request.amount ELSE 0

UnknownEvents(d) ==
  {e \in EventIds : log[d][e].kind = "consumption" /\ log[d][e].amount = Unknown}

(***************************************************************************)
(* The requests there are, told apart by their kinds.                      *)
(***************************************************************************)
LEMMA RequestKinds ==
  /\ NoEvent.kind = "none"
  /\ \A n : [kind |-> "root", amount |-> n].kind = "root"
  /\ \A n, p : [kind |-> "reservation", amount |-> n, parent |-> p].kind = "reservation"
  /\ \A n : [kind |-> "authority_grant", amount |-> n].kind = "authority_grant"
  /\ \A n : [kind |-> "consumption", amount |-> n].kind = "consumption"
  /\ \A o : [kind |-> "settlement", outcome |-> o].kind = "settlement"
BY DEF NoEvent

(***************************************************************************)
(* What the log says was funded or spent is a natural amount.              *)
(***************************************************************************)
LEMMA LoggedType ==
  ASSUME LogIsClean, NEW q \in Delegations, NEW K \in {Funding, Spending}
  PROVE  /\ \A e \in EventIds : AmountOf(q, e, K) \in Nat
         /\ Logged(q, K) \in Nat
<1>1. IsFiniteSet(EventIds)
  BY AuthorityAssumption, FS_AddElement DEF EventIds
<1>2. \A e \in EventIds : AmountOf(q, e, K) \in Nat
  BY DEF LogIsClean, AmountOf, Funding, Spending
<1>3. \A e \in EventIds : [x \in EventIds |-> AmountOf(q, x, K)][e] \in Nat
  BY <1>2
<1> QED
  BY <1>1, <1>2, <1>3, TotalType DEF Logged

(***************************************************************************)
(* A new event adds its amount to what the log says of its delegation.     *)
(***************************************************************************)
LEMMA EventCounts ==
  ASSUME TypeOK, LogIsClean, LogIsClean', NEW d \in Delegations, NEW e \in EventIds, New(d, e),
         NEW req, Record(d, e, req), NEW K \in {Funding, Spending}
  PROVE  /\ Logged(d, K)' = Logged(d, K) + Adds(req, K)
         /\ \A q \in Delegations : q # d => Logged(q, K)' = Logged(q, K)
<1> DEFINE before == [x \in EventIds |-> AmountOf(d, x, K)]
           after  == [x \in EventIds |-> AmountOf(d, x, K)']
<1>1. /\ log'[d][e] = req
      /\ \A x \in EventIds : x # e => log'[d][x] = log[d][x]
      /\ \A q \in Delegations : q # d => log'[q] = log[q]
  BY DEF TypeOK, Record
<1>2. IsFiniteSet(EventIds)
  BY AuthorityAssumption, FS_AddElement DEF EventIds
<1>3. before[e] = 0 /\ after[e] = Adds(req, K)
  BY <1>1, RequestKinds DEF AmountOf, Adds, New, Funding, Spending
<1>4. \A x \in EventIds : x # e => after[x] = before[x]
  BY <1>1 DEF AmountOf
<1>5. \A x \in EventIds : before[x] \in Nat
  BY LoggedType
<1>6. \A x \in EventIds : AmountOf(d, x, K)' \in Nat
  BY DEF LogIsClean, AmountOf, Funding, Spending
<1>7. \A x \in EventIds : before[x] \in Nat /\ after[x] \in Nat
  BY <1>5, <1>6
<1>8. Logged(d, K) = Total(before, EventIds) /\ Logged(d, K)' = Total(after, EventIds)
  BY DEF Logged
<1>9. Total(before, EventIds) \in Nat /\ Total(after, EventIds) \in Nat
  BY <1>2, <1>7, TotalType
<1>10. \A q \in Delegations : q # d => Logged(q, K)' = Logged(q, K)
  BY <1>1 DEF Logged, AmountOf
<1> HIDE DEF before, after
<1>11. Total(after, EventIds) + before[e] = Total(before, EventIds) + after[e]
  BY <1>2, <1>4, <1>7, TotalOneChange
<1>12. Logged(d, K)' = Logged(d, K) + Adds(req, K)
  BY <1>3, <1>7, <1>8, <1>9, <1>11
<1> QED
  BY <1>10, <1>12

(***************************************************************************)
(* A new event is counted among those of unknown cost if it is one.        *)
(***************************************************************************)
LEMMA UnknownCounts ==
  ASSUME TypeOK, NEW d \in Delegations, NEW e \in EventIds, New(d, e), NEW req, Record(d, e, req)
  PROVE  /\ req.kind = "consumption" /\ req.amount = Unknown =>
              Cardinality(UnknownEvents(d)') = Cardinality(UnknownEvents(d)) + 1
         /\ ~(req.kind = "consumption" /\ req.amount = Unknown) =>
              UnknownEvents(d)' = UnknownEvents(d)
         /\ \A q \in Delegations : q # d => UnknownEvents(q)' = UnknownEvents(q)
<1>1. /\ log'[d][e] = req
      /\ \A x \in EventIds : x # e => log'[d][x] = log[d][x]
      /\ \A q \in Delegations : q # d => log'[q] = log[q]
  BY DEF TypeOK, Record
<1>2. e \notin UnknownEvents(d)
  BY RequestKinds DEF UnknownEvents, New
<1>3. IsFiniteSet(UnknownEvents(d))
  BY AuthorityAssumption, FS_AddElement, FS_Subset DEF EventIds, UnknownEvents
<1>4. ASSUME req.kind = "consumption", req.amount = Unknown
      PROVE  Cardinality(UnknownEvents(d)') = Cardinality(UnknownEvents(d)) + 1
  <2>1. UnknownEvents(d)' = UnknownEvents(d) \cup {e}
    BY <1>1, <1>4 DEF UnknownEvents
  <2> QED
    BY <1>2, <1>3, <2>1, FS_AddElement
<1>5. ASSUME ~(req.kind = "consumption" /\ req.amount = Unknown)
      PROVE  UnknownEvents(d)' = UnknownEvents(d)
  BY <1>1, <1>2, <1>5 DEF UnknownEvents
<1>6. \A q \in Delegations : q # d => UnknownEvents(q)' = UnknownEvents(q)
  BY <1>1 DEF UnknownEvents
<1> QED
  BY <1>4, <1>5, <1>6

(***************************************************************************)
(* What an operation logs, and of which delegation.                        *)
(***************************************************************************)
Operation(d, e, req) ==
  \/ \E n \in Amounts : CreateRoot(d, e, n) /\ req = [kind |-> "root", amount |-> n]
  \/ \E p \in Delegations, n \in Amounts :
       Reserve(d, p, e, n) /\ req = [kind |-> "reservation", amount |-> n, parent |-> p]
  \/ \E n \in Amounts : Grant(d, e, n) /\ req = [kind |-> "authority_grant", amount |-> n]
  \/ \E n \in Amounts \cup {Unknown} :
       Consume(d, e, n) /\ req = [kind |-> "consumption", amount |-> n]
  \/ \E o \in Outcomes : /\ MaySettle(d) /\ New(d, e) /\ Settled(d, e, o)
                         /\ req = [kind |-> "settlement", outcome |-> o]

AnOperation == \E d \in Delegations, e \in EventIds : \E req : Operation(d, e, req)

(***************************************************************************)
(* A step is an operation that is logged, or changes neither rows nor log. *)
(***************************************************************************)
LEMMA StepOfTheAuthority ==
  ASSUME IInv, [Next]_vars
  PROVE  \/ AnOperation
         \/ UNCHANGED <<parent, state, authority, consumed, reserved, released, unknown, log>>
<1>1. ASSUME NEW v \in Revokes, SettleCurrent(v)
      PROVE  \/ AnOperation
             \/ UNCHANGED <<parent, state, authority, consumed, reserved, released, unknown, log>>
  <2>1. current[v] \in Delegations /\ Internal \in EventIds /\ Outcome[v] \in Outcomes
    BY <1>1, AuthorityAssumption DEF IInv, HasCurrent, SettleCurrent, EventIds
  <2>2. CASE UNCHANGED <<rows, log, withdrawn>>
    BY <2>2 DEF rows
  <2>3. CASE New(current[v], Internal) /\ MaySettle(current[v])
             /\ Settled(current[v], Internal, Outcome[v])
    BY <2>1, <2>3 DEF Operation, AnOperation
  <2> QED
    BY <1>1, <2>2, <2>3 DEF SettleCurrent
<1>2. ASSUME NEW v \in Revokes,
             \/ \E x \in Delegations : MarkRevocationStarted(v, x) \/ LookAt(v, x)
             \/ FindSubtree(v) \/ RevokeTokens(v) \/ Crash(v)
      PROVE  UNCHANGED <<parent, state, authority, consumed, reserved, released, unknown, log>>
  BY <1>2 DEF MarkRevocationStarted, LookAt, FindSubtree, RevokeTokens, Crash, rows
<1>3. CASE UNCHANGED vars
  BY <1>3 DEF vars, rows
<1>4. \A e \in Events : e \in EventIds
  BY DEF EventIds
<1>5. ASSUME NEW d \in Delegations, NEW e \in Events, NEW o \in Outcomes, Settle(d, e, o)
      PROVE  AnOperation
  <2>1. Operation(d, e, [kind |-> "settlement", outcome |-> o])
    BY <1>5 DEF Settle, Operation
  <2> QED
    BY <1>4, <2>1 DEF AnOperation
<1>6. ASSUME NEW d \in Delegations, NEW e \in Events, NEW n \in Amounts, CreateRoot(d, e, n)
      PROVE  AnOperation
  <2>1. Operation(d, e, [kind |-> "root", amount |-> n])
    BY <1>6 DEF Operation
  <2> QED
    BY <1>4, <2>1 DEF AnOperation
<1>7. ASSUME NEW d \in Delegations, NEW e \in Events, NEW n \in Amounts, NEW p \in Delegations,
             Reserve(d, p, e, n)
      PROVE  AnOperation
  <2>1. Operation(d, e, [kind |-> "reservation", amount |-> n, parent |-> p])
    BY <1>7 DEF Operation
  <2> QED
    BY <1>4, <2>1 DEF AnOperation
<1>8. ASSUME NEW d \in Delegations, NEW e \in Events, NEW n \in Amounts, Grant(d, e, n)
      PROVE  AnOperation
  <2>1. Operation(d, e, [kind |-> "authority_grant", amount |-> n])
    BY <1>8 DEF Operation
  <2> QED
    BY <1>4, <2>1 DEF AnOperation
<1>9. ASSUME NEW d \in Delegations, NEW e \in Events, NEW n \in Amounts \cup {Unknown},
             Consume(d, e, n)
      PROVE  AnOperation
  <2>1. Operation(d, e, [kind |-> "consumption", amount |-> n])
    BY <1>9 DEF Operation
  <2> QED
    BY <1>4, <2>1 DEF AnOperation
<1> QED
  BY <1>1, <1>2, <1>3, <1>4, <1>5, <1>6, <1>7, <1>8, <1>9 DEF Next, Proceed

(***************************************************************************)
(* An operation appends one event, new to its delegation, whose amount is  *)
(* natural or unknown, and whose delegation then has a row.                *)
(***************************************************************************)
LEMMA OperationIsLogged ==
  ASSUME IInv, LogIsClean, NEW d \in Delegations, NEW e \in EventIds, NEW req, Operation(d, e, req)
  PROVE  /\ New(d, e) /\ Record(d, e, req) /\ Exists(d)'
         /\ \A q \in Delegations : q # d => state[q] = state'[q]
         /\ req.kind \in Funding \cup Spending =>
              req.amount \in Nat \/ (req.kind \in Spending /\ req.amount = Unknown)
<1> USE DEF IInv, TypeOK, LogIsClean, Exists, Acceptable, Funding, Spending
<1>1. ASSUME NEW n \in Amounts, CreateRoot(d, e, n), req = [kind |-> "root", amount |-> n]
      PROVE  /\ New(d, e) /\ Record(d, e, req) /\ Exists(d)' /\ req.amount \in Nat
             /\ \A q \in Delegations : q # d => state[q] = state'[q]
  BY <1>1, AuthorityAssumption DEF CreateRoot
<1>2. ASSUME NEW n \in Amounts, NEW p \in Delegations, Reserve(d, p, e, n),
             req = [kind |-> "reservation", amount |-> n, parent |-> p]
      PROVE  /\ New(d, e) /\ Record(d, e, req) /\ Exists(d)' /\ req.amount \in Nat
             /\ \A q \in Delegations : q # d => state[q] = state'[q]
  BY <1>2, AuthorityAssumption DEF Reserve
<1>3. ASSUME NEW n \in Amounts, Grant(d, e, n), req = [kind |-> "authority_grant", amount |-> n]
      PROVE  /\ New(d, e) /\ Record(d, e, req) /\ Exists(d)' /\ req.amount \in Nat
             /\ \A q \in Delegations : q # d => state[q] = state'[q]
  BY <1>3, AuthorityAssumption DEF Grant
<1>4. ASSUME NEW n \in Amounts \cup {Unknown}, Consume(d, e, n),
             req = [kind |-> "consumption", amount |-> n]
      PROVE  /\ New(d, e) /\ Record(d, e, req) /\ Exists(d)'
             /\ req.kind = "consumption" /\ (req.amount \in Nat \/ req.amount = Unknown)
             /\ \A q \in Delegations : q # d => state[q] = state'[q]
  BY <1>4, AuthorityAssumption DEF Consume
<1>5. ASSUME NEW o \in Outcomes, MaySettle(d), New(d, e), Settled(d, e, o),
             req = [kind |-> "settlement", outcome |-> o]
      PROVE  /\ New(d, e) /\ Record(d, e, req) /\ Exists(d)' /\ req.kind = "settlement"
             /\ \A q \in Delegations : q # d => state[q] = state'[q]
  BY <1>5 DEF Settled
<1> HIDE DEF IInv, TypeOK, LogIsClean, Exists, Acceptable
<1> QED
  BY <1>1, <1>2, <1>3, <1>4, <1>5 DEF Operation

LEMMA CleanStep ==
  ASSUME IInv, LogIsClean, [Next]_vars
  PROVE  LogIsClean'
<1>1. CASE UNCHANGED <<parent, state, authority, consumed, reserved, released, unknown, log>>
  BY <1>1 DEF LogIsClean, Exists, New
<1>2. ASSUME NEW d \in Delegations, NEW e \in EventIds, NEW req, Operation(d, e, req)
      PROVE  LogIsClean'
  <2>1. /\ New(d, e) /\ Record(d, e, req) /\ Exists(d)'
        /\ \A q \in Delegations : q # d => state[q] = state'[q]
        /\ req.kind \in Funding \cup Spending =>
             req.amount \in Nat \/ (req.kind \in Spending /\ req.amount = Unknown)
    BY <1>2, OperationIsLogged
  <2>2. /\ log'[d][e] = req
        /\ \A x \in EventIds : x # e => log'[d][x] = log[d][x]
        /\ \A q \in Delegations : q # d => log'[q] = log[q]
    BY <2>1 DEF IInv, TypeOK, Record
  <2>3. ASSUME NEW q \in Delegations, NEW x \in EventIds
        PROVE  /\ ~Exists(q)' => New(q, x)'
               /\ log'[q][x].kind \in Funding \cup Spending =>
                    \/ log'[q][x].amount \in Nat
                    \/ log'[q][x].kind \in Spending /\ log'[q][x].amount = Unknown
    <3>1. CASE q = d /\ x = e
      BY <2>1, <2>2, <3>1
    <3>2. CASE q = d /\ x # e
      BY <2>1, <2>2, <3>2 DEF LogIsClean
    <3>3. CASE q # d
      BY <2>1, <2>2, <3>3 DEF LogIsClean, New, Exists
    <3> QED
      BY <3>1, <3>2, <3>3
  <2> QED
    BY <2>3 DEF LogIsClean
<1> QED
  BY <1>1, <1>2, StepOfTheAuthority DEF AnOperation


(***************************************************************************)
(* The three parts of LogAgrees, and how an operation keeps each: what it  *)
(* adds to a row is what its event adds to the log.                        *)
(***************************************************************************)
FundingAgrees == \A d \in Delegations : authority[d] = Logged(d, Funding)
UnknownAgrees == \A d \in Delegations : unknown[d] = Cardinality(UnknownEvents(d))
SpendingAgrees ==
  \A d \in Delegations : consumed[d] = Logged(d, Spending) + Total(consumed, SettledChildren(d))

LEMMA RowsFollowTheLog ==
  ASSUME IInv, LogIsClean, NEW d \in Delegations, NEW e \in EventIds, NEW req, Operation(d, e, req)
  PROVE  /\ authority'[d] = authority[d] + Adds(req, Funding)
         /\ req.kind = "consumption" /\ req.amount = Unknown => unknown'[d] = unknown[d] + 1
         /\ ~(req.kind = "consumption" /\ req.amount = Unknown) => unknown'[d] = unknown[d]
         /\ \A q \in Delegations : q # d => authority'[q] = authority[q] /\ unknown'[q] = unknown[q]
<1> USE DEF IInv, TypeOK, Exists, Acceptable, Funding, Adds
<1>1. ASSUME NEW n \in Amounts, CreateRoot(d, e, n), req = [kind |-> "root", amount |-> n]
      PROVE  /\ authority'[d] = authority[d] + n /\ unknown' = unknown /\ n # Unknown
             /\ \A q \in Delegations : q # d => authority'[q] = authority[q]
  <2>1. authority[d] = 0
    BY <1>1 DEF CreateRoot, Covered, CoveredAt
  <2> QED
    BY <1>1, <2>1, AuthorityAssumption DEF CreateRoot
<1>2. ASSUME NEW n \in Amounts, NEW p \in Delegations, Reserve(d, p, e, n),
             req = [kind |-> "reservation", amount |-> n, parent |-> p]
      PROVE  /\ authority'[d] = authority[d] + n /\ unknown' = unknown /\ n # Unknown
             /\ \A q \in Delegations : q # d => authority'[q] = authority[q]
  <2>1. authority[d] = 0
    BY <1>2 DEF Reserve, Covered, CoveredAt
  <2> QED
    BY <1>2, <2>1, AuthorityAssumption DEF Reserve
<1>3. ASSUME NEW n \in Amounts, Grant(d, e, n), req = [kind |-> "authority_grant", amount |-> n]
      PROVE  /\ authority'[d] = authority[d] + n /\ unknown' = unknown /\ n # Unknown
             /\ \A q \in Delegations : q # d => authority'[q] = authority[q]
  BY <1>3, AuthorityAssumption DEF Grant
<1>4. ASSUME NEW n \in Amounts \cup {Unknown}, Consume(d, e, n),
             req = [kind |-> "consumption", amount |-> n]
      PROVE  /\ authority' = authority
             /\ n = Unknown => unknown'[d] = unknown[d] + 1
             /\ n # Unknown => unknown'[d] = unknown[d]
             /\ \A q \in Delegations : q # d => unknown'[q] = unknown[q]
  BY <1>4 DEF Consume
<1>5. ASSUME NEW o \in Outcomes, Settled(d, e, o), req = [kind |-> "settlement", outcome |-> o]
      PROVE  authority' = authority /\ unknown' = unknown
  BY <1>5 DEF Settled
<1> HIDE DEF IInv, TypeOK, Exists, Acceptable
<1>6. \A q \in Delegations : authority[q] + 0 = authority[q]
  BY DEF IInv, TypeOK
<1> QED
  BY <1>1, <1>2, <1>3, <1>4, <1>5, <1>6 DEF Operation

LEMMA FundingAgreesStep ==
  ASSUME IInv, LogIsClean, LogIsClean', FundingAgrees, UnknownAgrees,
         NEW d \in Delegations, NEW e \in EventIds, NEW req, Operation(d, e, req)
  PROVE  FundingAgrees' /\ UnknownAgrees'
<1>1. TypeOK /\ New(d, e) /\ Record(d, e, req)
  BY OperationIsLogged DEF IInv
<1>2. FundingAgrees'
  BY <1>1, EventCounts, RowsFollowTheLog DEF FundingAgrees
<1>3. UnknownAgrees'
  BY <1>1, UnknownCounts, RowsFollowTheLog DEF UnknownAgrees
<1> QED
  BY <1>2, <1>3

(***************************************************************************)
(* An operation that does not settle adds to its delegation's spend what   *)
(* its event adds to the log, and to no settled one's.                     *)
(***************************************************************************)
LEMMA SpendFollowsTheLog ==
  ASSUME IInv, LogIsClean, NEW d \in Delegations, NEW e \in EventIds, NEW req, Operation(d, e, req),
         req.kind # "settlement"
  PROVE  /\ consumed'[d] = consumed[d] + Adds(req, Spending)
         /\ \A q \in Delegations : q # d => consumed'[q] = consumed[q]
         /\ \A q \in Delegations : SettledChildren(q)' = SettledChildren(q)
         /\ consumed'[d] # consumed[d] => Active(d)
<1> USE DEF IInv, TypeOK, Exists, Active, Acceptable, Spending, Adds,
            SettledChildren, ActiveChildren, Children
<1>1. ASSUME NEW n \in Amounts, CreateRoot(d, e, n), req = [kind |-> "root", amount |-> n]
      PROVE  consumed' = consumed /\ \A q \in Delegations : SettledChildren(q)' = SettledChildren(q)
  BY <1>1, AuthorityAssumption DEF CreateRoot, Forest
<1>2. ASSUME NEW n \in Amounts, NEW p \in Delegations, Reserve(d, p, e, n),
             req = [kind |-> "reservation", amount |-> n, parent |-> p]
      PROVE  consumed' = consumed /\ \A q \in Delegations : SettledChildren(q)' = SettledChildren(q)
  BY <1>2, AuthorityAssumption DEF Reserve, Forest
<1>3. ASSUME NEW n \in Amounts, Grant(d, e, n), req = [kind |-> "authority_grant", amount |-> n]
      PROVE  consumed' = consumed /\ \A q \in Delegations : SettledChildren(q)' = SettledChildren(q)
  BY <1>3 DEF Grant
<1>4. ASSUME NEW n \in Amounts \cup {Unknown}, Consume(d, e, n),
             req = [kind |-> "consumption", amount |-> n]
      PROVE  /\ n # Unknown => consumed'[d] = consumed[d] + n
             /\ n = Unknown => consumed'[d] = consumed[d]
             /\ \A q \in Delegations : q # d => consumed'[q] = consumed[q]
             /\ \A q \in Delegations : SettledChildren(q)' = SettledChildren(q)
             /\ Active(d)
  BY <1>4 DEF Consume
<1> HIDE DEF IInv, TypeOK, Exists, Active, Acceptable, SettledChildren, ActiveChildren, Children
<1>5. \A q \in Delegations : consumed[q] + 0 = consumed[q]
  BY DEF IInv, TypeOK
<1> QED
  BY <1>1, <1>2, <1>3, <1>4, <1>5 DEF Operation

LEMMA SpendingAgreesStep ==
  ASSUME IInv, LogIsClean, LogIsClean', SpendingAgrees,
         NEW d \in Delegations, NEW e \in EventIds, NEW req, Operation(d, e, req)
  PROVE  SpendingAgrees'
<1>1. TypeOK /\ New(d, e) /\ Record(d, e, req)
  BY OperationIsLogged DEF IInv
<1>2. /\ Logged(d, Spending)' = Logged(d, Spending) + Adds(req, Spending)
      /\ \A q \in Delegations : q # d => Logged(q, Spending)' = Logged(q, Spending)
  BY <1>1, EventCounts
<1>3. \A q \in Delegations : /\ consumed[q] \in Nat /\ Logged(q, Spending) \in Nat
                             /\ IsFiniteSet(SettledChildren(q))
                             /\ SettledChildren(q) \subseteq Delegations
                             /\ Total(consumed, SettledChildren(q)) \in Nat
  <2> TAKE q \in Delegations
  <2>1. IsFiniteSet(SettledChildren(q)) /\ SettledChildren(q) \subseteq Delegations
    BY Holdings DEF IInv
  <2>2. \A x \in Delegations : consumed[x] \in Nat
    BY DEF IInv, TypeOK
  <2> QED
    BY <2>1, <2>2, LoggedType, TotalType
<1>4. CASE req.kind # "settlement"
  <2>1. /\ consumed'[d] = consumed[d] + Adds(req, Spending)
        /\ \A q \in Delegations : q # d => consumed'[q] = consumed[q]
        /\ \A q \in Delegations : SettledChildren(q)' = SettledChildren(q)
        /\ consumed'[d] # consumed[d] => Active(d)
    BY <1>4, SpendFollowsTheLog
  <2>2. ASSUME NEW q \in Delegations
        PROVE  Total(consumed', SettledChildren(q)') = Total(consumed, SettledChildren(q))
    <3>1. \A x \in SettledChildren(q) : consumed'[x] = consumed[x]
      BY <2>1 DEF SettledChildren, ActiveChildren, Children
    <3> QED
      BY <2>1, <3>1, TotalSameTerms
  <2>3. Adds(req, Spending) \in Nat
    BY OperationIsLogged DEF Adds, Spending
  <2>4. ASSUME NEW q \in Delegations
        PROVE  consumed'[q] = Logged(q, Spending)' + Total(consumed', SettledChildren(q)')
    <3>1. consumed[q] = Logged(q, Spending) + Total(consumed, SettledChildren(q))
      BY DEF SpendingAgrees
    <3>2. CASE q = d
      BY <1>2, <1>3, <2>1, <2>2, <2>3, <3>1, <3>2
    <3>3. CASE q # d
      BY <1>2, <1>3, <2>1, <2>2, <3>1, <3>3
    <3> QED
      BY <3>2, <3>3
  <2> QED
    BY <2>4 DEF SpendingAgrees
<1>5. CASE req.kind = "settlement"
  <2>1. PICK o \in Outcomes : MaySettle(d) /\ Settled(d, e, o)
    BY <1>5, RequestKinds DEF Operation
  <2>2. Adds(req, Spending) = 0
    BY <1>5 DEF Adds, Spending
  <2>3. \A q \in Delegations : Logged(q, Spending)' = Logged(q, Spending)
    BY <1>2, <1>3, <2>2
  <2>4. Active(d) /\ parent[d] # d /\ (parent[d] # None => Active(parent[d]))
    BY <2>1, AuthorityAssumption DEF MaySettle, IInv, Forest
  <2>5. \A x \in Delegations : x # parent[d] => consumed'[x] = consumed[x]
    BY <2>1 DEF IInv, TypeOK, Settled, SettledConsumed
  <2>6. \A q \in Delegations : \A x \in SettledChildren(q) :
          x # d /\ consumed'[x] = consumed[x]
    BY <2>4, <2>5, AuthorityAssumption DEF SettledChildren, ActiveChildren, Children
  <2>7. ASSUME NEW q \in Delegations, q # parent[d]
        PROVE  consumed'[q] = Logged(q, Spending)' + Total(consumed', SettledChildren(q)')
    <3>1. SettledChildren(q)' = SettledChildren(q)
      BY <2>1, <2>7 DEF Settled, SettledChildren, ActiveChildren, Children, Exists, Active, IInv, TypeOK
    <3>2. Total(consumed', SettledChildren(q)') = Total(consumed, SettledChildren(q))
      BY <2>6, <3>1, TotalSameTerms
    <3> QED
      BY <2>3, <2>5, <2>7, <3>2 DEF SpendingAgrees
  <2>8. ASSUME NEW q \in Delegations, q = parent[d]
        PROVE  consumed'[q] = Logged(q, Spending)' + Total(consumed', SettledChildren(q)')
    <3>1. SettledChildren(q)' = SettledChildren(q) \cup {d} /\ d \notin SettledChildren(q)
      BY <2>1, <2>4, <2>8
      DEF Settled, SettledChildren, ActiveChildren, Children, Exists, Active, IInv, TypeOK
    <3>2. consumed'[q] = consumed[q] + consumed[d] /\ consumed'[d] = consumed[d]
      BY <2>1, <2>4, <2>8 DEF Settled, SettledConsumed, IInv, TypeOK
    <3>3. \A x \in SettledChildren(q) \cup {d} : consumed'[x] \in Nat
      BY <1>3, <2>6, <3>2
    <3>4. Total(consumed', SettledChildren(q)') = Total(consumed', SettledChildren(q)) + consumed'[d]
      BY <1>3, <3>1, <3>3, TotalInsert
    <3>5. Total(consumed', SettledChildren(q)) = Total(consumed, SettledChildren(q))
      BY <2>6, TotalSameTerms
    <3>6. consumed[q] = Logged(q, Spending) + Total(consumed, SettledChildren(q))
      BY DEF SpendingAgrees
    <3> QED
      BY <1>3, <2>3, <3>2, <3>4, <3>5, <3>6
  <2> QED
    BY <2>7, <2>8 DEF SpendingAgrees
<1> QED
  BY <1>4, <1>5


(***************************************************************************)
(* EveryDollarOnce, with each of its sums taken over every delegation: of  *)
(* what the roots were given, of what the events spent, and of what each   *)
(* one that holds money has.                                               *)
(***************************************************************************)
Holds(d) == Active(d) \/ unknown[d] > 0 \/ IsRoot(d)

Given == [d \in Delegations |-> IF IsRoot(d) THEN authority[d] ELSE 0]
Spent == [d \in Delegations |-> Logged(d, {"consumption"})]
Held  == [d \in Delegations |-> IF Holds(d) THEN Headroom(d) ELSE 0]

DollarsAdd == Total(Given, Delegations) = Total(Spent, Delegations) + Total(Held, Delegations)

LEMMA DollarsAddNow ==
  EveryDollarOnce <=> DollarsAdd
<1> DEFINE holders == {d \in Delegations : Active(d) \/ unknown[d] > 0 \/ IsRoot(d)}
           roots == {d \in Delegations : IsRoot(d)}
<1>1. Total(authority, roots) = Total(Given, Delegations)
  <2>1. /\ roots \subseteq Delegations
        /\ \A a \in roots : Given[a] = authority[a]
        /\ \A a \in Delegations \ roots : Given[a] = 0
    BY DEF Given
  <2> QED
    BY <2>1, TotalOfPart
<1>2. Total(HeldIn, holders) = Total(Held, Delegations)
  <2>1. /\ holders \subseteq Delegations
        /\ \A a \in holders : Held[a] = HeldIn[a]
        /\ \A a \in Delegations \ holders : Held[a] = 0
    BY DEF Held, HeldIn, Holds
  <2> QED
    BY <2>1, TotalOfPart
<1> QED
  BY <1>1, <1>2 DEF EveryDollarOnce, DollarsAdd, Spent

LEMMA DollarsAddThen ==
  EveryDollarOnce' <=> DollarsAdd'
BY DollarsAddNow, PTL

LEMMA DollarTypes ==
  ASSUME TypeOK, Covered, LogIsClean, NEW d \in Delegations
  PROVE  Given[d] \in Nat /\ Spent[d] \in Nat /\ Held[d] \in Nat /\ Headroom(d) \in Nat
<1>1. Headroom(d) \in Nat
  BY DEF TypeOK, Covered, CoveredAt, Headroom
<1>2. Spent[d] \in Nat
  BY LoggedType DEF Spent, Spending
<1> QED
  BY <1>1, <1>2 DEF TypeOK, Given, Held

(***************************************************************************)
(* What a total comes to when only the amounts in D change.                *)
(***************************************************************************)
OnlyChange(f, g, S, D) ==
  \A x \in S : f[x] \in Nat /\ g[x] \in Nat /\ (x \notin D => g[x] = f[x])

LEMMA OneChanges ==
  ASSUME NEW S, IsFiniteSet(S), NEW a \in S, NEW f, NEW g, OnlyChange(f, g, S, {a})
  PROVE  Total(g, S) + f[a] = Total(f, S) + g[a]
<1>1. \A x \in S : f[x] \in Nat /\ g[x] \in Nat
  BY DEF OnlyChange
<1>2. \A x \in S : x # a => g[x] = f[x]
  BY DEF OnlyChange
<1> QED
  BY <1>1, <1>2, TotalOneChange

LEMMA TwoChange ==
  ASSUME NEW S, IsFiniteSet(S), NEW a \in S, NEW b \in S, a # b, NEW f, NEW g,
         OnlyChange(f, g, S, {a, b})
  PROVE  Total(g, S) + f[a] + f[b] = Total(f, S) + g[a] + g[b]
<1>1. \A x \in S : f[x] \in Nat /\ g[x] \in Nat
  BY DEF OnlyChange
<1>2. \A x \in S : x # a /\ x # b => g[x] = f[x]
  BY DEF OnlyChange
<1> QED
  BY <1>1, <1>2, TotalTwoChanges

\* The same for what is given, spent and held of delegations.
LEMMA GivenChanges ==
  ASSUME NEW a \in Delegations, OnlyChange(Given, Given', Delegations, {a})
  PROVE  Total(Given', Delegations) + Given[a] = Total(Given, Delegations) + Given'[a]
BY AuthorityAssumption, OneChanges

LEMMA SpentChanges ==
  ASSUME NEW a \in Delegations, OnlyChange(Spent, Spent', Delegations, {a})
  PROVE  Total(Spent', Delegations) + Spent[a] = Total(Spent, Delegations) + Spent'[a]
BY AuthorityAssumption, OneChanges

LEMMA HeldChanges ==
  ASSUME NEW a \in Delegations, OnlyChange(Held, Held', Delegations, {a})
  PROVE  Total(Held', Delegations) + Held[a] = Total(Held, Delegations) + Held'[a]
BY AuthorityAssumption, OneChanges

LEMMA HeldMoves ==
  ASSUME NEW a \in Delegations, NEW b \in Delegations, a # b, OnlyChange(Held, Held', Delegations, {a, b})
  PROVE  Total(Held', Delegations) + Held[a] + Held[b] = Total(Held, Delegations) + Held'[a] + Held'[b]
BY AuthorityAssumption, TwoChange

(***************************************************************************)
(* The dollars still add when a step gives a delegation as much as comes   *)
(* to be held or spent there, and otherwise moves what is held from one to *)
(* another.                                                                *)
(***************************************************************************)
LEMMA DollarsMove ==
  ASSUME DollarsAdd, NEW a \in Delegations, NEW b \in Delegations, NEW m \in Nat, a # b,
         \A d \in Delegations : /\ Given[d] \in Nat /\ Spent[d] \in Nat /\ Held[d] \in Nat
                                /\ Given'[d] \in Nat /\ Spent'[d] \in Nat /\ Held'[d] \in Nat,
         \A d \in Delegations : d # a => Given'[d] = Given[d] /\ Spent'[d] = Spent[d],
         \A d \in Delegations : d # a /\ d # b => Held'[d] = Held[d],
         Held[b] = Held'[b] + m,
         Given'[a] + Spent[a] + Held[a] + m = Given[a] + Spent'[a] + Held'[a]
  PROVE  DollarsAdd'
<1> DEFINE G == Total(Given, Delegations)    G1 == Total(Given', Delegations)
           S == Total(Spent, Delegations)    S1 == Total(Spent', Delegations)
           H == Total(Held, Delegations)     H1 == Total(Held', Delegations)
<1>1. IsFiniteSet(Delegations)
  BY AuthorityAssumption
<1>2. G1 + Given[a] = G + Given'[a]
  <2>1. OnlyChange(Given, Given', Delegations, {a})
    BY DEF OnlyChange
  <2> QED
    BY <2>1, GivenChanges
<1>3. S1 + Spent[a] = S + Spent'[a]
  <2>1. OnlyChange(Spent, Spent', Delegations, {a})
    BY DEF OnlyChange
  <2> QED
    BY <2>1, SpentChanges
<1>4. H1 + Held[a] + Held[b] = H + Held'[a] + Held'[b]
  <2>1. OnlyChange(Held, Held', Delegations, {a, b})
    BY DEF OnlyChange
  <2> QED
    BY <2>1, HeldMoves
<1>5. G \in Nat /\ G1 \in Nat /\ S \in Nat /\ S1 \in Nat /\ H \in Nat /\ H1 \in Nat
  BY <1>1, TotalType
<1>6. G = S + H
  BY DEF DollarsAdd
<1> HIDE DEF G, G1, S, S1, H, H1
<1>7. G1 = S1 + H1
  BY <1>2, <1>3, <1>4, <1>5, <1>6
<1> QED
  BY <1>7 DEF G1, S1, H1, DollarsAdd

(***************************************************************************)
(* The same when nothing is moved: a delegation is given what comes to be  *)
(* held or spent there.                                                    *)
(***************************************************************************)
LEMMA DollarsStay ==
  ASSUME DollarsAdd, NEW a \in Delegations,
         \A d \in Delegations : /\ Given[d] \in Nat /\ Spent[d] \in Nat /\ Held[d] \in Nat
                                /\ Given'[d] \in Nat /\ Spent'[d] \in Nat /\ Held'[d] \in Nat,
         \A d \in Delegations : d # a =>
           Given'[d] = Given[d] /\ Spent'[d] = Spent[d] /\ Held'[d] = Held[d],
         Given'[a] + Spent[a] + Held[a] = Given[a] + Spent'[a] + Held'[a]
  PROVE  DollarsAdd'
<1> DEFINE G == Total(Given, Delegations)    G1 == Total(Given', Delegations)
           S == Total(Spent, Delegations)    S1 == Total(Spent', Delegations)
           H == Total(Held, Delegations)     H1 == Total(Held', Delegations)
<1>1. IsFiniteSet(Delegations)
  BY AuthorityAssumption
<1>2. G1 + Given[a] = G + Given'[a]
  <2>1. OnlyChange(Given, Given', Delegations, {a})
    BY DEF OnlyChange
  <2> QED
    BY <2>1, GivenChanges
<1>3. S1 + Spent[a] = S + Spent'[a]
  <2>1. OnlyChange(Spent, Spent', Delegations, {a})
    BY DEF OnlyChange
  <2> QED
    BY <2>1, SpentChanges
<1>4. H1 + Held[a] = H + Held'[a]
  <2>1. OnlyChange(Held, Held', Delegations, {a})
    BY DEF OnlyChange
  <2> QED
    BY <2>1, HeldChanges
<1>5. G \in Nat /\ G1 \in Nat /\ S \in Nat /\ S1 \in Nat /\ H \in Nat /\ H1 \in Nat
  BY <1>1, TotalType
<1>6. G = S + H
  BY DEF DollarsAdd
<1> HIDE DEF G, G1, S, S1, H, H1
<1>7. G1 = S1 + H1
  BY <1>2, <1>3, <1>4, <1>5, <1>6
<1> QED
  BY <1>7 DEF G1, S1, H1, DollarsAdd


(***************************************************************************)
(* What each operation moves.  Opening a root, a top-up of one and a spend *)
(* move nothing between delegations.                                       *)
(***************************************************************************)
LEMMA RootDollars ==
  ASSUME IInv, LogIsClean, NEW d \in Delegations, NEW e \in EventIds, NEW n \in Amounts,
         CreateRoot(d, e, n)
  PROVE  /\ Given'[d] = Given[d] + n /\ Held'[d] = Held[d] + n
         /\ \A q \in Delegations : q # d => Given'[q] = Given[q] /\ Held'[q] = Held[q]
<1> USE DEF IInv, TypeOK, CreateRoot, Exists, Active
<1>1. n \in Nat /\ parent[d] = None
  BY AuthorityAssumption DEF Acceptable, Forest
<1>2. authority[d] = 0 /\ consumed[d] = 0 /\ reserved[d] = 0
  <2>1. /\ consumed[d] \in Nat /\ reserved[d] \in Int /\ released[d] \in Int
        /\ reserved[d] >= 0 /\ released[d] >= 0 /\ authority[d] = 0
        /\ consumed[d] + reserved[d] + released[d] <= 0
    BY DEF Covered, CoveredAt
  <2> HIDE DEF IInv, TypeOK, CreateRoot
  <2> QED
    BY <2>1
<1>3. Given[d] = 0 /\ Held[d] = 0
  BY <1>2 DEF Given, Held, IsRoot, Headroom
<1>4. Given'[d] = n /\ Held'[d] = n
  BY <1>1, <1>2 DEF Given, Held, Holds, IsRoot, Headroom
<1>5. ASSUME NEW q \in Delegations, q # d
      PROVE  Given'[q] = Given[q] /\ Held'[q] = Held[q]
  BY <1>5 DEF Given, Held, Holds, IsRoot, Headroom
<1> QED
  BY <1>1, <1>3, <1>4, <1>5

LEMMA GrantDollars ==
  ASSUME IInv, LogIsClean, NEW d \in Delegations, NEW e \in EventIds, NEW n \in Amounts,
         Grant(d, e, n)
  PROVE  /\ parent[d] = None =>
              /\ Given'[d] = Given[d] + n /\ Held'[d] = Held[d] + n
              /\ \A q \in Delegations : q # d => Given'[q] = Given[q] /\ Held'[q] = Held[q]
         /\ parent[d] # None =>
              /\ Given' = Given /\ parent[d] \in Delegations /\ parent[d] # d
              /\ Held'[d] = Held[d] + n /\ Held[parent[d]] = Held'[parent[d]] + n
              /\ \A q \in Delegations : q # d /\ q # parent[d] => Held'[q] = Held[q]
<1> USE DEF IInv, TypeOK, Grant, GrantedReserved, Exists, Active
<1>1. n \in Nat /\ Active(d)
  BY AuthorityAssumption DEF Acceptable
<1>2. /\ \A q \in Delegations : q # d => authority'[q] = authority[q]
      /\ \A q \in Delegations : q # parent[d] => reserved'[q] = reserved[q]
      /\ authority'[d] = authority[d] + n
      /\ consumed' = consumed
  OBVIOUS
<1>3. \A q \in Delegations : (Holds(q)' <=> Holds(q)) /\ (IsRoot(q)' <=> IsRoot(q))
  BY DEF Holds, IsRoot
<1>4. Holds(d)
  BY <1>1 DEF Holds
<1>5. ASSUME parent[d] = None
      PROVE  /\ Given'[d] = Given[d] + n /\ Held'[d] = Held[d] + n
             /\ \A q \in Delegations : q # d => Given'[q] = Given[q] /\ Held'[q] = Held[q]
  <2>1. \A q \in Delegations : reserved'[q] = reserved[q]
    BY <1>2, <1>5, AuthorityAssumption
  <2>2. \A q \in Delegations : /\ authority[q] \in Nat /\ consumed[q] \in Nat
                               /\ reserved[q] \in Int
    OBVIOUS
  <2>3. IsRoot(d)
    BY <1>5 DEF IsRoot
  <2> HIDE DEF IInv, TypeOK, Grant, GrantedReserved, Exists, Active
  <2>4. Given'[d] = Given[d] + n /\ Held'[d] = Held[d] + n
    BY <1>1, <1>2, <1>3, <1>4, <2>1, <2>2, <2>3 DEF Given, Held, Headroom
  <2>5. \A q \in Delegations : q # d => Given'[q] = Given[q] /\ Held'[q] = Held[q]
    BY <1>2, <1>3, <2>1 DEF Given, Held, Headroom
  <2> QED
    BY <2>4, <2>5
<1>6. ASSUME parent[d] # None
      PROVE  /\ Given' = Given /\ parent[d] \in Delegations /\ parent[d] # d
             /\ Held'[d] = Held[d] + n /\ Held[parent[d]] = Held'[parent[d]] + n
             /\ \A q \in Delegations : q # d /\ q # parent[d] => Held'[q] = Held[q]
  <2> DEFINE p == parent[d]
  <2>1. p \in Delegations /\ p # d /\ Active(p)
    BY <1>1, <1>6 DEF Forest
  <2>2. Holds(p)
    BY <2>1 DEF Holds
  <2>3. \A q \in Delegations : /\ authority[q] \in Nat /\ consumed[q] \in Nat
                               /\ reserved[q] \in Int
    OBVIOUS
  <2>4. reserved'[p] = reserved[p] + n
    BY <2>1
  <2>5. ~IsRoot(d)
    BY <1>6 DEF IsRoot
  <2> HIDE DEF p, IInv, TypeOK, Grant, GrantedReserved, Exists, Active
  <2>6. Given' = Given
    BY <1>2, <1>3, <2>5 DEF Given
  <2>7. Held'[d] = Held[d] + n
    BY <1>1, <1>2, <1>3, <1>4, <2>1, <2>3 DEF p, Held, Headroom
  <2>8. Held[p] = Held'[p] + n
    BY <1>1, <1>2, <1>3, <2>1, <2>2, <2>3, <2>4 DEF Held, Headroom
  <2>9. \A q \in Delegations : q # d /\ q # p => Held'[q] = Held[q]
    BY <1>2, <1>3 DEF p, Held, Headroom
  <2> QED
    BY <2>1, <2>6, <2>7, <2>8, <2>9 DEF p
<1> QED
  BY <1>5, <1>6

LEMMA ConsumeDollars ==
  ASSUME IInv, LogIsClean, NEW d \in Delegations, NEW e \in EventIds,
         NEW n \in Amounts \cup {Unknown}, Consume(d, e, n)
  PROVE  /\ Given' = Given
         /\ n # Unknown => Held[d] = Held'[d] + n
         /\ n = Unknown => Held'[d] = Held[d]
         /\ \A q \in Delegations : q # d => Held'[q] = Held[q]
<1> USE DEF IInv, TypeOK, Consume, Exists, Active
<1>1. Given' = Given
  BY DEF Given, IsRoot
<1>2. Holds(d) /\ Holds(d)'
  BY DEF Holds
<1>3. \A q \in Delegations : q # d => Held'[q] = Held[q]
  BY DEF Held, Holds, IsRoot, Headroom
<1>4. ASSUME n # Unknown
      PROVE  Held[d] = Held'[d] + n
  <2>1. n \in Nat /\ consumed'[d] = consumed[d] + n /\ authority' = authority /\ reserved' = reserved
    BY <1>4, AuthorityAssumption
  <2>2. authority[d] \in Nat /\ consumed[d] \in Nat /\ reserved[d] \in Int
    OBVIOUS
  <2> HIDE DEF IInv, TypeOK, Consume, Exists, Active
  <2> QED
    BY <1>2, <2>1, <2>2 DEF Held, Headroom
<1>5. ASSUME n = Unknown
      PROVE  Held'[d] = Held[d]
  BY <1>2, <1>5 DEF Held, Headroom
<1> QED
  BY <1>1, <1>3, <1>4, <1>5

(***************************************************************************)
(* A reservation moves the child's authority out of its parent's headroom. *)
(***************************************************************************)
LEMMA ReserveDollars ==
  ASSUME IInv, LogIsClean, NEW d \in Delegations, NEW p \in Delegations, NEW e \in EventIds,
         NEW n \in Amounts, Reserve(d, p, e, n)
  PROVE  /\ Given' = Given /\ p # d
         /\ Held'[d] = Held[d] + n /\ Held[p] = Held'[p] + n
         /\ \A q \in Delegations : q # d /\ q # p => Held'[q] = Held[q]
<1> USE DEF IInv, TypeOK, Reserve, Exists, Active
<1>1. n \in Nat /\ p # d /\ p # None
  BY AuthorityAssumption DEF Acceptable
<1>2. authority[d] = 0 /\ consumed[d] = 0 /\ reserved[d] = 0
  <2>1. /\ consumed[d] \in Nat /\ reserved[d] \in Int /\ released[d] \in Int
        /\ reserved[d] >= 0 /\ released[d] >= 0 /\ authority[d] = 0
        /\ consumed[d] + reserved[d] + released[d] <= 0
    BY DEF Covered, CoveredAt
  <2> HIDE DEF IInv, TypeOK, Reserve
  <2> QED
    BY <2>1
<1>3. Given' = Given
  <2>1. ASSUME NEW q \in Delegations
        PROVE  Given'[q] = Given[q]
    <3>1. CASE q = d
      BY <1>1, <3>1 DEF Given, IsRoot
    <3>2. CASE q # d
      BY <3>2 DEF Given, IsRoot
    <3> QED
      BY <3>1, <3>2
  <2> QED
    BY <2>1 DEF Given
<1>4. Held[d] = 0
  BY <1>2 DEF Held, Headroom
<1>5. Held'[d] = n
  BY <1>1, <1>2 DEF Held, Holds, Headroom
<1>6. Held[p] = Held'[p] + n
  <2>1. Holds(p) /\ Holds(p)'
    BY <1>1 DEF Holds, Funds
  <2>2. /\ reserved'[p] = reserved[p] + n /\ authority'[p] = authority[p]
        /\ consumed'[p] = consumed[p]
        /\ authority[p] \in Nat /\ consumed[p] \in Nat /\ reserved[p] \in Int
    BY <1>1
  <2> HIDE DEF IInv, TypeOK, Reserve, Exists, Active
  <2> QED
    BY <1>1, <2>1, <2>2 DEF Held, Headroom
<1>7. ASSUME NEW q \in Delegations, q # d, q # p
      PROVE  Held'[q] = Held[q]
  BY <1>7 DEF Held, Holds, IsRoot, Headroom
<1> QED
  BY <1>1, <1>3, <1>4, <1>5, <1>6, <1>7

(***************************************************************************)
(* A settlement moves what is released to the parent.  What it keeps for   *)
(* unknown costs, and what a root has left, stays where it is.             *)
(***************************************************************************)
LEMMA SettledDollars ==
  ASSUME IInv, LogIsClean, NEW d \in Delegations, NEW e \in EventIds, NEW o \in Outcomes,
         MaySettle(d), Settled(d, e, o)
  PROVE  /\ Given' = Given
         /\ parent[d] = None => Held' = Held
         /\ parent[d] # None =>
              /\ parent[d] \in Delegations /\ parent[d] # d
              /\ Held[d] = Held'[d] + Released(d)
              /\ Held'[parent[d]] = Held[parent[d]] + Released(d)
              /\ \A q \in Delegations : q # d /\ q # parent[d] => Held'[q] = Held[q]
<1> USE DEF IInv, TypeOK, Settled, SettledConsumed, Exists, Active
<1>1. Active(d) /\ Holds(d) /\ Exists(d)'
  BY DEF MaySettle, Holds
<1>2. \A q \in Delegations : IsRoot(q)' <=> IsRoot(q)
  BY <1>1 DEF IsRoot
<1>3. Given' = Given
  BY <1>2 DEF Given
<1>4. \A q \in Delegations : q # d => (Holds(q)' <=> Holds(q))
  BY <1>2 DEF Holds
<1>5. \A q \in Delegations : q # parent[d] =>
        consumed'[q] = consumed[q] /\ reserved'[q] = reserved[q]
  OBVIOUS
<1>6. \A q \in Delegations : q # d /\ q # parent[d] => Held'[q] = Held[q]
  BY <1>4, <1>5 DEF Held, Headroom
<1>7. ASSUME parent[d] = None
      PROVE  Held' = Held
  <2>1. IsRoot(d)
    BY <1>1, <1>7 DEF IsRoot
  <2>2. \A q \in Delegations : Holds(q)' <=> Holds(q)
    BY <1>1, <1>2, <1>4, <2>1 DEF Holds
  <2>3. \A q \in Delegations : q # parent[d]
    BY <1>7, AuthorityAssumption
  <2> QED
    BY <1>5, <2>2, <2>3 DEF Held, Headroom
<1>8. ASSUME parent[d] # None
      PROVE  /\ parent[d] \in Delegations /\ parent[d] # d
             /\ Held[d] = Held'[d] + Released(d)
             /\ Held'[parent[d]] = Held[parent[d]] + Released(d)
  <2>0. PICK p \in Delegations : p = parent[d]
    BY <1>8
  <2>1. p # d /\ Active(p)
    BY <1>1, <1>8, <2>0 DEF Forest
  <2>2. Headroom(d) \in Int /\ Headroom(d)' = Headroom(d)
    BY <1>5, <2>0, <2>1 DEF Headroom
  <2>3. Held[d] = Held'[d] + Released(d)
    <3>1. unknown'[d] = unknown[d] /\ unknown[d] \in Nat /\ ~Active(d)' /\ ~IsRoot(d)'
      BY <1>8 DEF IsRoot
    <3>2. Holds(d)' <=> unknown[d] > 0
      BY <3>1 DEF Holds
    <3> HIDE DEF IInv, TypeOK, Settled, SettledConsumed, Exists, Active
    <3> QED
      BY <1>1, <2>2, <3>1, <3>2 DEF Held, Released
  <2>4. Held'[p] = Held[p] + Released(d)
    <3>1. Holds(p) /\ Holds(p)'
      BY <1>4, <2>1 DEF Holds
    <3>2. /\ consumed'[p] = consumed[p] + consumed[d]
          /\ reserved'[p] = reserved[p] - (consumed[d] + Released(d))
          /\ authority' = authority
          /\ authority[p] \in Nat /\ consumed[p] \in Nat /\ reserved[p] \in Int
          /\ consumed[d] \in Nat
      BY <2>0
    <3>3. Released(d) \in Int
      BY <2>2 DEF Released
    <3> HIDE DEF IInv, TypeOK, Settled, SettledConsumed, Exists, Active
    <3>4. Headroom(p)' = Headroom(p) + Released(d)
      BY <3>2, <3>3 DEF Headroom
    <3> QED
      BY <2>1, <3>1, <3>4 DEF Held
  <2> QED
    BY <2>0, <2>1, <2>3, <2>4
<1> QED
  BY <1>3, <1>6, <1>7, <1>8


LEMMA DollarsStep ==
  ASSUME IInv, IInv', LogIsClean, LogIsClean', DollarsAdd,
         NEW d \in Delegations, NEW e \in EventIds, NEW req, Operation(d, e, req)
  PROVE  DollarsAdd'
<1> DEFINE p == parent[d]
<1>1. \A q \in Delegations : /\ Given[q] \in Nat /\ Spent[q] \in Nat /\ Held[q] \in Nat
                             /\ Headroom(q) \in Nat
  BY DollarTypes DEF IInv
<1>2. \A q \in Delegations : Given'[q] \in Nat /\ Spent'[q] \in Nat /\ Held'[q] \in Nat
  <2>1. TypeOK' /\ Covered' /\ LogIsClean'
    BY DEF IInv
  <2>2. \A q \in Delegations : Headroom(q)' \in Nat
    BY <2>1 DEF TypeOK, Covered, CoveredAt, Headroom
  <2>3. \A q \in Delegations : \A x \in EventIds : AmountOf(q, x, Spending)' \in Nat
    BY <2>1 DEF LogIsClean, AmountOf, Funding, Spending
  <2>4. ASSUME NEW q \in Delegations
        PROVE  Logged(q, Spending)' \in Nat
    <3>1. \A x \in EventIds : [y \in EventIds |-> AmountOf(q, y, Spending)'][x] \in Nat
      BY <2>3
    <3>2. IsFiniteSet(EventIds)
      BY AuthorityAssumption, FS_AddElement DEF EventIds
    <3> QED
      BY <3>1, <3>2, TotalType DEF Logged
  <2> QED
    BY <2>1, <2>2, <2>4 DEF TypeOK, Given, Spent, Held, Spending
<1>3. /\ Spent'[d] = Spent[d] + Adds(req, Spending)
      /\ \A q \in Delegations : q # d => Spent'[q] = Spent[q]
  <2>1. TypeOK /\ New(d, e) /\ Record(d, e, req)
    BY OperationIsLogged DEF IInv
  <2> QED
    BY <2>1, EventCounts DEF Spent, Spending
<1>4. Adds(req, Spending) = 0 => \A q \in Delegations : Spent'[q] = Spent[q]
  BY <1>1, <1>3
<1>5. ASSUME NEW n \in Amounts, CreateRoot(d, e, n), req = [kind |-> "root", amount |-> n]
      PROVE  DollarsAdd'
  <2>1. n \in Nat /\ Adds(req, Spending) = 0
    BY <1>5, AuthorityAssumption DEF CreateRoot, Acceptable, Adds, Spending
  <2>2. /\ Given'[d] = Given[d] + n /\ Held'[d] = Held[d] + n
        /\ \A q \in Delegations : q # d => Given'[q] = Given[q] /\ Held'[q] = Held[q]
    BY <1>5, RootDollars
  <2>3. Given'[d] + Spent[d] + Held[d] = Given[d] + Spent'[d] + Held'[d]
    BY <1>1, <1>4, <2>1, <2>2
  <2> QED
    BY <1>1, <1>2, <1>3, <2>2, <2>3, DollarsStay
<1>6. ASSUME NEW n \in Amounts, NEW q \in Delegations, Reserve(d, q, e, n),
             req = [kind |-> "reservation", amount |-> n, parent |-> q]
      PROVE  DollarsAdd'
  <2>1. n \in Nat /\ Adds(req, Spending) = 0
    BY <1>6, AuthorityAssumption DEF Reserve, Acceptable, Adds, Spending
  <2>2. /\ Given' = Given /\ q # d
        /\ Held'[d] = Held[d] + n /\ Held[q] = Held'[q] + n
        /\ \A x \in Delegations : x # d /\ x # q => Held'[x] = Held[x]
    BY <1>6, ReserveDollars
  <2>3. Given'[d] + Spent[d] + Held[d] + n = Given[d] + Spent'[d] + Held'[d]
    BY <1>1, <1>4, <2>1, <2>2
  <2>4. \A x \in Delegations : x # d => Given'[x] = Given[x] /\ Spent'[x] = Spent[x]
    BY <1>3, <2>2
  <2> QED
    BY <1>1, <1>2, <2>1, <2>2, <2>3, <2>4, DollarsMove
<1>7. ASSUME NEW n \in Amounts, Grant(d, e, n), req = [kind |-> "authority_grant", amount |-> n]
      PROVE  DollarsAdd'
  <2>1. n \in Nat /\ Adds(req, Spending) = 0
    BY <1>7, AuthorityAssumption DEF Grant, Acceptable, Adds, Spending
  <2>2. CASE p = None
    <3>1. /\ Given'[d] = Given[d] + n /\ Held'[d] = Held[d] + n
          /\ \A q \in Delegations : q # d => Given'[q] = Given[q] /\ Held'[q] = Held[q]
      BY <1>7, <2>2, GrantDollars
    <3>2. Given'[d] + Spent[d] + Held[d] = Given[d] + Spent'[d] + Held'[d]
      BY <1>1, <1>4, <2>1, <3>1
    <3> QED
      BY <1>1, <1>2, <1>3, <3>1, <3>2, DollarsStay
  <2>3. CASE p # None
    <3>1. /\ Given' = Given /\ p \in Delegations /\ p # d
          /\ Held'[d] = Held[d] + n /\ Held[p] = Held'[p] + n
          /\ \A q \in Delegations : q # d /\ q # p => Held'[q] = Held[q]
      BY <1>7, <2>3, GrantDollars
    <3>2. Given'[d] + Spent[d] + Held[d] + n = Given[d] + Spent'[d] + Held'[d]
      BY <1>1, <1>4, <2>1, <3>1
    <3>3. \A x \in Delegations : x # d => Given'[x] = Given[x] /\ Spent'[x] = Spent[x]
      BY <1>3, <3>1
    <3> HIDE DEF p
    <3> QED
      BY <1>1, <1>2, <2>1, <3>1, <3>2, <3>3, DollarsMove
  <2> QED
    BY <2>2, <2>3
<1>8. ASSUME NEW n \in Amounts \cup {Unknown}, Consume(d, e, n),
             req = [kind |-> "consumption", amount |-> n]
      PROVE  DollarsAdd'
  <2>1. /\ n # Unknown => n \in Nat /\ Adds(req, Spending) = n
        /\ n = Unknown => Adds(req, Spending) = 0
    <3>1. req.kind = "consumption" /\ req.amount = n
      BY <1>8
    <3>2. n # Unknown => n \in Nat
      BY <3>1, OperationIsLogged DEF Spending
    <3> QED
      BY <3>1, <3>2 DEF Adds, Spending
  <2>2. /\ Given' = Given
        /\ n # Unknown => Held[d] = Held'[d] + n
        /\ n = Unknown => Held'[d] = Held[d]
        /\ \A q \in Delegations : q # d => Held'[q] = Held[q]
    BY <1>8, ConsumeDollars
  <2>3. Given'[d] + Spent[d] + Held[d] = Given[d] + Spent'[d] + Held'[d]
    BY <1>1, <1>2, <1>3, <2>1, <2>2
  <2> QED
    BY <1>1, <1>2, <1>3, <2>2, <2>3, DollarsStay
<1>9. ASSUME NEW o \in Outcomes, MaySettle(d), Settled(d, e, o),
             req = [kind |-> "settlement", outcome |-> o]
      PROVE  DollarsAdd'
  <2>1. Adds(req, Spending) = 0
    BY <1>9 DEF Adds, Spending
  <2>2. CASE p = None
    <3>1. Given' = Given /\ Held' = Held
      BY <1>9, <2>2, SettledDollars
    <3>2. Given'[d] + Spent[d] + Held[d] = Given[d] + Spent'[d] + Held'[d]
      BY <1>1, <1>4, <2>1, <3>1
    <3> QED
      BY <1>1, <1>2, <1>3, <3>1, <3>2, DollarsStay
  <2>3. CASE p # None
    <3>1. /\ Given' = Given /\ p \in Delegations /\ p # d
          /\ Held[d] = Held'[d] + Released(d) /\ Held'[p] = Held[p] + Released(d)
          /\ \A q \in Delegations : q # d /\ q # p => Held'[q] = Held[q]
      BY <1>9, <2>3, SettledDollars
    <3>2. Released(d) \in Nat
      BY <1>1 DEF Released
    <3>3. Given'[p] + Spent[p] + Held[p] + Released(d) = Given[p] + Spent'[p] + Held'[p]
      BY <1>1, <1>4, <2>1, <3>1, <3>2
    <3>4. \A x \in Delegations : x # p => Given'[x] = Given[x] /\ Spent'[x] = Spent[x]
      BY <1>4, <2>1, <3>1
    <3> HIDE DEF p
    <3> QED
      BY <1>1, <1>2, <3>1, <3>2, <3>3, <3>4, DollarsMove
  <2> QED
    BY <2>2, <2>3
<1> QED
  BY <1>5, <1>6, <1>7, <1>8, <1>9 DEF Operation

(***************************************************************************)
(* The log and the rows tell the same from the start, and after each step. *)
(***************************************************************************)
LogInv == LogIsClean /\ FundingAgrees /\ UnknownAgrees /\ SpendingAgrees /\ DollarsAdd

LEMMA LogStarts ==
  ASSUME Init
  PROVE  LogInv
<1> USE DEF Init
<1>1. IsFiniteSet(Delegations) /\ IsFiniteSet(EventIds)
  BY AuthorityAssumption, FS_AddElement DEF EventIds
<1>2. LogIsClean
  BY RequestKinds DEF LogIsClean, Exists, New, Funding, Spending
<1>3. ASSUME NEW d \in Delegations, NEW K \in {Funding, Spending}
      PROVE  Logged(d, K) = 0
  <2>1. \A e \in EventIds : [x \in EventIds |-> AmountOf(d, x, K)][e] = 0
    BY <1>3, RequestKinds DEF AmountOf, Funding, Spending
  <2>2. Total([x \in EventIds |-> AmountOf(d, x, K)], {})
          = Total([x \in EventIds |-> AmountOf(d, x, K)], EventIds)
    BY <2>1, TotalOfPart
  <2> QED
    BY <2>2, TotalEmpty DEF Logged
<1>4. FundingAgrees
  BY <1>3 DEF FundingAgrees
<1>5. ASSUME NEW d \in Delegations
      PROVE  unknown[d] = Cardinality(UnknownEvents(d))
  <2>1. UnknownEvents(d) = {}
    BY RequestKinds DEF UnknownEvents
  <2> QED
    BY <2>1, FS_EmptySet
<1>6. ASSUME NEW d \in Delegations
      PROVE  consumed[d] = Logged(d, Spending) + Total(consumed, SettledChildren(d))
  <2>1. SettledChildren(d) = {}
    BY DEF SettledChildren, ActiveChildren, Children, Exists
  <2> QED
    BY <1>3, <2>1, TotalEmpty
<1>7. DollarsAdd
  <2>1. \A d \in Delegations : Given[d] = 0 /\ Spent[d] = 0 /\ Held[d] = 0
    BY <1>3 DEF Given, Spent, Spending, Held, Headroom, IsRoot, Exists
  <2>2. /\ Total(Given, {}) = Total(Given, Delegations)
        /\ Total(Spent, {}) = Total(Spent, Delegations)
        /\ Total(Held, {}) = Total(Held, Delegations)
    BY <2>1, TotalOfPart
  <2> QED
    BY <2>2, TotalEmpty DEF DollarsAdd
<1> QED
  BY <1>2, <1>4, <1>5, <1>6, <1>7 DEF LogInv, UnknownAgrees, SpendingAgrees

LEMMA LogStep ==
  ASSUME IInv, LogInv, [Next]_vars
  PROVE  LogInv'
<1>1. IInv' /\ LogIsClean'
  BY IInvStep, CleanStep DEF LogInv
<1>2. CASE UNCHANGED <<parent, state, authority, consumed, reserved, released, unknown, log>>
  <2>1. \A d \in Delegations : /\ Logged(d, Funding)' = Logged(d, Funding)
                               /\ Logged(d, Spending)' = Logged(d, Spending)
                               /\ UnknownEvents(d)' = UnknownEvents(d)
                               /\ SettledChildren(d)' = SettledChildren(d)
    BY <1>2 DEF Logged, AmountOf, UnknownEvents, SettledChildren, ActiveChildren, Children,
                Exists, Active
  <2>2. FundingAgrees' /\ UnknownAgrees' /\ SpendingAgrees'
    BY <1>2, <2>1 DEF LogInv, FundingAgrees, UnknownAgrees, SpendingAgrees
  <2>3. Given' = Given /\ Spent' = Spent /\ Held' = Held
    BY <1>2, <2>1 DEF Given, Spent, Spending, Held, Holds, IsRoot, Exists, Active, Headroom
  <2> QED
    BY <1>1, <2>2, <2>3 DEF LogInv, DollarsAdd
<1>3. ASSUME NEW d \in Delegations, NEW e \in EventIds, NEW req, Operation(d, e, req)
      PROVE  LogInv'
  BY <1>1, <1>3, FundingAgreesStep, SpendingAgreesStep, DollarsStep DEF LogInv
<1> QED
  BY <1>2, <1>3, StepOfTheAuthority DEF AnOperation

(***************************************************************************)
(* The log tells the same as the balances at every moment, for any number  *)
(* of delegations at any depth and of events: every dollar that the roots  *)
(* were given is spent by an event, in the headroom of one delegation that *)
(* may spend it, or locked where an unknown cost may have spent it.        *)
(***************************************************************************)
THEOREM LogAlwaysTellsAll == Spec => []LogTellsAll
<1>1. IInv /\ LogInv => LogTellsAll
  BY DollarsAddNow
  DEF LogInv, LogTellsAll, LogAgrees, FundingAgrees, UnknownAgrees, SpendingAgrees,
      Funding, Spending, UnknownEvents
<1>2. Init => LogInv
  BY LogStarts
<1>3. IInv /\ LogInv /\ [Next]_vars => LogInv'
  BY LogStep
<1> QED
  BY <1>1, <1>2, <1>3, IInvHolds, PTL DEF Spec


-----------------------------------------------------------------------------
(***************************************************************************)
(* A revocation that completes leaves nothing alive below its target.      *)
(* The argument is the one the code makes for marking first: under a mark  *)
(* no delegation appears, so the subtree that is found stays the subtree;  *)
(* from the leaves up, each settles because all below it have; and what    *)
(* has settled is never active again.                                      *)
(***************************************************************************)
(***************************************************************************)
(* Lineages: of the delegation itself, of an ancestor, of a root.          *)
(***************************************************************************)
LEMMA LineageSelf ==
  ASSUME NEW d \in Delegations
  PROVE  d \in Lineage(d)
BY DEF Lineage

LEMMA LineageTransitive ==
  ASSUME NEW x, NEW y \in Lineage(x), NEW z \in Lineage(y)
  PROVE  z \in Lineage(x)
BY DEF Lineage

LEMMA LineageOfRoot ==
  ASSUME NEW x \in Delegations, parent[x] = None, NEW y \in Lineage(x)
  PROVE  y = x
<1>1. {x} \in SUBSET Delegations /\ Closed({x})
  BY DEF Closed
<1> QED
  BY <1>1 DEF Lineage

LEMMA LineageFromParent ==
  ASSUME parent' = parent, NEW x
  PROVE  Lineage(x)' = Lineage(x)
BY DEF Lineage, Closed

(***************************************************************************)
(* A new delegation is in no lineage but its own, which goes on with its   *)
(* parent's.                                                               *)
(***************************************************************************)
LEMMA LineageOfOthers ==
  ASSUME TypeOK, Forest, NEW d \in Delegations, NEW p \in Delegations, ~Exists(d), p # d,
         parent' = [parent EXCEPT ![d] = p], NEW x \in Delegations, x # d
  PROVE  Lineage(x)' = Lineage(x)
<1>1. \A z \in Delegations : parent[z] # d
  BY AuthorityAssumption DEF Forest
<1>2. \A z \in Delegations : z # d => parent'[z] = parent[z]
  BY DEF TypeOK
<1>3. ASSUME NEW S \in SUBSET Delegations, Closed(S) \/ Closed(S)'
      PROVE  Closed(S \ {d}) /\ Closed(S \ {d})'
  BY <1>1, <1>2, <1>3 DEF Closed
<1>4. ASSUME NEW y \in Lineage(x)
      PROVE  y \in Lineage(x)'
  <2>1. ASSUME NEW S \in SUBSET Delegations, x \in S, Closed(S)'
        PROVE  y \in S
    <3>1. S \ {d} \in SUBSET Delegations /\ x \in S \ {d} /\ Closed(S \ {d})
      BY <1>3, <2>1
    <3> QED
      BY <3>1 DEF Lineage
  <2> QED
    BY <2>1 DEF Lineage
<1>5. ASSUME NEW y \in Lineage(x)'
      PROVE  y \in Lineage(x)
  <2>1. ASSUME NEW S \in SUBSET Delegations, x \in S, Closed(S)
        PROVE  y \in S
    <3>1. S \ {d} \in SUBSET Delegations /\ x \in S \ {d} /\ Closed(S \ {d})'
      BY <1>3, <2>1
    <3> QED
      BY <3>1 DEF Lineage
  <2> QED
    BY <2>1 DEF Lineage
<1> QED
  BY <1>4, <1>5

LEMMA LineageOfNew ==
  ASSUME TypeOK, Forest, NEW d \in Delegations, NEW p \in Delegations, ~Exists(d), p # d,
         parent' = [parent EXCEPT ![d] = p], NEW y \in Lineage(d)', y # d
  PROVE  y \in Lineage(p)
<1>1. \A z \in Delegations : z # d => parent'[z] = parent[z]
  BY DEF TypeOK
<1>2. parent'[d] = p
  BY DEF TypeOK
<1>3. ASSUME NEW S \in SUBSET Delegations, p \in S, Closed(S)
      PROVE  y \in S
  <2>1. Closed(S \cup {d})'
    BY <1>1, <1>2, <1>3 DEF Closed
  <2>2. S \cup {d} \in SUBSET Delegations
    OBVIOUS
  <2> QED
    BY <2>1, <2>2 DEF Lineage
<1> QED
  BY <1>3 DEF Lineage

-----------------------------------------------------------------------------
(***************************************************************************)
(* What no step undoes.                                                    *)
(***************************************************************************)
Monotone ==
  /\ \A x \in Delegations :
       /\ Exists(x) => Exists(x)'
       /\ Exists(x) /\ Active(x)' => Active(x)
       /\ revoking[x] => revoking'[x]
  /\ withdrawn \subseteq withdrawn'
  /\ \A t \in Delegations : Exists(t) /\ RevocationInProgress(t)
                              => Descendants(t)' = Descendants(t)

\* A step that opens no delegation.
Quiet ==
  /\ parent' = parent
  /\ withdrawn \subseteq withdrawn'
  /\ \A x \in Delegations :
       /\ Exists(x)' <=> Exists(x)
       /\ Active(x)' => Active(x)
       /\ revoking[x] => revoking'[x]

LEMMA QuietIsMonotone ==
  ASSUME Quiet
  PROVE  Monotone
<1>1. ASSUME NEW t \in Delegations
      PROVE  Descendants(t)' = Descendants(t)
  <2>1. \A x \in Delegations : Lineage(x)' = Lineage(x)
    BY LineageFromParent DEF Quiet
  <2> QED
    BY <2>1 DEF Quiet, Descendants
<1> QED
  BY <1>1 DEF Quiet, Monotone

LEMMA CreateRootIsMonotone ==
  ASSUME IInv, NEW d \in Delegations, NEW e, NEW n, CreateRoot(d, e, n)
  PROVE  Monotone
<1> USE DEF IInv, TypeOK, CreateRoot, Exists, Active
<1>1. parent[d] = None
  BY DEF Forest
<1>2. ASSUME NEW t \in Delegations, Exists(t)
      PROVE  Descendants(t)' = Descendants(t)
  <2>1. \A x \in Delegations : Lineage(x)' = Lineage(x)
    BY LineageFromParent
  <2>2. t # d /\ t \notin Lineage(d)
    BY <1>1, <1>2, LineageOfRoot
  <2> QED
    BY <2>1, <2>2 DEF Descendants
<1> QED
  BY <1>2 DEF Monotone

LEMMA ReserveIsMonotone ==
  ASSUME IInv, NEW d \in Delegations, NEW p \in Delegations, NEW e, NEW n, Reserve(d, p, e, n)
  PROVE  Monotone
<1>1. TypeOK /\ Forest /\ ~Exists(d) /\ p # d /\ parent' = [parent EXCEPT ![d] = p]
  BY DEF IInv, Reserve
<1>2. ASSUME NEW t \in Delegations, Exists(t), RevocationInProgress(t)
      PROVE  Descendants(t)' = Descendants(t)
  <2>1. \A x \in Delegations : x # d => Lineage(x)' = Lineage(x)
    BY <1>1, LineageOfOthers
  <2>2. t # d
    BY <1>1, <1>2
  <2>3. t \notin Lineage(d)'
    <3>1. SUFFICES ASSUME t \in Lineage(p)
                   PROVE  FALSE
      BY <1>1, <2>2, LineageOfNew
    <3>2. PICK x \in Lineage(t) : revoking[x]
      BY <1>2 DEF RevocationInProgress
    <3>3. x \in Lineage(p)
      BY <3>1, <3>2, LineageTransitive
    <3> QED
      BY <3>2, <3>3 DEF Reserve, RevocationInProgress
  <2>4. \A x \in Delegations : x # d => (Exists(x)' <=> Exists(x))
    BY <1>1 DEF Reserve, TypeOK, Exists
  <2> QED
    BY <1>1, <2>1, <2>3, <2>4 DEF Descendants
<1>3. /\ \A x \in Delegations : /\ Exists(x) => Exists(x)'
                                /\ Exists(x) /\ Active(x)' => Active(x)
                                /\ revoking[x] => revoking'[x]
      /\ withdrawn' = withdrawn
  BY <1>1 DEF Reserve, TypeOK, Exists, Active
<1> QED
  BY <1>2, <1>3 DEF Monotone

LEMMA SettledIsQuiet ==
  ASSUME TypeOK, NEW d \in Delegations, NEW e, NEW o, MaySettle(d), Settled(d, e, o)
  PROVE  Quiet
BY DEF TypeOK, MaySettle, Settled, Quiet, Exists, Active

LEMMA MonotoneStep ==
  ASSUME IInv, [Next]_vars
  PROVE  Monotone
<1>0. TypeOK /\ HasCurrent
  BY DEF IInv
<1>1. ASSUME NEW d \in Delegations, NEW e \in Events, NEW n \in Amounts, CreateRoot(d, e, n)
      PROVE  Monotone
  BY <1>1, CreateRootIsMonotone
<1>2. ASSUME NEW d \in Delegations, NEW p \in Delegations, NEW e \in Events, NEW n \in Amounts,
             Reserve(d, p, e, n)
      PROVE  Monotone
  BY <1>2, ReserveIsMonotone
<1>3. ASSUME NEW d \in Delegations, NEW e \in Events, NEW n \in Amounts, Grant(d, e, n)
      PROVE  Quiet
  BY <1>3 DEF Grant, Quiet, Exists, Active
<1>4. ASSUME NEW d \in Delegations, NEW e \in Events, NEW n \in Amounts \cup {Unknown},
             Consume(d, e, n)
      PROVE  Quiet
  BY <1>4 DEF Consume, Quiet, Exists, Active
<1>5. ASSUME NEW d \in Delegations, NEW e \in Events, NEW o \in Outcomes, Settle(d, e, o)
      PROVE  Quiet
  BY <1>0, <1>5, SettledIsQuiet DEF Settle
<1>6. ASSUME NEW v \in Revokes, SettleCurrent(v)
      PROVE  Quiet
  <2>1. CASE MaySettle(current[v]) /\ Settled(current[v], Internal, Outcome[v])
    BY <1>0, <1>6, <2>1, SettledIsQuiet DEF SettleCurrent, HasCurrent
  <2>2. CASE UNCHANGED <<rows, log, withdrawn>>
    BY <2>2 DEF rows, Quiet, Exists, Active
  <2> QED
    BY <1>6, <2>1, <2>2 DEF SettleCurrent
<1>7. ASSUME NEW v \in Revokes, NEW d \in Delegations, MarkRevocationStarted(v, d)
      PROVE  Quiet
  BY <1>0, <1>7 DEF TypeOK, MarkRevocationStarted, Quiet, Exists, Active
<1>8. ASSUME NEW v \in Revokes,
             \/ \E d \in Delegations : LookAt(v, d)
             \/ FindSubtree(v) \/ RevokeTokens(v) \/ Crash(v)
      PROVE  Quiet
  BY <1>8 DEF LookAt, FindSubtree, RevokeTokens, Crash, rows, Quiet, Exists, Active
<1>9. CASE UNCHANGED vars
  BY <1>9, QuietIsMonotone DEF vars, rows, Quiet, Exists, Active
<1> QED
  BY <1>1, <1>2, <1>3, <1>4, <1>5, <1>6, <1>7, <1>8, <1>9, QuietIsMonotone DEF Next, Proceed

-----------------------------------------------------------------------------
(***************************************************************************)
(* The invariant of a revocation: the subtree it found is the subtree; all *)
(* of it that is no longer to do is settled, except what it settles next,  *)
(* which has nothing to do below it.                                       *)
(***************************************************************************)
Below(d) == {d} \cup Descendants(d)

Handled(v) == subtree[v] \ (todo[v] \cup (IF pc[v] = "settling" THEN {current[v]} ELSE {}))

TeardownAt(v) ==
  /\ pc[v] # "idle" => Exists(target[v]) /\ revoking[target[v]]
  /\ pc[v] \in {"looking", "settling", "done"} => subtree[v] = Below(target[v])
  /\ pc[v] \in {"looking", "settling"} => /\ todo[v] \subseteq subtree[v]
                                          /\ \A x \in Handled(v) : ~Active(x)
  /\ pc[v] = "settling" => /\ current[v] \in subtree[v]
                           /\ Descendants(current[v]) \cap todo[v] = {}
  /\ pc[v] = "done" => \A x \in subtree[v] : ~Active(x) /\ x \in withdrawn

Teardown == \A v \in Revokes : TeardownAt(v)

\* Only a settled delegation has the event of a revocation.
SettledByRevocation == \A d \in Delegations : ~New(d, Internal) => Exists(d) /\ ~Active(d)

RInv == IInv /\ Teardown /\ SettledByRevocation

(***************************************************************************)
(* All below a member of the subtree is in the subtree, and under the mark *)
(* that stays so.                                                          *)
(***************************************************************************)
LEMMA BelowIsClosed ==
  ASSUME NEW t \in Delegations, Exists(t), NEW d \in Below(t), NEW x \in Descendants(d)
  PROVE  x \in Below(t)
<1>1. x \in Delegations /\ Exists(x) /\ d \in Lineage(x)
  BY DEF Descendants
<1>2. d \in Delegations /\ t \in Lineage(d)
  BY LineageSelf DEF Below, Descendants
<1>3. t \in Lineage(x)
  BY <1>1, <1>2, LineageTransitive
<1> QED
  BY <1>1, <1>3 DEF Below, Descendants

LEMMA BelowMark ==
  ASSUME NEW t \in Delegations, Exists(t), revoking[t], NEW d \in Below(t)
  PROVE  d \in Delegations /\ Exists(d) /\ RevocationInProgress(d)
<1>1. d \in Delegations /\ Exists(d) /\ t \in Lineage(d)
  BY LineageSelf DEF Below, Descendants
<1> QED
  BY <1>1 DEF RevocationInProgress

(***************************************************************************)
(* The steps of others do not disturb a revocation.                        *)
(***************************************************************************)
LEMMA Undisturbed ==
  ASSUME IInv, Monotone, NEW v \in Revokes, TeardownAt(v),
         pc'[v] = pc[v], target'[v] = target[v], subtree'[v] = subtree[v], todo'[v] = todo[v],
         current'[v] = current[v]
  PROVE  TeardownAt(v)'
<1>0. CASE pc[v] = "idle"
  BY <1>0 DEF TeardownAt
<1>1. CASE pc[v] # "idle"
  <2> DEFINE t == target[v]
  <2>1. t \in Delegations /\ Exists(t) /\ revoking[t]
    BY <1>1 DEF IInv, HasCurrent, TeardownAt
  <2>2. Exists(t)' /\ revoking'[t] /\ Below(t)' = Below(t)
    BY <2>1, BelowMark DEF Monotone, Below
  <2>3. ASSUME NEW d \in Below(t)
        PROVE  /\ d \in Delegations /\ Descendants(d)' = Descendants(d)
               /\ ~Active(d) => ~Active(d)'
               /\ d \in withdrawn => d \in withdrawn'
    BY <2>1, <2>3, BelowMark DEF Monotone
  <2>4. Handled(v)' = Handled(v) /\ Handled(v) \subseteq subtree[v]
    BY DEF Handled
  <2>5. Exists(target[v])' /\ revoking'[target'[v]]
    BY <2>2 DEF Exists
  <2>6. pc[v] \in {"looking", "settling", "done"} => subtree'[v] = Below(target[v])'
    BY <2>2 DEF TeardownAt, Below
  <2>7. pc[v] \in {"looking", "settling"} => /\ todo'[v] \subseteq subtree'[v]
                                             /\ \A x \in Handled(v)' : ~Active(x)'
    BY <2>3, <2>4 DEF TeardownAt
  <2>8. pc[v] = "settling" => /\ current'[v] \in subtree'[v]
                              /\ Descendants(current[v])' \cap todo'[v] = {}
    BY <2>3 DEF TeardownAt, Descendants, Lineage, Closed, Exists
  <2>9. pc[v] = "done" => \A x \in subtree'[v] : ~Active(x)' /\ x \in withdrawn'
    BY <2>3 DEF TeardownAt
  <2> HIDE DEF t
  <2> QED
    BY <2>5, <2>6, <2>7, <2>8, <2>9 DEF TeardownAt
<1> QED
  BY <1>0, <1>1

(***************************************************************************)
(* The steps of a revocation keep its own invariant.                       *)
(***************************************************************************)
LEMMA MarkStep ==
  ASSUME RInv, NEW v \in Revokes, NEW d \in Delegations, MarkRevocationStarted(v, d)
  PROVE  TeardownAt(v)'
<1>1. Exists(d)
  BY DEF MarkRevocationStarted, RInv, Teardown, TeardownAt
<1>2. pc'[v] = "marked" /\ target'[v] = d /\ revoking'[d] /\ Exists(d)'
  BY <1>1 DEF MarkRevocationStarted, Goto, RInv, IInv, TypeOK, Exists
<1> QED
  BY <1>2 DEF TeardownAt, Exists

LEMMA FindStep ==
  ASSUME RInv, NEW v \in Revokes, FindSubtree(v)
  PROVE  TeardownAt(v)'
<1>1. Exists(target[v]) /\ revoking[target[v]]
  BY DEF FindSubtree, RInv, Teardown, TeardownAt
<1>2. /\ pc'[v] = "looking" /\ target' = target /\ rows' = rows
      /\ subtree'[v] = Below(target[v]) /\ todo'[v] = subtree'[v]
  BY DEF FindSubtree, Goto, Below, RInv, IInv, TypeOK
<1>3. Exists(target[v])' /\ revoking'[target[v]]
  BY <1>1, <1>2 DEF rows, Exists
<1>4. Below(target[v])' = Below(target[v])
  BY <1>2 DEF rows, Below, Descendants, Lineage, Closed, Exists
<1>5. Handled(v)' = {}
  BY <1>2 DEF Handled
<1> QED
  BY <1>2, <1>3, <1>4, <1>5 DEF TeardownAt, Exists

LEMMA LookStep ==
  ASSUME RInv, NEW v \in Revokes, NEW d \in Delegations, LookAt(v, d)
  PROVE  TeardownAt(v)'
<1> USE DEF LookAt, IsNext, NeedsSettlement, Goto
<1>1. /\ Exists(target[v]) /\ revoking[target[v]]
      /\ subtree[v] = Below(target[v])
      /\ todo[v] \subseteq subtree[v]
      /\ \A x \in subtree[v] \ todo[v] : ~Active(x)
      /\ d \in todo[v] /\ Descendants(d) \cap todo[v] = {}
  BY DEF RInv, Teardown, TeardownAt, Handled
<1>2. /\ target' = target /\ subtree' = subtree /\ rows' = rows /\ withdrawn' = withdrawn
      /\ todo'[v] = todo[v] \ {d}
  BY DEF RInv, IInv, TypeOK
<1>3. /\ Exists(target[v])' /\ revoking'[target[v]]
      /\ Below(target[v])' = Below(target[v])
      /\ Descendants(d)' = Descendants(d)
      /\ \A x : Active(x)' <=> Active(x)
  BY <1>1, <1>2 DEF rows, Below, Descendants, Lineage, Closed, Exists, Active
<1>4. CASE Active(d)
  <2>1. pc'[v] = "settling" /\ current'[v] = d
    BY <1>4 DEF RInv, IInv, TypeOK
  <2>2. Handled(v)' \subseteq subtree[v] \ todo[v]
    BY <1>2, <2>1 DEF Handled
  <2>3. Descendants(current[v])' = Descendants(d)
    BY <1>3, <2>1 DEF Descendants
  <2> QED
    BY <1>1, <1>2, <1>3, <2>1, <2>2, <2>3 DEF TeardownAt, Exists
<1>5. CASE ~Active(d)
  <2>1. pc'[v] = "looking"
    BY <1>5
  <2>2. Handled(v)' = subtree[v] \ (todo[v] \ {d})
    BY <1>2, <2>1 DEF Handled
  <2> QED
    BY <1>1, <1>2, <1>3, <1>5, <2>1, <2>2 DEF TeardownAt, Exists
<1> QED
  BY <1>4, <1>5

LEMMA SettleStep ==
  ASSUME RInv, Monotone, NEW v \in Revokes, SettleCurrent(v)
  PROVE  TeardownAt(v)'
<1> DEFINE t == target[v]
           c == current[v]
<1>1. /\ t \in Delegations /\ Exists(t) /\ revoking[t] /\ subtree[v] = Below(t)
      /\ todo[v] \subseteq subtree[v]
      /\ \A x \in subtree[v] \ (todo[v] \cup {c}) : ~Active(x)
      /\ c \in subtree[v] /\ Descendants(c) \cap todo[v] = {}
  BY DEF SettleCurrent, RInv, IInv, HasCurrent, Teardown, TeardownAt, Handled
<1>2. target' = target /\ subtree' = subtree /\ todo' = todo
  BY DEF SettleCurrent
<1>3. \A x \in Below(t) : x \in Delegations /\ Exists(x) /\ RevocationInProgress(x)
  BY <1>1, BelowMark
<1>4. pc'[v] \in {"failed", "looking"}
  BY DEF SettleCurrent, Goto, RInv, IInv, TypeOK
<1>5. current' = current
  BY DEF SettleCurrent
<1>6. ~Active(c)'
  <2>1. CASE New(c, Internal) /\ MaySettle(c)
    BY <1>1, <1>3, <2>1 DEF SettleCurrent, Settled, RInv, IInv, TypeOK, Active
  <2>2. CASE ~New(c, Internal)
    BY <1>1, <1>3, <1>5, <2>2 DEF RInv, SettledByRevocation, Monotone, Active
  <2>3. CASE New(c, Internal) /\ ~MaySettle(c)
    <3>1. \A x \in Descendants(c) : ~Active(x)
      <4>1. ASSUME NEW x \in Descendants(c)
            PROVE  x \in subtree[v] /\ x \notin todo[v] /\ x # c
        BY <1>1, <4>1, BelowIsClosed DEF Descendants
      <4> QED
        BY <1>1, <4>1
    <3>2. ~Active(c)
      BY <2>3, <3>1 DEF MaySettle
    <3> QED
      BY <1>1, <1>3, <1>5, <3>2 DEF Monotone, Active
  <2> QED
    BY <2>1, <2>2, <2>3
<1>7. \A x \in subtree[v] \ todo[v] : ~Active(x)'
  BY <1>1, <1>3, <1>6, <1>5 DEF Monotone, Active
<1>8. pc'[v] = "looking" => Handled(v)' = subtree[v] \ todo[v]
  BY <1>2 DEF Handled
<1>9. Exists(target[v])' /\ revoking'[target'[v]] /\ Below(target[v])' = Below(target[v])
  BY <1>1, <1>2, <1>3 DEF Monotone, Exists, Below, Descendants
<1> QED
  BY <1>1, <1>2, <1>4, <1>7, <1>8, <1>9 DEF TeardownAt

LEMMA RevokeTokensStep ==
  ASSUME RInv, NEW v \in Revokes, RevokeTokens(v)
  PROVE  TeardownAt(v)'
<1>1. /\ Exists(target[v]) /\ revoking[target[v]] /\ subtree[v] = Below(target[v])
      /\ \A x \in subtree[v] : ~Active(x)
  BY DEF RevokeTokens, RInv, Teardown, TeardownAt, Handled
<1>2. /\ pc'[v] = "done" /\ target' = target /\ subtree' = subtree /\ rows' = rows
      /\ subtree[v] \subseteq withdrawn'
  BY DEF RevokeTokens, Goto, RInv, IInv, TypeOK
<1>3. /\ Exists(target[v])' /\ revoking'[target[v]] /\ Below(target[v])' = Below(target[v])
      /\ \A x : Active(x)' <=> Active(x)
  BY <1>1, <1>2 DEF rows, Below, Descendants, Lineage, Closed, Exists, Active
<1> QED
  BY <1>1, <1>2, <1>3 DEF TeardownAt, Exists

LEMMA CrashStep ==
  ASSUME RInv, NEW v \in Revokes, Crash(v)
  PROVE  TeardownAt(v)'
<1>1. Exists(target[v]) /\ revoking[target[v]]
  BY DEF Crash, RInv, Teardown, TeardownAt
<1>2. pc'[v] = "failed" /\ target' = target /\ rows' = rows
  BY DEF Crash, Goto, RInv, IInv, TypeOK
<1> QED
  BY <1>1, <1>2 DEF TeardownAt, rows, Exists

(***************************************************************************)
(* A step is of one revocation, which the above is about, or of none; the  *)
(* others are undisturbed.                                                 *)
(***************************************************************************)
StepOf(v) ==
  \/ \E d \in Delegations : MarkRevocationStarted(v, d)
  \/ Proceed(v)
  \/ Crash(v)

LEMMA TeardownStep ==
  ASSUME RInv, [Next]_vars
  PROVE  Teardown'
<1>0. Monotone /\ IInv /\ TypeOK
  BY MonotoneStep DEF RInv, IInv
<1>1. ASSUME NEW v \in Revokes, StepOf(v), NEW w \in Revokes
      PROVE  TeardownAt(w)'
  <2>1. CASE w = v
    BY <1>0, <1>1, <2>1, MarkStep, FindStep, LookStep, SettleStep, RevokeTokensStep, CrashStep
    DEF StepOf, Proceed
  <2>2. CASE w # v
    <3>1. /\ pc'[w] = pc[w] /\ target'[w] = target[w] /\ subtree'[w] = subtree[w]
          /\ todo'[w] = todo[w] /\ current'[w] = current[w]
      <4>1. CASE \E d \in Delegations : MarkRevocationStarted(v, d)
        BY <1>0, <2>2, <4>1 DEF MarkRevocationStarted, Goto, TypeOK
      <4>2. CASE FindSubtree(v)
        BY <1>0, <2>2, <4>2 DEF FindSubtree, Goto, TypeOK
      <4>3. CASE \E d \in Delegations : LookAt(v, d)
        BY <1>0, <2>2, <4>3 DEF LookAt, Goto, TypeOK
      <4>4. CASE SettleCurrent(v)
        BY <1>0, <2>2, <4>4 DEF SettleCurrent, Goto, TypeOK
      <4>5. CASE RevokeTokens(v)
        BY <1>0, <2>2, <4>5 DEF RevokeTokens, Goto, TypeOK
      <4>6. CASE Crash(v)
        BY <1>0, <2>2, <4>6 DEF Crash, Goto, TypeOK
      <4> QED
        BY <1>1, <4>1, <4>2, <4>3, <4>4, <4>5, <4>6 DEF StepOf, Proceed
    <3> QED
      BY <1>0, <3>1, Undisturbed DEF RInv, Teardown
  <2> QED
    BY <2>1, <2>2
<1>2. ASSUME UNCHANGED job, NEW w \in Revokes
      PROVE  TeardownAt(w)'
  BY <1>0, <1>2, Undisturbed DEF job, RInv, Teardown
<1>3. UNCHANGED job \/ \E v \in Revokes : StepOf(v)
  BY ZenonT(60) DEF Next, StepOf, CreateRoot, Reserve, Grant, Consume, Settle, vars
<1> QED
  BY <1>1, <1>2, <1>3 DEF Teardown

LEMMA SettledByRevocationStep ==
  ASSUME RInv, [Next]_vars
  PROVE  SettledByRevocation'
<1>0. Monotone /\ TypeOK /\ HasCurrent
  BY MonotoneStep DEF RInv, IInv
<1>1. ASSUME NEW d \in Delegations, log'[d][Internal] = log[d][Internal], ~New(d, Internal)'
      PROVE  Exists(d)' /\ ~Active(d)'
  BY <1>0, <1>1 DEF RInv, SettledByRevocation, New, Monotone
<1>2. ASSUME NEW x \in Delegations, NEW e \in Events, NEW request, Record(x, e, request),
             NEW d \in Delegations
      PROVE  log'[d][Internal] = log[d][Internal]
  BY <1>0, <1>2, AuthorityAssumption DEF Record, TypeOK, EventIds
<1>3. ASSUME NEW v \in Revokes, Settled(current[v], Internal, Outcome[v]), SettleCurrent(v),
             NEW d \in Delegations, ~New(d, Internal)'
      PROVE  Exists(d)' /\ ~Active(d)'
  <2>1. CASE d = current[v]
    BY <1>0, <1>3, <2>1 DEF Settled, TypeOK, Exists, Active
  <2>2. CASE d # current[v]
    <3>1. log'[d][Internal] = log[d][Internal]
      BY <1>0, <1>3, <2>2 DEF Settled, Record, TypeOK
    <3> QED
      BY <1>1, <1>3, <3>1
  <2> QED
    BY <2>1, <2>2
<1>4. CASE \E x \in Delegations, e \in Events : \E request : Record(x, e, request)
  BY <1>1, <1>2, <1>4 DEF SettledByRevocation
<1>5. CASE UNCHANGED log
  BY <1>1, <1>5 DEF SettledByRevocation
<1>6. CASE \E v \in Revokes : SettleCurrent(v) /\ Settled(current[v], Internal, Outcome[v])
  BY <1>3, <1>6 DEF SettledByRevocation
<1>7. ASSUME Next
      PROVE  \/ \E x \in Delegations, e \in Events : \E request : Record(x, e, request)
             \/ UNCHANGED log
             \/ \E v \in Revokes : SettleCurrent(v) /\ Settled(current[v], Internal, Outcome[v])
  <2>1. CASE \E d \in Delegations, e \in Events, n \in Amounts : CreateRoot(d, e, n)
    BY <2>1 DEF CreateRoot
  <2>2. CASE \E d, p \in Delegations, e \in Events, n \in Amounts : Reserve(d, p, e, n)
    BY <2>2 DEF Reserve
  <2>3. CASE \E d \in Delegations, e \in Events, n \in Amounts : Grant(d, e, n)
    BY <2>3 DEF Grant
  <2>4. CASE \E d \in Delegations, e \in Events, n \in Amounts \cup {Unknown} : Consume(d, e, n)
    BY <2>4 DEF Consume
  <2>5. CASE \E d \in Delegations, e \in Events, o \in Outcomes : Settle(d, e, o)
    BY <2>5 DEF Settle, Settled
  <2>6. CASE \E v \in Revokes : StepOf(v)
    BY <2>6 DEF StepOf, Proceed, MarkRevocationStarted, FindSubtree, LookAt, SettleCurrent,
                RevokeTokens, Crash
  <2> QED
    BY <1>7, <2>1, <2>2, <2>3, <2>4, <2>5, <2>6 DEF Next, StepOf
<1> QED
  BY <1>4, <1>5, <1>6, <1>7 DEF vars

(***************************************************************************)
(* A revocation that is complete leaves nothing active at or below its     *)
(* target, now or later, and has passed over the credentials of none of    *)
(* the delegations there.                                                  *)
(***************************************************************************)
THEOREM RevocationLeavesNothing == Spec => []RevokedIsDead
<1>1. Init => Teardown /\ SettledByRevocation
  BY DEF Init, Teardown, TeardownAt, SettledByRevocation, New, EventIds
<1>2. RInv /\ [Next]_vars => Teardown' /\ SettledByRevocation'
  BY TeardownStep, SettledByRevocationStep
<1>3. RInv => RevokedIsDead
  BY DEF RInv, Teardown, TeardownAt, Below, RevokedIsDead
<1> QED
  BY <1>1, <1>2, <1>3, IInvHolds, PTL DEF Spec, RInv
=============================================================================
