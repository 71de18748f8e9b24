---------------------------- MODULE LedgerProofs ----------------------------
(***************************************************************************)
(* A ledger is balanced, for any sets of holders and accounts.  Lease      *)
(* instantiates these theorems for its two counters.                       *)
(***************************************************************************)
EXTENDS Ledger, FiniteSetTheorems, TLAPS

\* n units of one holder are n elements.
LEMMA UnitsOfOne ==
    ASSUME NEW h, NEW n \in Nat
    PROVE  /\ IsFiniteSet({h} \X (1 .. n))
           /\ Cardinality({h} \X (1 .. n)) = n
<1>1. IsFiniteSet({h}) /\ Cardinality({h}) = 1
    BY FS_Singleton
<1>2. IsFiniteSet(1 .. n) /\ Cardinality(1 .. n) = n
    BY FS_Interval
<1>3. /\ IsFiniteSet({h} \X (1 .. n))
      /\ Cardinality({h} \X (1 .. n)) = Cardinality({h}) * Cardinality(1 .. n)
    BY <1>1, <1>2, FS_Product, Zenon
<1>4. 1 * n = n
    OBVIOUS
<1> QED
    BY <1>1, <1>2, <1>3, <1>4, Zenon

\* When one holder's deposit with an account changes and no other does, the
\* sum of the deposits changes by the same amount.
LEMMA UnitsMove ==
    ASSUME NEW d \in [Holders -> [Accounts -> Nat]],
           NEW e \in [Holders -> [Accounts -> Nat]],
           NEW h \in Holders, NEW a \in Accounts,
           \A x \in Holders \ {h} : e[x][a] = d[x][a],
           IsFiniteSet(Units(d, a))
    PROVE  /\ IsFiniteSet(Units(e, a))
           /\ Cardinality(Units(e, a)) =
                Cardinality(Units(d, a)) + e[h][a] - d[h][a]
<1> DEFINE Rest == UNION {{x} \X (1 .. d[x][a]) : x \in Holders \ {h}}
           D == {h} \X (1 .. d[h][a])
           E == {h} \X (1 .. e[h][a])
<1>1. Units(d, a) = Rest \cup D /\ Rest \cap D = {}
    BY DEF Units
<1>2. Units(e, a) = Rest \cup E /\ Rest \cap E = {}
    BY DEF Units
<1>3. IsFiniteSet(Rest)
    BY <1>1, FS_Subset
<1>0. d[h][a] \in Nat /\ e[h][a] \in Nat
    OBVIOUS
<1>4. IsFiniteSet(D) /\ Cardinality(D) = d[h][a]
    BY <1>0, UnitsOfOne, Zenon
<1>5. IsFiniteSet(E) /\ Cardinality(E) = e[h][a]
    BY <1>0, UnitsOfOne, Zenon
<1>6. Cardinality(Rest) \in Nat
    BY <1>3, FS_CardinalityType
<1> HIDE DEF Rest, D, E
<1>7. /\ IsFiniteSet(Rest \cup D)
      /\ Cardinality(Rest \cup D) = Cardinality(Rest) + d[h][a]
    <2>1. /\ IsFiniteSet(Rest \cup D)
          /\ Cardinality(Rest \cup D) =
               Cardinality(Rest) + Cardinality(D) - Cardinality(Rest \cap D)
        BY <1>3, <1>4, FS_Union, Zenon
    <2>2. Cardinality(Rest \cap D) = 0
        BY <1>1, FS_EmptySet
    <2> QED
        BY <1>4, <1>6, <2>1, <2>2
<1>8. /\ IsFiniteSet(Rest \cup E)
      /\ Cardinality(Rest \cup E) = Cardinality(Rest) + e[h][a]
    <2>1. /\ IsFiniteSet(Rest \cup E)
          /\ Cardinality(Rest \cup E) =
               Cardinality(Rest) + Cardinality(E) - Cardinality(Rest \cap E)
        BY <1>3, <1>5, FS_Union, Zenon
    <2>2. Cardinality(Rest \cap E) = 0
        BY <1>2, FS_EmptySet
    <2> QED
        BY <1>5, <1>6, <2>1, <2>2
<1> QED
    BY <1>1, <1>2, <1>6, <1>7, <1>8

-----------------------------------------------------------------------------

\* Balanced, with the finiteness that makes the cardinalities mean anything.
IInv ==
    /\ TypeOK
    /\ Balanced
    /\ \A a \in Accounts : IsFiniteSet(Units(held, a))

LEMMA InitIInv == Init => IInv
<1> SUFFICES ASSUME Init PROVE IInv
    OBVIOUS
<1>1. TypeOK
    BY DEF Init, TypeOK
<1>2. \A a \in Accounts : Units(held, a) = {}
    BY DEF Init, Units
<1> QED
    BY <1>1, <1>2, FS_EmptySet DEF Init, IInv, Balanced

\* A single move keeps every account balanced.
LEMMA MoveIInv ==
    ASSUME IInv, NEW h \in Holders, NEW a \in Accounts, Move(h, a)
    PROVE  IInv'
<1>1. /\ held' \in [Holders -> [Accounts -> Nat]]
      /\ \A x \in Holders, b \in Accounts :
            x # h \/ b # a => held'[x][b] = held[x][b]
    <2>1. held \in [Holders -> [Accounts -> Nat]] /\ held'[h][a] \in Nat
        BY DEF IInv, TypeOK, Move
    <2> DEFINE n == held'[h][a]
    <2>2. held' = [held EXCEPT ![h] = [@ EXCEPT ![a] = n]]
        BY DEF Move
    <2> HIDE DEF n
    <2>3. n \in Nat
        BY <2>1 DEF n
    <2> QED
        BY <2>1, <2>2, <2>3
<1>2. ASSUME NEW b \in Accounts
      PROVE  /\ IsFiniteSet(Units(held', b))
             /\ Cardinality(Units(held', b)) =
                  Cardinality(Units(held, b)) + held'[h][b] - held[h][b]
    <2>1. /\ held \in [Holders -> [Accounts -> Nat]]
          /\ \A x \in Holders \ {h} : held'[x][b] = held[x][b]
          /\ IsFiniteSet(Units(held, b))
        BY <1>1 DEF IInv, TypeOK
    <2> QED
        BY <1>1, <2>1, UnitsMove, Zenon
<1>3. \A b \in Accounts : Cardinality(Units(held', b)) \in Nat
    BY <1>2, FS_CardinalityType
<1>4. ASSUME NEW b \in Accounts
      PROVE  total'[b] = Cardinality(Units(held', b))
    <2>1. held[h][b] \in Nat /\ held'[h][b] \in Nat /\ total[b] \in Nat
        BY <1>1 DEF IInv, TypeOK
    <2>2. CASE b = a
        BY <1>2, <2>1, <2>2 DEF IInv, TypeOK, Balanced, Move
    <2>3. CASE b # a
        BY <1>1, <1>2, <2>1, <2>3 DEF IInv, TypeOK, Balanced, Move
    <2> QED
        BY <2>2, <2>3
<1>5. total' \in [Accounts -> Nat]
    BY <1>3, <1>4 DEF IInv, TypeOK, Move
<1> QED
    BY <1>1, <1>2, <1>4, <1>5 DEF IInv, TypeOK, Balanced

LEMMA NextIInv == IInv /\ [Next]_vars => IInv'
<1> SUFFICES ASSUME IInv, [Next]_vars PROVE IInv'
    OBVIOUS
<1>1. CASE Next
    BY <1>1, MoveIInv DEF Next, Charge, Refund
<1>2. CASE UNCHANGED vars
    BY <1>2 DEF vars, IInv, TypeOK, Balanced
<1> QED
    BY <1>1, <1>2

\* Every total is the sum of the deposits, in every reachable state: IInv
\* contains TypeOK and Balanced.
THEOREM LedgerBalanced == Spec => []IInv
<1> QED
    BY InitIInv, NextIInv, PTL DEF Spec

\* A total is zero exactly when nobody has a deposit with the account.
LEMMA ZeroTotal ==
    ASSUME IInv, NEW a \in Accounts
    PROVE  total[a] = 0 <=> \A h \in Holders : held[h][a] = 0
<1> DEFINE U == Units(held, a)
<1>1. total[a] = Cardinality(U) /\ IsFiniteSet(U)
    BY DEF IInv, Balanced
<1>2. Cardinality(U) = 0 <=> U = {}
    BY <1>1, FS_EmptySet
<1>3. ASSUME U = {}, NEW h \in Holders
      PROVE  held[h][a] = 0
    <2>1. held[h][a] \in Nat
        BY DEF IInv, TypeOK
    <2>2. ASSUME NEW i \in 1 .. held[h][a]
          PROVE  FALSE
        <3>1. <<h, i>> \in {h} \X (1 .. held[h][a])
            OBVIOUS
        <3>2. <<h, i>> \in U
            BY <3>1, Zenon DEF Units
        <3> QED
            BY <1>3, <3>2
    <2>3. held[h][a] # 0 => 1 \in 1 .. held[h][a]
        BY <2>1
    <2> QED
        BY <2>2, <2>3
<1>4. ASSUME \A h \in Holders : held[h][a] = 0
      PROVE  U = {}
    BY <1>4 DEF Units
<1> QED
    BY <1>1, <1>2, <1>3, <1>4

\* A holder's deposits stay with one account.
THEOREM LedgerOneAccount == Spec => []OneAccount
<1>1. Init => OneAccount
    BY DEF Init, OneAccount
<1>2. TypeOK /\ OneAccount /\ [Next]_vars => OneAccount'
    <2> SUFFICES ASSUME TypeOK, OneAccount, [Next]_vars PROVE OneAccount'
        OBVIOUS
    <2>1. CASE UNCHANGED vars
        BY <2>1 DEF OneAccount, vars
    <2>2. ASSUME NEW h \in Holders, NEW a \in Accounts, Charge(h, a) \/ Refund(h, a)
          PROVE  OneAccount'
        <3>1. /\ held \in [Holders -> [Accounts -> Nat]] /\ held'[h][a] \in Nat
              /\ held' = [held EXCEPT ![h] = [@ EXCEPT ![a] = held'[h][a]]]
            BY <2>2 DEF TypeOK, Charge, Refund, Move
        <3>2. \A x \in Holders, b \in Accounts :
                  x # h \/ b # a => held'[x][b] = held[x][b]
            BY <3>1
        <3>3. held'[h][a] > 0 => \A x \in Accounts \ {a} : held[h][x] = 0
            BY <2>2 DEF Charge, Refund
        <3> QED
            BY <3>1, <3>2, <3>3 DEF OneAccount
    <2> QED
        BY <2>1, <2>2 DEF Next
<1>3. IInv => TypeOK
    BY DEF IInv
<1> QED
    BY <1>1, <1>2, <1>3, LedgerBalanced, PTL DEF Spec
=============================================================================
