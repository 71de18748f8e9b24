---------------------------- MODULE InboundProofs ----------------------------
(***************************************************************************)
(* The estimates of a route lie between the lengths it has observed, for   *)
(* any bodies, routes and lengths and any positive half-life, in whatever  *)
(* order observations are applied; so do the answers, after rounding.  An  *)
(* answer is a u32 and at least 1 for any half-life.                       *)
(*                                                                         *)
(* And for any requests: what is dispatched has a prompt counted like the  *)
(* texts joined, asks for the usage the estimates are learned from, and    *)
(* tells the length of its own body.  Counting goes text by text; the      *)
(* lemmas about running totals compare the sum of the counts with the      *)
(* count of the sum.                                                       *)
(***************************************************************************)
EXTENDS Inbound, FiniteSetTheorems, WellFoundedInduction, TLAPS

Observation == [route : Routes, value : Lengths, now : 0 .. MaxTime]

\* The fraction q lies between two of the lengths in S.
Between(q, S) ==
    /\ q.den > 0
    /\ \E lo \in S : lo * q.den =< q.num
    /\ \E hi \in S : q.num =< hi * q.den

TypesOK ==
    /\ clock \in 0 .. MaxTime
    /\ taking \in [Bodies -> Observation \cup {None}]
    /\ hist \in [Routes -> Quantile \cup {None}]
    /\ seen \in [Routes -> SUBSET Lengths]

AnswerOK ==
    answer # None =>
        /\ answer.route \in Routes
        /\ answer.value \in 1 .. Width - 1
        /\ DecayIsShrinking /\ answer.asked = None /\ answer.value # Default =>
             /\ \E lo \in seen[answer.route] : lo =< answer.value
             /\ \E hi \in seen[answer.route] : answer.value =< hi

WithinOK == DecayIsShrinking => EstimateWithinObserved

EstimatorIInv == TypesOK /\ WithinOK /\ AnswerOK

-----------------------------------------------------------------------------
\* Arithmetic: products keep an order, and a bound on a fraction is one on its
\* quotient.
LEMMA TimesMonotone ==
    ASSUME NEW a \in Nat, NEW b \in Nat, NEW x \in Nat, a =< b
    PROVE  a * x =< b * x
<1>1. PICK d \in Nat : b = a + d
    <2>1. b - a \in Nat /\ b = a + (b - a)
        OBVIOUS
    <2> QED
        BY <2>1
<1>2. b * x = a * x + d * x
    BY <1>1
<1>3. a * x \in Nat /\ d * x \in Nat
    OBVIOUS
<1> QED
    BY <1>2, <1>3

LEMMA DivideBounds ==
    ASSUME NEW a \in Nat, NEW b \in Nat \ {0}
    PROVE  /\ a \div b \in Nat
           /\ \A c \in Nat : c * b =< a => c =< a \div b
           /\ \A c \in Nat : a < (c + 1) * b => a \div b =< c
<1> DEFINE q == a \div b
           r == a % b
<1>1. q \in Nat /\ r \in 0 .. b - 1 /\ a = b * q + r
    OBVIOUS
<1> HIDE DEF q, r
<1>2. ASSUME NEW c \in Nat, c * b =< a PROVE c =< q
    <2> SUFFICES ASSUME q + 1 =< c PROVE FALSE
        BY <1>1
    <2>1. (q + 1) * b =< c * b
        BY <1>1, TimesMonotone
    <2>2. (q + 1) * b = b * q + b
        BY <1>1
    <2>3. b * q \in Nat /\ c * b \in Nat
        BY <1>1
    <2> QED
        BY <1>1, <1>2, <2>1, <2>2, <2>3
<1>3. ASSUME NEW c \in Nat, a < (c + 1) * b PROVE q =< c
    <2> SUFFICES ASSUME c + 1 =< q PROVE FALSE
        BY <1>1
    <2>1. (c + 1) * b =< q * b
        BY <1>1, TimesMonotone
    <2>2. q * b = b * q /\ b * q \in Nat /\ (c + 1) * b \in Nat
        BY <1>1
    <2> QED
        BY <1>1, <1>3, <2>1, <2>2
<1> QED
    BY <1>1, <1>2, <1>3 DEF q

\* A blend of a fraction and a length lies on the same side of a bound as both.
LEMMA BlendParts ==
    ASSUME NEW c \in Nat, NEW d \in Nat, NEW p \in Nat, NEW e \in Nat, p =< e
    PROVE  /\ c * (d * e) = (c * d) * p + c * ((e - p) * d)
           /\ (c * d) * p \in Nat /\ c * ((e - p) * d) \in Nat
           /\ (e - p) * d \in Nat /\ c * d \in Nat /\ c * (d * e) \in Nat
<1>1. PICK x \in Nat : e = p + x
    <2>1. e - p \in Nat /\ e = p + (e - p)
        OBVIOUS
    <2> QED
        BY <2>1
<1>2. e - p = x
    BY <1>1
<1>3. d * e = d * p + x * d /\ d * p \in Nat /\ x * d \in Nat /\ c * d \in Nat
    BY <1>1
<1>4. c * (d * p + x * d) = c * (d * p) + c * (x * d)
    BY <1>3
<1>5. c * (d * p) = (c * d) * p
    OBVIOUS
<1>6. (c * d) * p \in Nat /\ c * (x * d) \in Nat /\ c * (d * p) \in Nat
    BY <1>3
<1> QED
    BY <1>2, <1>3, <1>4, <1>5, <1>6

LEMMA BlendAbove ==
    ASSUME NEW n \in Nat, NEW d \in Nat, NEW p \in Nat, NEW e \in Nat, p =< e,
           NEW v \in Nat, NEW lo \in Nat, lo * d =< n, lo =< v
    PROVE  lo * (d * e) =< n * p + v * ((e - p) * d)
<1>1. /\ lo * (d * e) = (lo * d) * p + lo * ((e - p) * d)
      /\ (lo * d) * p \in Nat /\ lo * ((e - p) * d) \in Nat
      /\ (e - p) * d \in Nat /\ lo * d \in Nat
    BY BlendParts
<1>2. (lo * d) * p =< n * p
    BY <1>1, TimesMonotone
<1>3. lo * ((e - p) * d) =< v * ((e - p) * d)
    BY <1>1, TimesMonotone
<1>4. n * p \in Nat /\ v * ((e - p) * d) \in Nat
    BY <1>1
<1> QED
    BY <1>1, <1>2, <1>3, <1>4

LEMMA BlendBelow ==
    ASSUME NEW n \in Nat, NEW d \in Nat, NEW p \in Nat, NEW e \in Nat, p =< e,
           NEW v \in Nat, NEW hi \in Nat, n =< hi * d, v =< hi
    PROVE  n * p + v * ((e - p) * d) =< hi * (d * e)
<1>1. /\ hi * (d * e) = (hi * d) * p + hi * ((e - p) * d)
      /\ (hi * d) * p \in Nat /\ hi * ((e - p) * d) \in Nat
      /\ (e - p) * d \in Nat /\ hi * d \in Nat
    BY BlendParts
<1>2. n * p =< (hi * d) * p
    BY <1>1, TimesMonotone
<1>3. v * ((e - p) * d) =< hi * ((e - p) * d)
    BY <1>1, TimesMonotone
<1>4. n * p \in Nat /\ v * ((e - p) * d) \in Nat
    BY <1>1
<1> QED
    BY <1>1, <1>2, <1>3, <1>4

-----------------------------------------------------------------------------
\* What is observed is a fraction, or NaN.
LEMMA ObservedType ==
    ASSUME NEW q \in Quantile \cup {None}, NEW v \in Lengths, NEW now \in 0 .. MaxTime
    PROVE  Observed(q, v, now) \in Quantile
<1>0. Lengths \subseteq Nat /\ v \in Nat /\ MaxTime \in Nat
    BY EstimatorAssumption
<1>1. CASE q = None
    BY <1>0, <1>1 DEF Observed, Quantile
<1>2. CASE q # None
    <2>1. q.num \in Int /\ q.den \in Nat /\ q.last \in 0 .. MaxTime
        BY <1>2 DEF Quantile
    <2>2. Elapsed(q, now) \in 0 .. MaxTime
        BY <1>0, <2>1 DEF Elapsed
    <2>3. PICK p \in Nat, e \in Nat : Decay[Elapsed(q, now)] = <<p, e>>
        <3>1. Decay \in [0 .. MaxTime -> Nat \X Nat]
            BY EstimatorAssumption
        <3>2. Decay[Elapsed(q, now)] \in Nat \X Nat
            BY <2>2, <3>1
        <3> QED
            BY <3>2
    <2>4. Observed(q, v, now) =
              [num |-> q.num * p + v * ((e - p) * q.den), den |-> q.den * e, last |-> now]
        BY <1>2, <2>3 DEF Observed, Blend
    <2>5. q.num * p \in Int /\ e - p \in Int /\ q.den * e \in Nat
        BY <2>1, <2>3
    <2>6. (e - p) * q.den \in Int
        BY <2>1, <2>5
    <2>7. v * ((e - p) * q.den) \in Int
        BY <1>0, <2>6
    <2>8. q.num * p + v * ((e - p) * q.den) \in Int
        BY <2>5, <2>7
    <2> QED
        BY <2>4, <2>5, <2>8 DEF Quantile
<1> QED
    BY <1>1, <1>2

\* If the decay is at most 1, what is observed stays between what was.
LEMMA ObservedWithin ==
    ASSUME DecayIsShrinking,
           NEW q \in Quantile \cup {None}, NEW v \in Lengths, NEW now \in 0 .. MaxTime,
           NEW S \in SUBSET Lengths, q # None => Between(q, S)
    PROVE  Between(Observed(q, v, now), S \cup {v})
<1>0. /\ Lengths \subseteq Nat /\ v \in Nat /\ v \in S \cup {v} /\ S \subseteq Nat
      /\ MaxTime \in Nat
    BY EstimatorAssumption
<1>1. CASE q = None
    <2>1. Observed(q, v, now) = [num |-> v, den |-> 1, last |-> now]
        BY <1>1 DEF Observed
    <2>2. v * 1 =< v /\ v =< v * 1
        BY <1>0
    <2> QED
        BY <1>0, <2>1, <2>2 DEF Between
<1>2. CASE q # None
    <2>1. /\ q.num \in Int /\ q.den \in Nat /\ q.last \in 0 .. MaxTime /\ q.den > 0
          /\ Between(q, S)
        BY <1>2 DEF Quantile, Between
    <2>2. Elapsed(q, now) \in 0 .. MaxTime
        BY <1>0, <2>1 DEF Elapsed
    <2>3. PICK p \in Nat, e \in Nat : Decay[Elapsed(q, now)] = <<p, e>>
        <3>1. Decay \in [0 .. MaxTime -> Nat \X Nat]
            BY EstimatorAssumption
        <3>2. Decay[Elapsed(q, now)] \in Nat \X Nat
            BY <2>2, <3>1
        <3> QED
            BY <3>2
    <2>4. e > 0 /\ p =< e
        BY <2>2, <2>3 DEF DecayIsShrinking
    <2> DEFINE n == q.num * p + v * ((e - p) * q.den)
               d == q.den * e
    <2>5. Observed(q, v, now) = [num |-> n, den |-> d, last |-> now]
        BY <1>2, <2>3 DEF Observed, Blend
    <2>6. PICK lo \in S : lo * q.den =< q.num
        BY <2>1 DEF Between
    <2>7. PICK hi \in S : q.num =< hi * q.den
        BY <2>1 DEF Between
    <2>8. lo \in Nat /\ hi \in Nat /\ lo * q.den \in Nat /\ q.num \in Nat
        <3>1. lo \in Nat /\ hi \in Nat
            BY <1>0
        <3>2. lo * q.den \in Nat
            BY <2>1, <3>1
        <3> QED
            BY <2>1, <2>6, <3>1, <3>2
    <2>9. \E l \in S \cup {v} : l * d =< n
        <3>1. CASE lo =< v
            BY <1>0, <2>1, <2>4, <2>6, <2>8, <3>1, BlendAbove
        <3>2. CASE v < lo
            <4>1. v * q.den =< lo * q.den
                BY <1>0, <2>1, <2>8, <3>2, TimesMonotone
            <4>2. v * q.den =< q.num
                BY <1>0, <2>1, <2>6, <2>8, <4>1
            <4> QED
                BY <1>0, <2>1, <2>4, <2>8, <4>2, BlendAbove
        <3> QED
            BY <1>0, <2>8, <3>1, <3>2
    <2>10. \E h \in S \cup {v} : n =< h * d
        <3>1. CASE v =< hi
            BY <1>0, <2>1, <2>4, <2>7, <2>8, <3>1, BlendBelow
        <3>2. CASE hi < v
            <4>1. hi * q.den =< v * q.den
                BY <1>0, <2>1, <2>8, <3>2, TimesMonotone
            <4>2. q.num =< v * q.den
                BY <1>0, <2>1, <2>7, <2>8, <4>1
            <4> QED
                BY <1>0, <2>1, <2>4, <2>8, <4>2, BlendBelow
        <3> QED
            BY <1>0, <2>8, <3>1, <3>2
    <2>11. d > 0
        BY <2>1, <2>4
    <2> HIDE DEF n, d
    <2> QED
        BY <2>5, <2>9, <2>10, <2>11 DEF Between
<1> QED
    BY <1>1, <1>2

\* The cast gives a u32 whatever the estimate is.
LEMMA RoundedType ==
    ASSUME NEW q \in Quantile
    PROVE  Rounded(q) \in 0 .. Width - 1
<1>1. Width \in Nat /\ Width > 0
    BY EstimatorAssumption
<1>2. CASE q.den = 0 \/ q.num < 0
    BY <1>1, <1>2 DEF Rounded
<1>3. CASE q.den # 0 /\ ~(q.num < 0)
    <2>1. 2 * q.num + q.den \in Nat /\ 2 * q.den \in Nat \ {0}
        BY <1>3 DEF Quantile
    <2>2. (2 * q.num + q.den) \div (2 * q.den) \in Nat
        BY <2>1, DivideBounds
    <2> QED
        BY <1>1, <1>3, <2>2 DEF Rounded, Least
<1> QED
    BY <1>2, <1>3

\* Rounding does not leave the range of the lengths.
LEMMA RoundedWithin ==
    ASSUME NEW q \in Quantile, NEW S \in SUBSET Lengths, Between(q, S)
    PROVE  /\ \E lo \in S : lo =< Rounded(q)
           /\ \E hi \in S : Rounded(q) =< hi
<1>1. S \subseteq 1 .. Width - 1 /\ Width \in Nat /\ S \subseteq Nat
    BY EstimatorAssumption
<1>2. PICK lo \in S : lo * q.den =< q.num
    BY DEF Between
<1>3. PICK hi \in S : q.num =< hi * q.den
    BY DEF Between
<1>4. q.den \in Nat \ {0} /\ q.num \in Int
    BY DEF Quantile, Between
<1>5. lo * q.den \in Nat
    BY <1>1, <1>4
<1>6. q.num \in Nat
    BY <1>2, <1>4, <1>5
<1>7. 2 * q.num + q.den \in Nat /\ 2 * q.den \in Nat \ {0}
    BY <1>4, <1>6
<1>8. PICK m \in Nat :
          /\ m = (2 * q.num + q.den) \div (2 * q.den)
          /\ \A c \in Nat : c * (2 * q.den) =< 2 * q.num + q.den => c =< m
          /\ \A c \in Nat : 2 * q.num + q.den < (c + 1) * (2 * q.den) => m =< c
    BY <1>7, DivideBounds
<1>9. Rounded(q) = Least(m, Width - 1)
    BY <1>4, <1>6, <1>8 DEF Rounded
<1>10. lo =< m
    <2>1. lo * (2 * q.den) = 2 * (lo * q.den)
        BY <1>1, <1>4
    <2>2. lo * (2 * q.den) =< 2 * q.num + q.den
        BY <1>2, <1>4, <1>5, <1>6, <2>1
    <2> QED
        BY <1>1, <1>8, <2>2
<1>11. m =< hi
    <2>1. (hi + 1) * (2 * q.den) = 2 * (hi * q.den) + 2 * q.den /\ hi * q.den \in Nat
        BY <1>1, <1>4
    <2>2. 2 * q.num + q.den < (hi + 1) * (2 * q.den)
        BY <1>3, <1>4, <1>6, <2>1
    <2> QED
        BY <1>1, <1>8, <2>2
<1> QED
    BY <1>1, <1>8, <1>9, <1>10, <1>11 DEF Least

-----------------------------------------------------------------------------
LEMMA InitEstimator == EstimatorInit => EstimatorIInv
<1> SUFFICES ASSUME EstimatorInit PROVE EstimatorIInv
    OBVIOUS
<1>1. TypesOK
    BY EstimatorAssumption DEF EstimatorInit, TypesOK
<1> QED
    BY <1>1 DEF EstimatorInit, EstimatorIInv, WithinOK, EstimateWithinObserved, AnswerOK

LEMMA TakeTimeStep ==
    ASSUME EstimatorIInv, NEW b \in Bodies, NEW r \in Routes, NEW v \in Lengths,
           TakeTime(b, r, v)
    PROVE  EstimatorIInv'
<1> DEFINE o == [route |-> r, value |-> v, now |-> clock]
<1>1. o \in Observation
    BY DEF EstimatorIInv, TypesOK, Observation
<1>2. /\ taking' = [taking EXCEPT ![b] = o]
      /\ UNCHANGED <<clock, hist, answer, seen>>
    BY DEF TakeTime
<1> HIDE DEF o
<1>3. TypesOK'
    BY <1>1, <1>2 DEF EstimatorIInv, TypesOK
<1> QED
    BY <1>2, <1>3
    DEF EstimatorIInv, WithinOK, EstimateWithinObserved, AnswerOK, DecayIsShrinking

LEMMA ObserveStep ==
    ASSUME EstimatorIInv, NEW b \in Bodies, Observe(b)
    PROVE  EstimatorIInv'
<1>1. PICK o \in Observation :
          /\ hist' = [hist EXCEPT ![o.route] = Observed(@, o.value, o.now)]
          /\ seen' = [seen EXCEPT ![o.route] = @ \cup {o.value}]
    BY DEF EstimatorIInv, TypesOK, Observe
<1>2. o.route \in Routes /\ o.value \in Lengths /\ o.now \in 0 .. MaxTime
    BY DEF Observation
<1> DEFINE r == o.route
           q == Observed(hist[r], o.value, o.now)
<1>3. hist[r] \in Quantile \cup {None} /\ seen[r] \in SUBSET Lengths
    BY <1>2 DEF EstimatorIInv, TypesOK
<1>4. q \in Quantile
    BY <1>2, <1>3, ObservedType
<1>5. DecayIsShrinking => Between(q, seen[r] \cup {o.value})
    <2> SUFFICES ASSUME DecayIsShrinking PROVE Between(q, seen[r] \cup {o.value})
        OBVIOUS
    <2>1. hist[r] # None => Between(hist[r], seen[r])
        BY <1>2 DEF EstimatorIInv, WithinOK, EstimateWithinObserved, Between
    <2> QED
        BY <1>2, <1>3, <2>1, ObservedWithin
<1>6. /\ hist' = [hist EXCEPT ![r] = q]
      /\ hist'[r] = q /\ seen'[r] = seen[r] \cup {o.value}
      /\ \A s \in Routes \ {r} : hist'[s] = hist[s] /\ seen'[s] = seen[s]
    BY <1>1, <1>2 DEF EstimatorIInv, TypesOK
<1>7. taking' = [taking EXCEPT ![b] = None] /\ UNCHANGED <<clock, answer>>
    BY DEF Observe
<1>8. q # None
    BY <1>4, EstimatorAssumption DEF Quantile
<1> HIDE DEF q
<1>9. TypesOK'
    BY <1>1, <1>2, <1>4, <1>6, <1>7 DEF EstimatorIInv, TypesOK
<1>10. WithinOK'
    <2> SUFFICES ASSUME DecayIsShrinking, NEW s \in Routes
                 PROVE  IF hist'[s] = None THEN seen'[s] = {} ELSE Between(hist'[s], seen'[s])
        BY DEF WithinOK, EstimateWithinObserved, Between, DecayIsShrinking
    <2>1. CASE s = r
        BY <1>5, <1>6, <1>8, <2>1
    <2>2. CASE s # r
        BY <1>6, <2>2 DEF EstimatorIInv, WithinOK, EstimateWithinObserved, Between
    <2> QED
        BY <2>1, <2>2
<1>11. \A s \in Routes : seen[s] \subseteq seen'[s]
    BY <1>6
<1>12. AnswerOK'
    BY <1>7, <1>11 DEF EstimatorIInv, AnswerOK, DecayIsShrinking
<1> QED
    BY <1>9, <1>10, <1>12 DEF EstimatorIInv

LEMMA AskStep ==
    ASSUME EstimatorIInv, NEW r \in Routes, NEW a \in MaxTokens \cup {None}, Ask(r, a)
    PROVE  EstimatorIInv'
<1>1. /\ answer' = [route |-> r, asked |-> a, value |-> Estimate(r, a)]
      /\ UNCHANGED <<clock, taking, hist, seen>>
    BY DEF Ask
<1>2. /\ Width \in Nat /\ Default \in 1 .. Width - 1 /\ Width > 1
      /\ Lengths \subseteq 1 .. Width - 1 /\ MaxTokens \subseteq Nat
    BY EstimatorAssumption
<1>3. CASE a # None
    <2>1. a % Width \in 0 .. Width - 1
        BY <1>2, <1>3
    <2>2. Estimate(r, a) \in 1 .. Width - 1
        BY <1>2, <1>3, <2>1 DEF Estimate, AtLeastOne
    <2>3. AnswerOK'
        BY <1>1, <1>3, <2>2, EstimatorAssumption DEF AnswerOK
    <2> QED
        BY <1>1, <2>3
        DEF EstimatorIInv, TypesOK, WithinOK, EstimateWithinObserved, DecayIsShrinking
<1>4. CASE a = None /\ hist[r] = None
    <2>1. Estimate(r, a) = Default
        BY <1>4 DEF Estimate
    <2>2. AnswerOK'
        BY <1>1, <1>2, <2>1 DEF AnswerOK
    <2> QED
        BY <1>1, <2>2
        DEF EstimatorIInv, TypesOK, WithinOK, EstimateWithinObserved, DecayIsShrinking
<1>5. CASE a = None /\ hist[r] # None
    <2>1. hist[r] \in Quantile /\ seen[r] \in SUBSET Lengths
        BY <1>5 DEF EstimatorIInv, TypesOK
    <2>2. Rounded(hist[r]) \in 0 .. Width - 1
        BY <2>1, RoundedType
    <2>3. Estimate(r, a) = AtLeastOne(Rounded(hist[r]))
        BY <1>5 DEF Estimate
    <2>4. Estimate(r, a) \in 1 .. Width - 1 /\ Rounded(hist[r]) =< Estimate(r, a)
        BY <1>2, <2>2, <2>3 DEF AtLeastOne
    <2>5. DecayIsShrinking => /\ \E lo \in seen[r] : lo =< Estimate(r, a)
                              /\ \E hi \in seen[r] : Estimate(r, a) =< hi
        <3> SUFFICES ASSUME DecayIsShrinking
                     PROVE  /\ \E lo \in seen[r] : lo =< Estimate(r, a)
                            /\ \E hi \in seen[r] : Estimate(r, a) =< hi
            OBVIOUS
        <3>1. Between(hist[r], seen[r])
            BY <1>5 DEF EstimatorIInv, WithinOK, EstimateWithinObserved, Between
        <3>2. PICK lo \in seen[r], hi \in seen[r] :
                  lo =< Rounded(hist[r]) /\ Rounded(hist[r]) =< hi
            BY <2>1, <3>1, RoundedWithin
        <3>3. lo \in 1 .. Width - 1 /\ hi \in 1 .. Width - 1
            BY <1>2, <2>1
        <3>4. Estimate(r, a) = Rounded(hist[r])
            BY <1>2, <2>2, <2>3, <3>2, <3>3 DEF AtLeastOne
        <3> QED
            BY <3>2, <3>4
    <2>6. AnswerOK'
        BY <1>1, <2>4, <2>5 DEF AnswerOK, DecayIsShrinking
    <2> QED
        BY <1>1, <2>6 DEF EstimatorIInv, TypesOK, WithinOK, EstimateWithinObserved, DecayIsShrinking
<1> QED
    BY <1>3, <1>4, <1>5

LEMMA NextEstimator == EstimatorIInv /\ [EstimatorNext]_estimatorVars => EstimatorIInv'
<1> SUFFICES ASSUME EstimatorIInv, [EstimatorNext]_estimatorVars PROVE EstimatorIInv'
    OBVIOUS
<1>1. CASE Tick
    <2>1. clock' \in 0 .. MaxTime
        BY <1>1, EstimatorAssumption DEF EstimatorIInv, TypesOK, Tick
    <2> QED
        BY <1>1, <2>1
        DEF Tick, EstimatorIInv, TypesOK, WithinOK, EstimateWithinObserved, AnswerOK,
            DecayIsShrinking
<1>2. ASSUME NEW b \in Bodies, NEW r \in Routes, NEW v \in Lengths, TakeTime(b, r, v)
      PROVE  EstimatorIInv'
    BY <1>2, TakeTimeStep
<1>3. ASSUME NEW b \in Bodies, Observe(b) PROVE EstimatorIInv'
    BY <1>3, ObserveStep
<1>4. ASSUME NEW r \in Routes, NEW a \in MaxTokens \cup {None}, Ask(r, a)
      PROVE  EstimatorIInv'
    BY <1>4, AskStep
<1>5. CASE UNCHANGED estimatorVars
    BY <1>5
    DEF estimatorVars, EstimatorIInv, TypesOK, WithinOK, EstimateWithinObserved, AnswerOK,
        DecayIsShrinking
<1> QED
    BY <1>1, <1>2, <1>3, <1>4, <1>5 DEF EstimatorNext, Learn

LEMMA EstimatorInvariant == EstimatorSpec => []EstimatorIInv
<1> QED
    BY InitEstimator, NextEstimator, PTL DEF EstimatorSpec

-----------------------------------------------------------------------------
\* For a positive half-life, which validate does not ask for, no order of
\* observations takes an estimate out of the range of what its route observed.
THEOREM EstimatorWithinObserved ==
    ASSUME DecayIsShrinking
    PROVE  EstimatorSpec => []EstimateWithinObserved
<1>1. EstimatorIInv => EstimateWithinObserved
    BY DecayIsShrinking DEF EstimatorIInv, WithinOK
<1> QED
    BY <1>1, EstimatorInvariant, PTL

\* Whatever the half-life, an answer is at least one token and fits a u32.  For
\* a positive one it is the client's, the default or one within the range of
\* what its route observed.
THEOREM EstimatorAnswersAreUsable == EstimatorSpec => []AnswersAreUsable
<1>1. EstimatorIInv => AnswersAreUsable
    BY DEF EstimatorIInv, AnswerOK, AnswersAreUsable
<1> QED
    BY <1>1, EstimatorInvariant, PTL

-----------------------------------------------------------------------------
\* Every set of numbers has a least one.
LEMMA LeastNumber ==
    ASSUME NEW S \in SUBSET Nat, S # {}
    PROVE  \E i \in S : \A j \in S : i =< j
<1>1. PICK i \in S : \A j \in S : <<j, i>> \notin OpToRel(<, Nat)
    BY NatLessThanWellFounded, WFMin
<1>2. \A j \in S : ~(j < i)
    BY <1>1 DEF OpToRel
<1> QED
    BY <1>2

\* A running total, as far as n.
Runs(f, n, numbers) ==
    /\ f \in [0 .. n -> Nat] /\ f[0] = 0
    /\ \A i \in 1 .. n : f[i] = f[i - 1] + numbers[i]

LEMMA RunningTotal ==
    ASSUME NEW N \in Nat, NEW numbers \in [1 .. N -> Nat]
    PROVE  \E f : Runs(f, N, numbers)
<1> DEFINE Lacking == {n \in 0 .. N : ~ \E f : Runs(f, n, numbers)}
<1>1. ASSUME Lacking # {} PROVE FALSE
    <2>1. PICK n \in Lacking : \A k \in Lacking : n =< k
        <3>1. Lacking \in SUBSET Nat
            OBVIOUS
        <3> HIDE DEF Lacking
        <3> QED
            BY <3>1, <1>1, LeastNumber
    <2>2. n # 0
        <3>1. Runs([i \in 0 .. 0 |-> 0], 0, numbers)
            BY DEF Runs
        <3> QED
            BY <3>1, <2>1
    <2>3. n \in 1 .. N /\ n - 1 \in 0 .. N /\ n - 1 \notin Lacking
        BY <2>1, <2>2
    <2>4. PICK f : Runs(f, n - 1, numbers)
        BY <2>3
    <2> DEFINE g == [i \in 0 .. n |-> IF i = n THEN f[n - 1] + numbers[n] ELSE f[i]]
    <2>5. f[n - 1] \in Nat /\ numbers[n] \in Nat /\ \A i \in 0 .. n - 1 : f[i] \in Nat
        BY <2>3, <2>4 DEF Runs
    <2>6. g \in [0 .. n -> Nat] /\ g[0] = 0
        BY <2>3, <2>4, <2>5 DEF Runs
    <2>7. ASSUME NEW i \in 1 .. n PROVE g[i] = g[i - 1] + numbers[i]
        <3>1. CASE i = n
            BY <3>1, <2>3
        <3>2. CASE i # n
            <4>1. i \in 1 .. n - 1 /\ i - 1 \in 0 .. n - 1 /\ i - 1 # n
                BY <3>2, <2>3
            <4>2. g[i] = f[i] /\ g[i - 1] = f[i - 1]
                BY <4>1, <3>2, <2>3
            <4> QED
                BY <4>1, <4>2, <2>4 DEF Runs
        <3> QED
            BY <3>1, <3>2
    <2>8. Runs(g, n, numbers)
        BY <2>6, <2>7 DEF Runs
    <2> QED
        BY <2>8, <2>1
<1>2. Lacking = {} /\ N \in 0 .. N
    BY <1>1
<1> QED
    BY <1>2

LEMMA TotalRuns ==
    ASSUME NEW N \in Nat, NEW numbers \in [1 .. N -> Nat]
    PROVE  \E f : Runs(f, N, numbers) /\ Total(numbers) = f[N]
<1> DEFINE F(f) == [n \in 0 .. N |-> IF n = 0 THEN 0 ELSE f[n - 1] + numbers[n]]
           t == CHOOSE f : f = F(f)
<1>1. Len(numbers) = N
    OBVIOUS
<1>2. Total(numbers) = t[N]
    BY <1>1 DEF Total
<1>3. PICK f : Runs(f, N, numbers)
    BY RunningTotal
<1>4. f = F(f)
    BY <1>3 DEF Runs
<1>5. t = F(t)
    BY <1>4
<1> HIDE DEF t
<1>6. /\ t[0] = 0
      /\ \A i \in 1 .. N : t[i] = t[i - 1] + numbers[i]
    <2>1. t[0] = 0
        BY <1>5
    <2>2. ASSUME NEW i \in 1 .. N PROVE t[i] = t[i - 1] + numbers[i]
        BY <1>5
    <2> QED
        BY <2>1, <2>2
<1> DEFINE Wrong == {n \in 0 .. N : t[n] \notin Nat}
<1>7. ASSUME Wrong # {} PROVE FALSE
    <2>1. PICK n \in Wrong : \A k \in Wrong : n =< k
        <3>1. Wrong \in SUBSET Nat
            OBVIOUS
        <3> HIDE DEF Wrong
        <3> QED
            BY <3>1, <1>7, LeastNumber
    <2>2. n # 0
        BY <2>1, <1>6
    <2>3. n \in 1 .. N /\ t[n - 1] \in Nat
        BY <2>1, <2>2
    <2>4. numbers[n] \in Nat /\ t[n] = t[n - 1] + numbers[n]
        BY <2>3, <1>6
    <2> QED
        BY <2>1, <2>3, <2>4
<1>8. \A n \in 0 .. N : t[n] \in Nat
    BY <1>7
<1>9. t \in [0 .. N -> Nat]
    BY <1>5, <1>8
<1>10. Runs(t, N, numbers)
    BY <1>6, <1>9 DEF Runs
<1> QED
    BY <1>2, <1>10 DEF t

\* Saturating as it goes or at the end is the same.
LEMMA SaturatingAtTheEnd ==
    ASSUME NEW N \in Nat, NEW counts \in [1 .. N -> Nat], Width \in Nat \ {0}
    PROVE  SaturatingSum(counts) = Least(Total(counts), Width - 1)
<1> DEFINE M == Width - 1
           F(f) == [n \in 0 .. N |->
                      IF n = 0 THEN 0 ELSE Least(f[n - 1] + counts[n], Width - 1)]
           t == CHOOSE f : f = F(f)
<1>1. Len(counts) = N
    OBVIOUS
<1>2. SaturatingSum(counts) = t[N]
    BY <1>1 DEF SaturatingSum
<1>3. PICK p : Runs(p, N, counts) /\ Total(counts) = p[N]
    BY TotalRuns
<1>4. \A n \in 0 .. N : p[n] \in Nat
    BY <1>3 DEF Runs
<1> DEFINE g == [n \in 0 .. N |-> Least(p[n], Width - 1)]
<1>5. ASSUME NEW n \in 0 .. N
      PROVE  g[n] = IF n = 0 THEN 0 ELSE Least(g[n - 1] + counts[n], Width - 1)
    <2>1. CASE n = 0
        <3>1. p[0] = 0
            BY <1>3 DEF Runs
        <3> QED
            BY <2>1, <3>1 DEF Least
    <2>2. CASE n # 0
        <3>1. n \in 1 .. N /\ n - 1 \in 0 .. N
            BY <2>2
        <3>2. p[n] = p[n - 1] + counts[n] /\ p[n - 1] \in Nat /\ counts[n] \in Nat
            BY <3>1, <1>3, <1>4 DEF Runs
        <3>3. g[n] = Least(p[n], Width - 1) /\ g[n - 1] = Least(p[n - 1], Width - 1)
            BY <3>1
        <3> QED
            BY <2>2, <3>2, <3>3 DEF Least
    <2> QED
        BY <2>1, <2>2
<1>6. g = F(g)
    BY <1>5
<1>7. t = F(t)
    BY <1>6
<1>8. g[N] = Least(p[N], Width - 1)
    OBVIOUS
<1> HIDE DEF t, g
<1>9. /\ t[0] = 0 /\ g[0] = 0
      /\ \A n \in 1 .. N : t[n] = Least(t[n - 1] + counts[n], Width - 1)
      /\ \A n \in 1 .. N : g[n] = Least(g[n - 1] + counts[n], Width - 1)
    BY <1>6, <1>7
<1> DEFINE Wrong == {n \in 0 .. N : t[n] # g[n]}
<1>10. ASSUME Wrong # {} PROVE FALSE
    <2>1. PICK n \in Wrong : \A k \in Wrong : n =< k
        <3>1. Wrong \in SUBSET Nat
            OBVIOUS
        <3> HIDE DEF Wrong
        <3> QED
            BY <3>1, <1>10, LeastNumber
    <2>2. n # 0
        BY <2>1, <1>9
    <2>3. n \in 1 .. N /\ t[n - 1] = g[n - 1]
        BY <2>1, <2>2
    <2> QED
        BY <2>1, <2>3, <1>9
<1>11. t[N] = g[N]
    BY <1>10
<1> QED
    BY <1>2, <1>3, <1>8, <1>11

-----------------------------------------------------------------------------
\* Counting texts apart.  Division by c, rounded up, loses nothing and adds less
\* than c.
LEMMA RoundedUp ==
    ASSUME NEW n \in Nat, NEW c \in Nat \ {0}
    PROVE  /\ CeilDiv(n, c) \in Nat
           /\ n =< CeilDiv(n, c) * c
           /\ CeilDiv(n, c) * c =< n + (c - 1)
<1> DEFINE a == n + c - 1
           q == a \div c
           r == a % c
<1>1. q \in Nat /\ r \in 0 .. c - 1 /\ a = c * q + r
    OBVIOUS
<1>2. CeilDiv(n, c) = q
    BY DEF CeilDiv
<1> HIDE DEF q, r
<1>3. c * q = q * c /\ q * c \in Nat
    BY <1>1
<1> DEFINE x == q * c
<1>4. a = x + r /\ x \in Nat
    BY <1>1, <1>3
<1> HIDE DEF x
<1>5. n =< x /\ x =< n + (c - 1)
    BY <1>1, <1>4
<1> QED
    BY <1>1, <1>2, <1>5 DEF x

LEMMA Distributes ==
    ASSUME NEW a \in Nat, NEW b \in Nat, NEW c \in Nat
    PROVE  (a + b) * c = a * c + b * c /\ a * c \in Nat /\ b * c \in Nat
OBVIOUS

LEMMA WrittenSoFar ==
    ASSUME NEW N \in Nat, NEW W \in SUBSET (1 .. N), NEW n \in 1 .. N
    PROVE  /\ Cardinality(W \cap (1 .. n)) \in Nat
           /\ Cardinality(W \cap (1 .. n - 1)) \in Nat
           /\ Cardinality(W \cap (1 .. n)) =
                Cardinality(W \cap (1 .. n - 1)) + (IF n \in W THEN 1 ELSE 0)
<1> DEFINE P == W \cap (1 .. n - 1)
           Q == W \cap (1 .. n)
<1>1. IsFiniteSet(1 .. N) /\ P \subseteq 1 .. N /\ Q \subseteq 1 .. N
    BY FS_Interval
<1>2. IsFiniteSet(P) /\ IsFiniteSet(Q)
    BY <1>1, FS_Subset
<1>3. Cardinality(P) \in Nat /\ Cardinality(Q) \in Nat
    BY <1>2, FS_CardinalityType
<1>4. CASE n \in W
    <2>1. Q = P \cup {n} /\ n \notin P
        BY <1>4
    <2>2. Cardinality(P \cup {n}) = Cardinality(P) + 1
        BY <1>2, <2>1, FS_AddElement
    <2> QED
        BY <1>3, <1>4, <2>1, <2>2
<1>5. CASE n \notin W
    <2>1. Q = P
        BY <1>5
    <2> HIDE DEF P, Q
    <2>2. Cardinality(Q) = Cardinality(P) + 0
        BY <1>3, <2>1
    <2> QED
        BY <1>3, <1>5, <2>2 DEF P, Q
<1> QED
    BY <1>4, <1>5

\* What is known of each text: its share of the joined prompt, and its count.
CountedApart(N, c, M, W, sizes, counts) ==
    \A i \in 1 .. N :
        IF i \in W THEN counts[i] = Least(CeilDiv(sizes[i], c), M)
        ELSE counts[i] = 0 /\ sizes[i] = 0

\* p tokens were counted in k texts that are together j long.
TellsApart(p, j, k, c, M) ==
    /\ p \in Nat /\ j \in Nat /\ k \in Nat
    /\ j =< p * c \/ M =< p
    /\ p * c =< j + k * (c - 1)
    /\ k = 0 => j = 0

LEMMA OneTextMore ==
    ASSUME NEW p, NEW j, NEW k, NEW c \in Nat \ {0}, NEW M \in Nat, TellsApart(p, j, k, c, M),
           NEW size \in Nat
    PROVE  TellsApart(p + Least(CeilDiv(size, c), M), j + size, k + 1, c, M)
<1> DEFINE u == CeilDiv(size, c)
           v == Least(u, M)
<1>1. /\ p \in Nat /\ j \in Nat /\ k \in Nat
      /\ j =< p * c \/ M =< p
      /\ p * c =< j + k * (c - 1)
    BY DEF TellsApart
<1>2. u \in Nat /\ size =< u * c /\ u * c =< size + (c - 1)
    BY RoundedUp
<1> HIDE DEF u
<1>3. v \in Nat /\ (v = u \/ v = M) /\ v =< u
    BY <1>2 DEF Least
<1> HIDE DEF v
<1>4. (p + v) * c = p * c + v * c /\ p * c \in Nat /\ v * c \in Nat
    BY <1>1, <1>3, Distributes
<1>5. (k + 1) * (c - 1) = k * (c - 1) + (c - 1) /\ k * (c - 1) \in Nat
    BY <1>1
<1>6. v * c =< u * c /\ u * c \in Nat
    <2>1. PICK d \in Nat : u = v + d
        <3>1. u - v \in Nat /\ u = v + (u - v)
            BY <1>2, <1>3
        <3> QED
            BY <3>1
    <2>2. u * c = v * c + d * c /\ d * c \in Nat
        BY <2>1, <1>3, Distributes
    <2> QED
        BY <2>2, <1>4
<1> DEFINE pc == p * c
           vc == v * c
           uc == u * c
           kc == k * (c - 1)
<1>7. /\ pc \in Nat /\ vc \in Nat /\ uc \in Nat /\ kc \in Nat
      /\ j =< pc \/ M =< p
      /\ pc =< j + kc /\ size =< uc /\ uc =< size + (c - 1) /\ vc =< uc
      /\ v = u => vc = uc
    BY <1>1, <1>2, <1>4, <1>5, <1>6
<1> HIDE DEF pc, vc, uc, kc
<1>8. pc + vc =< (j + size) + (kc + (c - 1))
    BY <1>1, <1>7
<1>9. j + size =< pc + vc \/ M =< p + v
    BY <1>1, <1>3, <1>7
<1>10. p + v \in Nat /\ j + size \in Nat /\ k + 1 \in Nat /\ k + 1 # 0
    BY <1>1, <1>3
<1>11. (p + v) * c = pc + vc /\ (k + 1) * (c - 1) = kc + (c - 1)
    BY <1>4, <1>5 DEF pc, vc, kc
<1>12. TellsApart(p + v, j + size, k + 1, c, M)
    BY <1>8, <1>9, <1>10, <1>11 DEF TellsApart
<1> QED
    BY <1>12 DEF v, u

LEMMA AllTexts ==
    ASSUME NEW N \in Nat, NEW c \in Nat \ {0}, NEW M \in Nat, NEW W \in SUBSET (1 .. N),
           NEW sizes \in [1 .. N -> Nat], NEW counts \in [1 .. N -> Nat],
           CountedApart(N, c, M, W, sizes, counts)
    PROVE  TellsApart(Total(counts), Total(sizes), Cardinality(W), c, M)
<1>1. PICK p : Runs(p, N, counts) /\ Total(counts) = p[N]
    BY TotalRuns
<1>2. PICK j : Runs(j, N, sizes) /\ Total(sizes) = j[N]
    BY TotalRuns
<1> DEFINE k(n) == Cardinality(W \cap (1 .. n))
           Wrong == {n \in 0 .. N : ~ TellsApart(p[n], j[n], k(n), c, M)}
<1>3. ASSUME Wrong # {} PROVE FALSE
    <2>1. PICK n \in Wrong : \A i \in Wrong : n =< i
        <3>1. Wrong \in SUBSET Nat
            OBVIOUS
        <3> HIDE DEF Wrong
        <3> QED
            BY <3>1, <1>3, LeastNumber
    <2>2. n # 0
        <3>1. W \cap (1 .. 0) = {}
            OBVIOUS
        <3>2. k(0) = 0
            BY <3>1, FS_EmptySet
        <3>3. p[0] = 0 /\ j[0] = 0
            BY <1>1, <1>2 DEF Runs
        <3> HIDE DEF k
        <3>4. TellsApart(p[0], j[0], k(0), c, M)
            BY <3>2, <3>3 DEF TellsApart
        <3> QED
            BY <3>4, <2>1
    <2>3. n \in 1 .. N /\ n - 1 \in 0 .. N /\ TellsApart(p[n - 1], j[n - 1], k(n - 1), c, M)
        BY <2>1, <2>2
    <2>4. p[n] = p[n - 1] + counts[n] /\ j[n] = j[n - 1] + sizes[n]
        BY <2>3, <1>1, <1>2 DEF Runs
    <2>5. k(n) = k(n - 1) + (IF n \in W THEN 1 ELSE 0)
        BY <2>3, WrittenSoFar
    <2>6. ~ TellsApart(p[n], j[n], k(n), c, M)
        BY <2>1
    <2> HIDE DEF k
    <2>7. CASE n \in W
        <3>1. counts[n] = Least(CeilDiv(sizes[n], c), M) /\ sizes[n] \in Nat
            BY <2>3, <2>7 DEF CountedApart
        <3>2. TellsApart(p[n - 1] + counts[n], j[n - 1] + sizes[n], k(n - 1) + 1, c, M)
            BY <2>3, <3>1, OneTextMore
        <3>3. k(n) = k(n - 1) + 1
            BY <2>5, <2>7
        <3> QED
            BY <2>4, <2>6, <3>2, <3>3
    <2>8. CASE n \notin W
        <3>1. counts[n] = 0 /\ sizes[n] = 0
            BY <2>3, <2>8 DEF CountedApart
        <3>2. p[n - 1] \in Nat /\ j[n - 1] \in Nat /\ k(n - 1) \in Nat
            BY <2>3 DEF TellsApart
        <3>3. p[n] = p[n - 1] /\ j[n] = j[n - 1] /\ k(n) = k(n - 1)
            BY <2>4, <2>5, <2>8, <3>1, <3>2
        <3> QED
            BY <2>3, <2>6, <3>3
    <2> QED
        BY <2>7, <2>8
<1>4. TellsApart(p[N], j[N], k(N), c, M)
    <2>1. N \in 0 .. N /\ N \notin Wrong
        <3> HIDE DEF Wrong
        <3> QED
            BY <1>3
    <2> HIDE DEF k
    <2> QED
        BY <2>1
<1>5. W \cap (1 .. N) = W
    OBVIOUS
<1> QED
    BY <1>1, <1>2, <1>4, <1>5

\* In whole tokens.
LEMMA InTokens ==
    ASSUME NEW p, NEW j, NEW k, NEW c \in Nat \ {0}, NEW M \in Nat, TellsApart(p, j, k, c, M),
           Least(p, M) # 0
    PROVE  /\ Least(p, M) \in 1 .. M
           /\ Least(CeilDiv(j, c), M) =< Least(p, M)
           /\ Least(p, M) =< CeilDiv(j, c) + (k - 1)
           /\ c = 1 => Least(p, M) =< CeilDiv(j, c)
<1> DEFINE u == CeilDiv(j, c)
<1>1. /\ p \in Nat /\ j \in Nat /\ k \in Nat
      /\ j =< p * c \/ M =< p
      /\ p * c =< j + k * (c - 1)
      /\ k = 0 => j = 0
    BY DEF TellsApart
<1>2. u \in Nat /\ j =< u * c /\ u * c =< j + (c - 1)
    BY <1>1, RoundedUp
<1> HIDE DEF u
<1>3. Least(p, M) \in 1 .. M /\ Least(p, M) =< p
    BY <1>1 DEF Least
<1>4. p # 0
    BY <1>1 DEF Least
<1>5. k # 0
    <2>1. CASE k = 0
        <3>1. j = 0 /\ k * (c - 1) = 0 /\ p * c =< 0
            BY <2>1, <1>1
        <3>2. p * c >= p
            <4>1. p * c = p * (c - 1) + p /\ p * (c - 1) \in Nat
                BY <1>1
            <4> QED
                BY <4>1, <1>1
        <3> QED
            BY <3>1, <3>2, <1>1, <1>4
    <2> QED
        BY <2>1
<1>6. ASSUME j =< p * c PROVE u =< p
    <2>1. ASSUME p < u PROVE FALSE
        <3>1. PICK d \in Nat : u = p + 1 + d
            <4>1. u - p - 1 \in Nat /\ u = p + 1 + (u - p - 1)
                BY <2>1, <1>1, <1>2
            <4> QED
                BY <4>1
        <3>2. u * c = p * c + c + d * c /\ d * c \in Nat /\ p * c \in Nat
            BY <3>1, <1>1
        <3> QED
            BY <3>2, <1>1, <1>2, <1>6
    <2> QED
        BY <2>1, <1>1, <1>2
<1>7. Least(u, M) =< Least(p, M)
    BY <1>1, <1>2, <1>6 DEF Least
<1>8. p =< u + (k - 1)
    <2>1. ASSUME u + k =< p PROVE FALSE
        <3>1. PICK d \in Nat : p = u + k + d
            <4>1. p - u - k \in Nat /\ p = u + k + (p - u - k)
                BY <2>1, <1>1, <1>2
            <4> QED
                BY <4>1
        <3>2. p * c = u * c + k * c + d * c /\ d * c \in Nat /\ u * c \in Nat
            BY <3>1, <1>1, <1>2
        <3>3. k * c = k * (c - 1) + k /\ k * (c - 1) \in Nat
            BY <1>1
        <3> QED
            BY <3>2, <3>3, <1>1, <1>2, <1>5
    <2> QED
        BY <2>1, <1>1, <1>2
<1>9. c = 1 => p =< u
    BY <1>1, <1>2
<1>10. Least(p, M) =< u + (k - 1)
    BY <1>1, <1>2, <1>3, <1>8
<1> QED
    BY <1>1, <1>2, <1>3, <1>7, <1>9, <1>10 DEF u

-----------------------------------------------------------------------------
\* The texts of a request and the number counted from them.
CountOf(text) == IF text = None THEN 0 ELSE Count(text)
CountsOf(texts) == [i \in 1 .. Len(texts) |-> CountOf(texts[i])]

\* What a text contributes to the joined prompt.
SizesOf(texts, field) ==
    [i \in 1 .. Len(texts) |-> IF i \in Written(texts) THEN texts[i][field] ELSE 0]

PromptOf(q) == CountPromptTokens(q.body)

LEMMA WidthIs ==
    Width \in Nat \ {0} /\ Width - 1 \in Nat
BY EstimatorAssumption

LEMMA BodyOf ==
    ASSUME NEW q \in Requests
    PROVE  /\ q.body \in Body
           /\ q.body.messages \in Seq(Text \cup {None}) \cup {None}
           /\ q.body.prompt \in Text \cup {None}
BY InboundAssumption DEF Body

LEMMA CountWithin ==
    ASSUME NEW text \in Text, kind \in CounterKinds
    PROVE  /\ Count(text) \in 0 .. Width - 1
           /\ text.words \in Nat /\ text.bytes \in Nat
           /\ text.words = 0 => Count(text) = 0
           /\ text.words > 0 /\ kind = "Whitespace" =>
                Count(text) = Least(CeilDiv(text.words, 1), Width - 1)
           /\ text.words > 0 /\ kind # "Whitespace" =>
                Count(text) = Least(CeilDiv(text.bytes, CharsPerToken), Width - 1)
<1>1. text.words \in Nat /\ text.bytes \in Nat
    BY DEF Text
<1>2. CeilDiv(text.bytes, CharsPerToken) \in Nat
    BY <1>1, RoundedUp, InboundAssumption
<1>3. CeilDiv(text.words, 1) = text.words
    BY <1>1 DEF CeilDiv
<1> HIDE DEF CeilDiv
<1> QED
    BY <1>1, <1>2, <1>3, WidthIs DEF Count, Least

\* Both shapes of a prompt are counted text by text.
LEMMA CountIsTotal ==
    ASSUME NEW q \in Requests, kind \in CounterKinds, PromptOf(q) # 0
    PROVE  /\ Texts(q.body) \in Seq(Text \cup {None})
           /\ CountsOf(Texts(q.body)) \in [1 .. Len(Texts(q.body)) -> Nat]
           /\ PromptOf(q) = Least(Total(CountsOf(Texts(q.body))), Width - 1)
<1> DEFINE texts == Texts(q.body)
           N == Len(texts)
<1>1. texts \in Seq(Text \cup {None})
    <2>1. CASE q.body.messages # None
        BY <2>1, BodyOf DEF Texts
    <2>2. CASE q.body.messages = None
        BY <2>2, BodyOf DEF Texts
    <2> QED
        BY <2>1, <2>2
<1>2. N \in Nat /\ \A i \in 1 .. N : texts[i] \in Text \cup {None}
    BY <1>1
<1> HIDE DEF texts
<1>3. \A i \in 1 .. N : CountOf(texts[i]) \in Nat
    BY <1>2, CountWithin, WidthIs DEF CountOf
<1>4. CountsOf(texts) \in [1 .. N -> Nat]
    BY <1>3 DEF CountsOf
<1>5. PromptOf(q) = Least(Total(CountsOf(texts)), Width - 1)
    <2>1. CASE q.body.messages # None
        <3>1. texts = q.body.messages
            BY <2>1 DEF texts, Texts
        <3>2. PromptOf(q) = SaturatingSum(CountsOf(texts))
            BY <2>1, <3>1 DEF PromptOf, CountPromptTokens, CountsOf, CountOf
        <3> QED
            BY <1>2, <1>4, <3>2, SaturatingAtTheEnd, WidthIs
    <2>2. CASE q.body.messages = None
        <3>1. q.body.prompt # None /\ PromptOf(q) = Count(q.body.prompt)
            BY <2>2 DEF PromptOf, CountPromptTokens
        <3>2. N = 1 /\ texts[1] = q.body.prompt
            BY <2>2 DEF texts, Texts
        <3>3. PICK p : Runs(p, 1, CountsOf(texts)) /\ Total(CountsOf(texts)) = p[1]
            BY <1>4, <3>2, TotalRuns
        <3>4. p[1] = p[0] + CountsOf(texts)[1] /\ p[0] = 0
            BY <3>3 DEF Runs
        <3>5. CountsOf(texts)[1] = Count(q.body.prompt)
            BY <3>1, <3>2 DEF CountsOf, CountOf
        <3>6. Count(q.body.prompt) \in 0 .. Width - 1
            BY <3>1, BodyOf, CountWithin
        <3>7. Total(CountsOf(texts)) = Count(q.body.prompt)
            BY <3>3, <3>4, <3>5, <3>6
        <3> QED
            BY <3>1, <3>6, <3>7, WidthIs DEF Least
    <2> QED
        BY <2>1, <2>2
<1> QED
    BY <1>1, <1>4, <1>5 DEF texts

\* What PromptNeverUndercounted says of a count of these texts.
CountedRight(texts, count) ==
    /\ count \in 1 .. Width - 1
    /\ Least(Joined(texts), Width - 1) =< count
    /\ count =< Joined(texts) + IF kind = "Whitespace" THEN 0
                                ELSE Cardinality(Written(texts)) - 1

LEMMA PromptCounted ==
    ASSUME NEW q \in Requests, kind \in CounterKinds, PromptOf(q) # 0
    PROVE  CountedRight(Texts(q.body), PromptOf(q))
<1> DEFINE texts == Texts(q.body)
           N == Len(texts)
           counts == CountsOf(texts)
           W == Written(texts)
           field == IF kind = "Whitespace" THEN "words" ELSE "bytes"
           c == IF kind = "Whitespace" THEN 1 ELSE CharsPerToken
           sizes == SizesOf(texts, field)
           M == Width - 1
<1>1. /\ texts \in Seq(Text \cup {None}) /\ counts \in [1 .. N -> Nat]
      /\ PromptOf(q) = Least(Total(counts), M)
    BY CountIsTotal
<1> HIDE DEF texts
<1>2. N \in Nat /\ \A i \in 1 .. N : texts[i] \in Text \cup {None}
    BY <1>1
<1>3. c \in Nat \ {0} /\ M \in Nat
    BY InboundAssumption, WidthIs
<1>4. W \in SUBSET (1 .. N)
    BY DEF Written
<1>5. ASSUME NEW i \in W
      PROVE  /\ texts[i] # None /\ texts[i] \in Text /\ texts[i].words > 0
             /\ sizes[i] \in Nat /\ counts[i] = Least(CeilDiv(sizes[i], c), M)
    <2>1. i \in 1 .. N /\ texts[i] # None /\ texts[i] \in Text /\ texts[i].words > 0
        BY <1>2 DEF Written
    <2>2. counts[i] = Count(texts[i])
        BY <2>1 DEF CountsOf, CountOf
    <2>3. sizes[i] = texts[i][field]
        BY <2>1 DEF SizesOf
    <2> DEFINE text == texts[i]
    <2>4. text \in Text /\ text.words > 0
        BY <2>1
    <2> HIDE DEF text
    <2>5. CASE kind = "Whitespace"
        <3>1. text[field] = text.words /\ c = 1
            BY <2>5
        <3>2. Count(text) = Least(CeilDiv(text.words, 1), M) /\ text.words \in Nat
            BY <2>4, <2>5, CountWithin
        <3> QED
            BY <2>1, <2>2, <2>3, <3>1, <3>2 DEF text
    <2>6. CASE kind # "Whitespace"
        <3>1. text[field] = text.bytes /\ c = CharsPerToken
            BY <2>6
        <3>2. Count(text) = Least(CeilDiv(text.bytes, CharsPerToken), M) /\ text.bytes \in Nat
            BY <2>4, <2>6, CountWithin
        <3> QED
            BY <2>1, <2>2, <2>3, <3>1, <3>2 DEF text
    <2> QED
        BY <2>5, <2>6
<1>6. ASSUME NEW i \in (1 .. N) \ W
      PROVE  counts[i] = 0 /\ sizes[i] = 0
    <2>1. sizes[i] = 0
        BY DEF SizesOf
    <2>2. counts[i] = CountOf(texts[i])
        BY DEF CountsOf
    <2>3. texts[i] = None \/ (texts[i] \in Text /\ ~(texts[i].words > 0))
        BY <1>2 DEF Written
    <2>4. CASE texts[i] = None
        BY <2>1, <2>2, <2>4 DEF CountOf
    <2>5. CASE texts[i] # None
        <3>1. texts[i] \in Text /\ texts[i].words = 0
            BY <2>3, <2>5, CountWithin
        <3>2. Count(texts[i]) = 0
            BY <3>1, CountWithin
        <3> QED
            BY <2>1, <2>2, <2>5, <3>2 DEF CountOf
    <2> QED
        BY <2>4, <2>5
<1>7. sizes \in [1 .. N -> Nat]
    <2>1. sizes = [i \in 1 .. N |-> sizes[i]]
        BY DEF SizesOf
    <2>2. \A i \in 1 .. N : sizes[i] \in Nat
        BY <1>5, <1>6
    <2> HIDE DEF sizes
    <2> QED
        BY <2>1, <2>2
<1>8. CountedApart(N, c, M, W, sizes, counts)
    <2> HIDE DEF N, c, M, W, sizes, counts
    <2> QED
        BY <1>5, <1>6 DEF CountedApart
<1>9. Joined(texts) = CeilDiv(Total(sizes), c)
    <2>1. CASE kind = "Whitespace"
        <3>1. Joined(texts) = Total(sizes)
            BY <2>1 DEF Joined, SizesOf
        <3>2. Total(sizes) \in Nat
            <4>1. PICK p : Runs(p, N, sizes) /\ Total(sizes) = p[N]
                BY <1>2, <1>7, TotalRuns
            <4>2. N \in 0 .. N
                BY <1>2
            <4> QED
                BY <4>1, <4>2 DEF Runs
        <3> HIDE DEF sizes
        <3>3. CeilDiv(Total(sizes), 1) = Total(sizes)
            BY <3>2 DEF CeilDiv
        <3> QED
            BY <2>1, <3>1, <3>3
    <2>2. CASE kind # "Whitespace"
        BY <2>2 DEF Joined, SizesOf
    <2> QED
        BY <2>1, <2>2
<1> HIDE DEF N, counts, W, sizes, M
<1>10. TellsApart(Total(counts), Total(sizes), Cardinality(W), c, M)
    <2> HIDE DEF c
    <2> QED
        BY <1>1, <1>2, <1>3, <1>4, <1>7, <1>8, AllTexts
<1>11. Least(Total(counts), M) # 0
    BY <1>1
<1> DEFINE count == PromptOf(q)
           joined == CeilDiv(Total(sizes), c)
<1>12. /\ count \in 1 .. M /\ Least(joined, M) =< count
       /\ count =< joined + (Cardinality(W) - 1)
       /\ c = 1 => count =< joined
    <2> HIDE DEF c
    <2> QED
        BY <1>1, <1>3, <1>10, <1>11, InTokens
<1>13. joined \in Nat
    <2>1. Total(sizes) \in Nat
        BY <1>10 DEF TellsApart
    <2> QED
        BY <2>1, <1>3, RoundedUp
<1>14. CASE kind = "Whitespace"
    <2>1. count =< joined + 0
        BY <1>12, <1>13, <1>14
    <2> QED
        BY <1>9, <1>12, <1>14, <2>1 DEF CountedRight, M, W, texts
<1>15. CASE kind # "Whitespace"
    BY <1>9, <1>12, <1>15 DEF CountedRight, M, W, texts
<1> QED
    BY <1>14, <1>15

-----------------------------------------------------------------------------
\* What the properties say of the request handled last.
InboundIInv ==
    /\ kind \in CounterKinds
    /\ PromptNeverUndercounted
    /\ UsageAskedUnlessDeclined
    /\ LengthIsOfBodySent

\* ensure_usage_requested asks where the client left it open, and only there.
LEMMA UsageAsked ==
    ASSUME NEW q \in Requests, ~ Panics(q.body)
    PROVE  LET asked == q.body
               sent == EnsureUsageRequested(q.body)
           IN  /\ sent.stream => sent.stream_options \in {"asked", "declined"}
               /\ asked.stream_options \in {"asked", "declined"} \/ ~asked.stream => sent = asked
               /\ sent = [asked EXCEPT !.stream_options = sent.stream_options,
                                       !.size = sent.size]
<1> DEFINE body == q.body
           sent == EnsureUsageRequested(body)
<1>1. /\ body \in Body /\ body.stream \in BOOLEAN /\ body.stream_options \in Options
      /\ DOMAIN body = {"json", "model", "messages", "prompt", "max_tokens", "stream",
                        "stream_options", "size"}
    BY BodyOf DEF Body
<1>2. body = [body EXCEPT !.stream_options = body.stream_options, !.size = body.size]
    BY <1>1 DEF Body
<1>3. CASE body.stream /\ body.stream_options \in {"absent", "undecided"}
    <2>1. sent = [body EXCEPT !.stream_options = "asked", !.size = body.size + 1]
        BY <1>3 DEF EnsureUsageRequested
    <2>2. sent.stream_options = "asked" /\ sent.size = body.size + 1
        BY <1>1, <2>1
    <2> QED
        BY <1>3, <2>1, <2>2
<1>4. CASE ~(body.stream /\ body.stream_options \in {"absent", "undecided"})
    <2>1. sent = body
        BY <1>4 DEF EnsureUsageRequested
    <2>2. body.stream => body.stream_options \in {"asked", "declined"}
        BY <1>1, <1>4 DEF Panics, Options
    <2> QED
        BY <1>2, <2>1, <2>2
<1> QED
    BY <1>3, <1>4

LEMMA HandleStep ==
    ASSUME NEW q \in Requests, InboundIInv, Handle(q)
    PROVE  InboundIInv'
<1>1. handled' = [request |-> q, outcome |-> Outcome(q)] /\ kind' = kind
    BY DEF Handle
<1>2. kind \in CounterKinds
    BY DEF InboundIInv
<1>3. ASSUME Dispatched'
      PROVE  (PromptNeverUndercounted /\ UsageAskedUnlessDeclined /\ LengthIsOfBodySent)'
    <2>1. handled'.request = q /\ handled'.outcome = Outcome(q)
        BY <1>1
    <2>2. Outcome(q).status = "dispatched"
        BY <1>3, <2>1 DEF Dispatched
    <2>3. /\ ~ BadRequest(q.body) /\ ~ Panics(q.body)
          /\ Outcome(q).features = BuildFeatures(q.body)
          /\ Outcome(q).sent = RebuildRequest(q.headers, EnsureUsageRequested(q.body))
        BY <2>2 DEF Outcome
    <2>4. PromptNeverUndercounted'
        <3>1. /\ Outcome(q).features.prompt_tokens = PromptOf(q)
              /\ Outcome(q).features.prompt_tokens_exact = (kind = "Whitespace")
            BY <2>3 DEF BuildFeatures, PromptOf
        <3>2. PromptOf(q) # 0
            BY <2>3 DEF BadRequest, PromptOf
        <3>3. CountedRight(Texts(q.body), PromptOf(q))
            BY <1>2, <3>2, PromptCounted
        <3>4. Joined(Texts(q.body))' = Joined(Texts(q.body))
            BY <1>1 DEF Joined
        <3> QED
            BY <2>1, <3>1, <3>3, <3>4 DEF PromptNeverUndercounted, CountedRight
    <2>5. UsageAskedUnlessDeclined'
        <3>1. Outcome(q).sent.body = EnsureUsageRequested(q.body)
            BY <2>3 DEF RebuildRequest
        <3> DEFINE asked == q.body
                   sent == EnsureUsageRequested(q.body)
        <3>2. /\ sent.stream => sent.stream_options \in {"asked", "declined"}
              /\ asked.stream_options \in {"asked", "declined"} \/ ~asked.stream =>
                     sent = asked
              /\ sent = [asked EXCEPT !.stream_options = sent.stream_options,
                                      !.size = sent.size]
            BY <2>3, UsageAsked
        <3>3. handled'.request.body = asked /\ handled'.outcome.sent.body = sent
            BY <2>1, <3>1
        <3> HIDE DEF asked, sent
        <3> QED
            BY <3>2, <3>3 DEF UsageAskedUnlessDeclined
    <2>6. LengthIsOfBodySent'
        <3>1. q.headers \in [Headers -> Nat \cup {None}]
            BY InboundAssumption
        <3>2. "content-length" \in Headers
            BY DEF Headers
        <3>3. Outcome(q).sent.headers["content-length"] = Outcome(q).sent.body.size
            BY <2>3, <3>1, <3>2 DEF RebuildRequest
        <3> QED
            BY <2>1, <3>3 DEF LengthIsOfBodySent
    <2> QED
        BY <2>4, <2>5, <2>6
<1>4. CASE ~ Dispatched'
    BY <1>1, <1>2, <1>4
       DEF InboundIInv, PromptNeverUndercounted, UsageAskedUnlessDeclined, LengthIsOfBodySent
<1> QED
    BY <1>1, <1>2, <1>3, <1>4 DEF InboundIInv

LEMMA InboundInvariant == InboundSpec => []InboundIInv
<1>1. InboundInit => InboundIInv
    BY DEF InboundInit, InboundIInv, Dispatched, PromptNeverUndercounted,
           UsageAskedUnlessDeclined, LengthIsOfBodySent
<1>2. InboundIInv /\ [InboundNext]_inboundVars => InboundIInv'
    <2> SUFFICES ASSUME InboundIInv, [InboundNext]_inboundVars PROVE InboundIInv'
        OBVIOUS
    <2>1. CASE UNCHANGED <<kind, handled>>
        BY <2>1 DEF InboundIInv, PromptNeverUndercounted, Dispatched, Joined,
                    UsageAskedUnlessDeclined, LengthIsOfBodySent
    <2> QED
        BY <2>1, HandleStep DEF InboundNext, inboundVars
<1> QED
    BY <1>1, <1>2, PTL DEF InboundSpec

\* However a prompt is cut into messages, and however long it is: its count is that
\* of the texts joined, up to one for every boundary under chars_per_token, and it
\* saturates instead of wrapping (count_prompt_tokens, TokenCounter::count).
THEOREM RequestsAreCounted == InboundSpec => []PromptNeverUndercounted
<1>1. InboundIInv => PromptNeverUndercounted
    BY DEF InboundIInv
<1> QED
    BY <1>1, InboundInvariant, PTL

\* Whatever a request says of stream_options, what is dispatched asks for the usage
\* frame or declines it as the client did (ensure_usage_requested).
THEOREM UsageIsAskedFor == InboundSpec => []UsageAskedUnlessDeclined
<1>1. InboundIInv => UsageAskedUnlessDeclined
    BY DEF InboundIInv
<1> QED
    BY <1>1, InboundInvariant, PTL

\* The Content-Length a backend gets is of the body that ensure_usage_requested has
\* grown (rebuild_request).
THEOREM LengthIsTrue == InboundSpec => []LengthIsOfBodySent
<1>1. InboundIInv => LengthIsOfBodySent
    BY DEF InboundIInv
<1> QED
    BY <1>1, InboundInvariant, PTL
=============================================================================
