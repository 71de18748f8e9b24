--------------------------- MODULE BalancingProofs ---------------------------
(***************************************************************************)
(* How the strategies spread requests and what the sampler counts, for any *)
(* number of requests and backends.                                        *)
(*                                                                         *)
(* The rotation of round robin is even because the backends before the     *)
(* next one have had exactly one turn more than the others.  A pick can be *)
(* off by no more than the moves of the counters since its first load.     *)
(* And a tick of the sampler is true because each of the two values it is  *)
(* computed from was loaded while the sampler looked at this backend.      *)
(***************************************************************************)
EXTENDS Strategies, Sampler, LeaseProofs

-----------------------------------------------------------------------------
(***************************************************************************)
(* The strategies.                                                         *)
(***************************************************************************)

Places == {"away", "loading", "recording"}
Pick ==
    [pc : Places, prompt : Nat, est : Nat, sample : Seq(Backends), loads : Seq(Int),
     chosen : Backends \cup {NoBackend}, trace : Seq(Int), moves : Nat]

\* What the place of a pick says of its fields.
PickShape(k) ==
    /\ k.pc = "away" => k = NoPick
    /\ k.pc # "away" => k.prompt \in Prompts /\ k.est \in Estimates
    /\ k.pc = "loading" =>
           /\ k.sample \in Samples /\ Len(k.loads) =< Len(k.sample)
           /\ k.trace = << >>
    /\ k.pc = "recording" =>
           /\ k.chosen \in ToSet(Healthy) /\ Len(k.trace) =< Len(Healthy)

PicksOK ==
    /\ strategy \in Strategies
    /\ pick \in [Leases -> Pick]
    /\ \A r \in Leases : PickShape(pick[r])

\* The rotation: the backends before the next one have had one turn more.
RotationOK ==
    /\ next \in 0 .. Width - 1
    /\ turns \in [ToSet(Healthy) -> Nat]
    /\ \A i \in DOMAIN Healthy :
           turns[Healthy[i]] = IF i =< next % Len(Healthy) THEN 1 ELSE 0

\* What a pick under way has loaded differs from the counters, and from one
\* backend to another, by no more than these moved.
LoadedOK(k) ==
    \A i \in 1 .. Len(k.loads) :
        /\ LoadOf(k.sample[i]) =< k.loads[i] + k.moves
        /\ k.loads[i] =< LoadOf(k.sample[i]) + k.moves
        /\ \A j \in 1 .. Len(k.loads) :
               LoadOf(k.sample[i]) + k.loads[j] =< LoadOf(k.sample[j]) + k.loads[i] + k.moves

\* The backend chosen, now and in the trace, against any other now and in the
\* trace.
ChosenOK(k) ==
    /\ \A c \in ToSet(Healthy) : LoadOf(k.chosen) =< LoadOf(c) + k.moves
    /\ \A j \in 1 .. Len(k.trace) : LoadOf(k.chosen) =< k.trace[j] + k.moves
    /\ \A i \in 1 .. Len(k.trace) : Healthy[i] = k.chosen =>
           /\ \A c \in ToSet(Healthy) : k.trace[i] =< LoadOf(c) + k.moves
           /\ \A j \in 1 .. Len(k.trace) : k.trace[i] =< k.trace[j] + k.moves

ChosenOfTwoOK(k) ==
    \/ Others(k.chosen) = {}
    \/ \E c \in Others(k.chosen) : LoadOf(k.chosen) =< LoadOf(c) + k.moves

StaleOK(k) ==
    k.moves < Many =>
        /\ k.pc = "loading" => LoadedOK(k)
        /\ k.pc = "recording" /\ strategy \in {"least_requests", "least_kvts"} => ChosenOK(k)
        /\ k.pc = "recording" /\ strategy = "p2c" => ChosenOfTwoOK(k)

StalenessOK == \A r \in Leases : StaleOK(pick[r])

-----------------------------------------------------------------------------
\* What StrategiesAssumption says of Healthy.
LEMMA HealthyFacts ==
    /\ Len(Healthy) \in Nat \ {0} /\ DOMAIN Healthy = 1 .. Len(Healthy)
    /\ ToSet(Healthy) \subseteq Backends
    /\ \A i \in DOMAIN Healthy : Healthy[i] \in ToSet(Healthy)
    /\ \A c \in ToSet(Healthy) : \E i \in DOMAIN Healthy : Healthy[i] = c
    /\ \A i, j \in DOMAIN Healthy : Healthy[i] = Healthy[j] => i = j
<1>1. Healthy \in Seq(Backends) /\ Healthy # << >>
    BY StrategiesAssumption
<1>2. \A i, j \in DOMAIN Healthy : Healthy[i] = Healthy[j] => i = j
    BY StrategiesAssumption DEF IsInjective
<1> QED
    BY <1>1, <1>2 DEF ToSet

LEMMA MaxIs ==
    ASSUME NEW S, NEW x \in S, \A y \in S : x >= y, S \subseteq Int
    PROVE  Max(S) = x
<1>1. Max(S) \in S /\ \A y \in S : Max(S) >= y
    BY DEF Max
<1>2. Max(S) \in Int /\ x \in Int /\ Max(S) >= x /\ x >= Max(S)
    BY <1>1
<1> QED
    BY <1>2

LEMMA MinIs ==
    ASSUME NEW S, NEW x \in S, \A y \in S : x =< y, S \subseteq Int
    PROVE  Min(S) = x
<1>1. Min(S) \in S /\ \A y \in S : Min(S) =< y
    BY DEF Min
<1>2. Min(S) \in Int /\ x \in Int /\ Min(S) =< x /\ x =< Min(S)
    BY <1>1
<1> QED
    BY <1>2

\* Remainders from one number to the next.
LEMMA NatTimesMonotone ==
    ASSUME NEW a \in Nat, NEW b \in Nat, NEW x \in Nat, a =< b
    PROVE  x * a =< x * b
<1>1. PICK d \in Nat : b = a + d
    <2>1. b - a \in Nat /\ b = a + (b - a)
        OBVIOUS
    <2> QED
        BY <2>1
<1>2. x * b = x * a + x * d
    BY <1>1
<1>3. x * a \in Nat /\ x * d \in Nat
    OBVIOUS
<1> QED
    BY <1>2, <1>3

LEMMA RemainderIs ==
    ASSUME NEW n \in Nat \ {0}, NEW a \in Nat, NEW c \in 0 .. n - 1
    PROVE  (n * a + c) % n = c
<1> DEFINE y == n * a + c
           q == y \div n
           m == y % n
<1>1. y \in Nat
    OBVIOUS
<1>2. y = n * q + m /\ q \in Nat /\ m \in 0 .. n - 1
    BY <1>1
<1>3. y = n * a + c
    OBVIOUS
<1> HIDE DEF q, m, y
<1>4. q + 1 =< a => FALSE
    <2> HAVE q + 1 =< a
    <2>1. n * (q + 1) =< n * a
        BY <1>2, NatTimesMonotone
    <2>2. n * (q + 1) = n * q + n /\ n * q \in Nat /\ n * a \in Nat
        BY <1>2
    <2> QED
        BY <1>2, <1>3, <2>1, <2>2
<1>5. a + 1 =< q => FALSE
    <2> HAVE a + 1 =< q
    <2>1. n * (a + 1) =< n * q
        BY <1>2, NatTimesMonotone
    <2>2. n * (a + 1) = n * a + n /\ n * q \in Nat /\ n * a \in Nat
        BY <1>2
    <2> QED
        BY <1>2, <1>3, <2>1, <2>2
<1>6. q = a
    BY <1>2, <1>4, <1>5
<1>7. m = c
    <2>1. n * a \in Nat
        OBVIOUS
    <2> QED
        BY <1>2, <1>3, <1>6, <2>1
<1> QED
    BY <1>7 DEF m, y

LEMMA NextRemainder ==
    ASSUME NEW n \in Nat \ {0}, NEW x \in Nat
    PROVE  /\ x % n \in 0 .. n - 1
           /\ (x + 1) % n = IF x % n = n - 1 THEN 0 ELSE (x % n) + 1
<1> DEFINE q == x \div n
           m == x % n
<1>1. x = n * q + m /\ m \in 0 .. n - 1 /\ q \in Nat
    OBVIOUS
<1> HIDE DEF q, m
<1>2. CASE m = n - 1
    <2>1. n * (q + 1) = n * q + n /\ n * q \in Nat
        BY <1>1
    <2>2. x + 1 = n * (q + 1) + 0
        BY <1>1, <1>2, <2>1
    <2>3. (n * (q + 1) + 0) % n = 0
        BY <1>1, RemainderIs
    <2> QED
        BY <1>1, <1>2, <2>2, <2>3 DEF m
<1>3. CASE m # n - 1
    <2>1. x + 1 = n * q + (m + 1) /\ m + 1 \in 0 .. n - 1
        <3>1. n * q \in Nat
            BY <1>1
        <3> QED
            BY <1>1, <1>3, <3>1
    <2>2. (n * q + (m + 1)) % n = m + 1
        BY <1>1, <2>1, RemainderIs
    <2> QED
        BY <1>1, <1>3, <2>1, <2>2 DEF m
<1> QED
    BY <1>2, <1>3

-----------------------------------------------------------------------------
LEMMA StrategiesInitInv == StrategiesInit => RecordsOK /\ PicksOK /\ RotationOK
<1> SUFFICES ASSUME StrategiesInit
             PROVE  RecordsOK /\ PicksOK /\ RotationOK
    OBVIOUS
<1>1. RecordsOK
    BY InitRecords DEF StrategiesInit
<1>2. NoPick \in Pick /\ PickShape(NoPick)
    BY DEF NoPick, Pick, Places, PickShape
<1>3. PicksOK
    BY <1>2 DEF StrategiesInit, PicksOK
<1>4. Width \in Nat /\ Width > 1
    BY StrategiesAssumption
<1>5. RotationOK
    <2>1. 0 % Len(Healthy) = 0
        BY HealthyFacts
    <2>2. next = 0 /\ turns = [b \in ToSet(Healthy) |-> 0]
        BY DEF StrategiesInit, NoTurns
    <2> QED
        BY <1>4, <2>1, <2>2, HealthyFacts DEF RotationOK
<1> QED
    BY <1>1, <1>3, <1>5

LEMMA RotationStep ==
    ASSUME RotationOK, NEW r \in Leases, TakeTurn(r)
    PROVE  RotationOK'
<1> DEFINE n == Len(Healthy)
           m == next % n
           b == Healthy[m + 1]
           H == ToSet(Healthy)
           more == [turns EXCEPT ![b] = @ + 1]
<1>0. /\ n \in Nat \ {0} /\ next \in 0 .. Width - 1 /\ Width \in Nat /\ Width > 1
      /\ turns \in [H -> Nat]
    BY HealthyFacts, StrategiesAssumption DEF RotationOK
<1>1. /\ m \in 0 .. n - 1
      /\ (next + 1) % n = IF m = n - 1 THEN 0 ELSE m + 1
    <2> HIDE DEF n
    <2>1. next \in Nat
        BY <1>0
    <2> QED
        BY <1>0, <2>1, NextRemainder
<1>2. b \in H /\ DOMAIN Healthy = 1 .. n
    BY <1>0, <1>1, HealthyFacts
<1>3. /\ next' = (next + 1) % Width
      /\ turns' = IF next' < next THEN NoTurns ELSE OneMore(b)
    BY DEF TakeTurn
<1>4. CASE next = Width - 1
    <2>1. next' = 0
        <3>1. Width % Width = 0
            <4>1. (Width * 1 + 0) % Width = 0
                BY <1>0, RemainderIs
            <4> QED
                BY <1>0, <4>1
        <3> QED
            BY <1>0, <1>3, <1>4, <3>1
    <2>2. turns' = [c \in H |-> 0]
        BY <1>0, <1>3, <1>4, <2>1 DEF NoTurns
    <2>3. 0 % n = 0
        BY <1>0
    <2> QED
        BY <1>0, <2>1, <2>2, <2>3, HealthyFacts DEF RotationOK
<1>5. CASE next # Width - 1
    <2>1. next' = next + 1
        <3>1. next + 1 \in 0 .. Width - 1
            BY <1>0, <1>5
        <3>2. (Width * 0 + (next + 1)) % Width = next + 1
            BY <1>0, <3>1, RemainderIs
        <3> QED
            BY <1>0, <1>3, <3>2
    <2>2. turns' = OneMore(b) /\ next' \in 0 .. Width - 1
        BY <1>0, <1>3, <1>5, <2>1
    <2>3. \A i \in 1 .. n : more[Healthy[i]] = IF i =< m + 1 THEN 1 ELSE 0
        <3> TAKE i \in 1 .. n
        <3>1. turns[Healthy[i]] = IF i =< m THEN 1 ELSE 0
            BY <1>2 DEF RotationOK
        <3>2. Healthy[i] \in H /\ (Healthy[i] = b <=> i = m + 1)
            BY <1>0, <1>1, <1>2, HealthyFacts
        <3>3. turns[b] = 0
            <4>1. m + 1 \in 1 .. n /\ ~(m + 1 =< m)
                BY <1>0, <1>1
            <4> QED
                BY <1>2, <4>1 DEF RotationOK
        <3>4. more[Healthy[i]] = IF i = m + 1 THEN 1 ELSE turns[Healthy[i]]
            <4> HIDE DEF b
            <4> QED
                BY <1>0, <1>2, <3>2, <3>3
        <3> HIDE DEF m, more
        <3> QED
            BY <1>0, <1>1, <3>1, <3>4
    <2>4. more \in [H -> Nat]
        BY <1>0, <1>2
    <2> DEFINE V == {more[c] : c \in H}
               least == Min(V)
    <2>5. OneMore(b) = [c \in H |-> more[c] - least]
        BY DEF OneMore
    <2> HIDE DEF more, b
    <2>6. \A c \in H : \E i \in 1 .. n : Healthy[i] = c
        BY <1>2, HealthyFacts
    <2>7. least = IF m = n - 1 THEN 1 ELSE 0
        <3> HIDE DEF m
        <3>1. CASE m = n - 1
            <4>1. \A c \in H : more[c] = 1
                BY <1>0, <2>3, <2>6, <3>1
            <4>2. 1 \in V /\ V \subseteq Int /\ \A y \in V : 1 =< y
                BY <1>2, <4>1
            <4> HIDE DEF V
            <4> QED
                BY <3>1, <4>2, MinIs DEF least
        <3>2. CASE m # n - 1
            <4>0. n \in 1 .. n /\ ~(n =< m + 1)
                BY <1>0, <1>1, <3>2
            <4>1. more[Healthy[n]] = 0 /\ Healthy[n] \in H
                BY <1>2, <2>3, <4>0, HealthyFacts
            <4>2. 0 \in V /\ V \subseteq Nat
                BY <2>4, <4>1
            <4>3. V \subseteq Int /\ \A y \in V : 0 =< y
                BY <4>2
            <4> HIDE DEF V
            <4> QED
                BY <3>2, <4>2, <4>3, MinIs DEF least
        <3> QED
            BY <3>1, <3>2
    <2> HIDE DEF least, m
    <2>8. \A i \in 1 .. n :
              turns'[Healthy[i]] = IF i =< (IF m = n - 1 THEN 0 ELSE m + 1) THEN 1 ELSE 0
        <3> TAKE i \in 1 .. n
        <3>1. turns'[Healthy[i]] = more[Healthy[i]] - least
            BY <1>2, <2>2, <2>5, HealthyFacts
        <3> QED
            BY <1>0, <1>1, <2>3, <2>7, <3>1
    <2>9. turns' \in [H -> Nat]
        <3>1. \A c \in H : more[c] - least \in Nat
            <4> TAKE c \in H
            <4>1. PICK i \in 1 .. n : Healthy[i] = c
                BY <2>6
            <4> QED
                BY <1>0, <1>1, <2>3, <2>7, <4>1
        <3> QED
            BY <2>2, <2>5, <3>1
    <2> QED
        BY <1>0, <1>1, <1>2, <2>1, <2>2, <2>8, <2>9 DEF RotationOK
<1> QED
    BY <1>4, <1>5

-----------------------------------------------------------------------------
\* A load is a number.
LEMMA MaxWithZero ==
    ASSUME NEW x \in Int
    PROVE  Max({x, 0}) = IF x > 0 THEN x ELSE 0
<1> DEFINE S == {x, 0}
<1>1. CASE x > 0
    <2>1. x \in S /\ S \subseteq Int /\ \A y \in S : x >= y
        BY <1>1
    <2> HIDE DEF S
    <2>2. Max(S) = x
        BY <2>1, MaxIs
    <2> QED
        BY <1>1, <2>2 DEF S
<1>2. CASE ~(x > 0)
    <2>1. 0 \in S /\ S \subseteq Int /\ \A y \in S : 0 >= y
        BY <1>2
    <2> HIDE DEF S
    <2>2. Max(S) = 0
        BY <2>1, MaxIs
    <2> QED
        BY <1>2, <2>2 DEF S
<1> QED
    BY <1>1, <1>2

LEMMA LoadIsNumber ==
    ASSUME NEW s, NEW n \in Int, NEW p \in Int, NEW c \in Nat
    PROVE  (IF s = "least_kvts" THEN -Max({c - p, 0}) ELSE n) \in Int
<1>1. c - p \in Int
    OBVIOUS
<1>2. Max({c - p, 0}) \in Int
    <2>1. Max({c - p, 0}) = IF c - p > 0 THEN c - p ELSE 0
        BY <1>1, MaxWithZero
    <2> QED
        BY <1>1, <2>1
<1> QED
    BY <1>2

LEMMA LoadsAreNumbers == RecordsOK => \A b \in Backends : LoadOf(b) \in Int
<1> SUFFICES ASSUME RecordsOK, NEW b \in Backends
             PROVE  LoadOf(b) \in Int
    OBVIOUS
<1>1. inflight[b] \in Int /\ kvProjected[b] \in Int /\ KvCapacity[b] \in Nat
    BY StrategiesAssumption DEF RecordsOK
<1> QED
    BY <1>1, LoadIsNumber DEF LoadOf

LEMMA LoadsStayNumbers == RecordsOK' => \A b \in Backends : LoadOf(b)' \in Int
<1> SUFFICES ASSUME RecordsOK', NEW b \in Backends
             PROVE  LoadOf(b)' \in Int
    OBVIOUS
<1>1. inflight'[b] \in Int /\ kvProjected'[b] \in Int /\ KvCapacity[b] \in Nat
    BY StrategiesAssumption DEF RecordsOK
<1> QED
    BY <1>1, LoadIsNumber DEF LoadOf

\* A step of a lease moves the counters of one backend at most.
LEMMA OneBackendMoves ==
    ASSUME RecordsOK, NEW r \in Leases,
           \/ OpenAddInflight(r) \/ OpenAddKv(r) \/ BeginRelease(r)
           \/ ReleaseSubInflight(r) \/ ReleaseSubKv(r)
           \/ \E n \in Batches : ObserveTokens(r, n)
    PROVE  /\ LeaseStep(r)
           /\ lease[r].backend \in Backends
           /\ \A b \in Backends \ {lease[r].backend} :
                  inflight'[b] = inflight[b] /\ kvProjected'[b] = kvProjected[b]
<1>1. LeaseStep(r)
    BY DEF LeaseStep
<1>2. lease[r].backend \in Backends
    BY DEF RecordsOK, LeaseShape, OpenAddInflight, OpenAddKv, BeginRelease,
           ReleaseSubInflight, ReleaseSubKv, ObserveTokens, Observed
<1>3. ASSUME NEW b \in Backends \ {lease[r].backend}
      PROVE  inflight'[b] = inflight[b] /\ kvProjected'[b] = kvProjected[b]
    <2>1. inflight \in [Backends -> Int] /\ kvProjected \in [Backends -> Int]
        BY DEF RecordsOK
    <2>2. CASE OpenAddInflight(r)
        BY <2>1, <2>2 DEF OpenAddInflight
    <2>3. CASE OpenAddKv(r)
        BY <2>1, <2>3 DEF OpenAddKv
    <2>4. CASE BeginRelease(r)
        BY <2>4 DEF BeginRelease
    <2>5. CASE ReleaseSubInflight(r)
        BY <2>1, <2>5 DEF ReleaseSubInflight
    <2>6. CASE ReleaseSubKv(r)
        BY <2>1, <2>6 DEF ReleaseSubKv
    <2>7. CASE \E n \in Batches : ObserveTokens(r, n)
        BY <2>1, <2>7 DEF ObserveTokens, Observed
    <2> QED
        BY <2>2, <2>3, <2>4, <2>5, <2>6, <2>7
<1> QED
    BY <1>1, <1>2, <1>3

\* So a pick under way is told of a move d that bounds the change of every
\* load, and the difference of the changes of any two.
LEMMA WorkMoves ==
    ASSUME RecordsOK, NEW r \in Leases, Work(r)
    PROVE  /\ RecordsOK' /\ strategy' = strategy
           /\ \E d \in Nat :
                /\ \A b \in Backends : /\ LoadOf(b)' =< LoadOf(b) + d
                                       /\ LoadOf(b) =< LoadOf(b)' + d
                /\ \A b, c \in Backends :
                       LoadOf(b)' + LoadOf(c) =< LoadOf(c)' + LoadOf(b) + d
                /\ pick' = [s \in Leases |->
                              IF pick[s].pc = "away" THEN pick[s]
                              ELSE [pick[s] EXCEPT !.moves = Min({@ + d, Many})]]
<1> DEFINE D == {Distance(LoadOf(b)', LoadOf(b)) : b \in Backends}
           d == Max(D)
<1>0. LeaseStep(r) /\ strategy' = strategy
    BY OneBackendMoves DEF Work
<1>1. PICK b0 \in Backends :
          \A b \in Backends \ {b0} :
              inflight'[b] = inflight[b] /\ kvProjected'[b] = kvProjected[b]
    BY OneBackendMoves DEF Work
<1>2. RecordsOK'
    BY <1>0, StepRecords
<1>3. \A b \in Backends : LoadOf(b) \in Int
    BY LoadsAreNumbers
<1>4. \A b \in Backends : LoadOf(b)' \in Int
    BY <1>2, LoadsStayNumbers
<1>5. \A b \in Backends \ {b0} : LoadOf(b)' = LoadOf(b)
    BY <1>0, <1>1 DEF LoadOf
<1>6. \A b \in Backends : Distance(LoadOf(b)', LoadOf(b)) \in Nat
    BY <1>3, <1>4 DEF Distance
<1>7. \A b \in Backends \ {b0} : Distance(LoadOf(b)', LoadOf(b)) = 0
    BY <1>3, <1>4, <1>5 DEF Distance
<1>8. d = Distance(LoadOf(b0)', LoadOf(b0)) /\ d \in Nat
    <2> DEFINE e == Distance(LoadOf(b0)', LoadOf(b0))
    <2>1. e \in D /\ e \in Nat /\ D \subseteq Int /\ \A y \in D : e >= y
        <3>1. e \in Nat
            BY <1>1, <1>6
        <3>2. \A b \in Backends : e >= Distance(LoadOf(b)', LoadOf(b))
            <4> TAKE b \in Backends
            <4>1. CASE b = b0
                BY <3>1, <4>1
            <4>2. CASE b # b0
                BY <1>7, <3>1, <4>2
            <4> QED
                BY <4>1, <4>2
        <3> QED
            BY <1>1, <1>6, <3>1, <3>2
    <2> HIDE DEF e, D
    <2> QED
        BY <2>1, MaxIs DEF e
<1>9. pick' = [s \in Leases |->
                 IF pick[s].pc = "away" THEN pick[s]
                 ELSE [pick[s] EXCEPT !.moves = Min({@ + d, Many})]]
    BY DEF Work
<1> HIDE DEF d
<1>10. LoadOf(b0)' =< LoadOf(b0) + d /\ LoadOf(b0) =< LoadOf(b0)' + d
    BY <1>1, <1>3, <1>4, <1>8 DEF Distance
<1>11. \A b \in Backends : LoadOf(b)' =< LoadOf(b) + d /\ LoadOf(b) =< LoadOf(b)' + d
    <2> TAKE b \in Backends
    <2>1. CASE b = b0
        BY <1>10, <2>1
    <2>2. CASE b # b0
        BY <1>3, <1>5, <1>8, <2>2
    <2> QED
        BY <2>1, <2>2
<1>12. \A b, c \in Backends : LoadOf(b)' + LoadOf(c) =< LoadOf(c)' + LoadOf(b) + d
    <2> TAKE b, c \in Backends
    <2>1. LoadOf(b) \in Int /\ LoadOf(c) \in Int /\ LoadOf(b)' \in Int /\ LoadOf(c)' \in Int
        BY <1>3, <1>4
    <2>2. CASE b = b0 /\ c = b0
        BY <1>8, <2>1, <2>2
    <2>3. CASE b # b0
        BY <1>5, <1>8, <1>11, <2>1, <2>3
    <2>4. CASE c # b0
        BY <1>5, <1>8, <1>11, <2>1, <2>4
    <2> QED
        BY <2>2, <2>3, <2>4
<1> QED
    BY <1>0, <1>2, <1>8, <1>9, <1>11, <1>12

-----------------------------------------------------------------------------
\* What a pick may load.
LEMMA SamplesAre ==
    ASSUME NEW s \in Samples
    PROVE  /\ s \in Seq(Backends) /\ \A i \in 1 .. Len(s) : s[i] \in ToSet(Healthy)
           /\ strategy \in {"least_requests", "least_kvts"} => s = Healthy
           /\ strategy = "p2c" =>
                \/ s = << >> /\ Len(Healthy) = 1
                \/ /\ Len(s) = 2 /\ s[1] # s[2]
                   /\ s[1] \in ToSet(Healthy) /\ s[2] \in ToSet(Healthy)
<1>1. CASE s = << >>
    <2>1. strategy \in {"least_requests", "least_kvts"} => s = Healthy
        BY DEF Samples
    <2>2. strategy = "p2c" => s = << >> /\ Len(Healthy) = 1
        <3>1. ASSUME strategy = "p2c", Len(Healthy) # 1
              PROVE  FALSE
            <4>1. s \in ToSet(Healthy) \X ToSet(Healthy)
                BY <3>1 DEF Samples
            <4>2. PICK a \in ToSet(Healthy), b \in ToSet(Healthy) : s = <<a, b>>
                BY <4>1
            <4>3. Len(<<a, b>>) = 2 /\ Len(<< >>) = 0
                OBVIOUS
            <4> QED
                BY <1>1, <4>2, <4>3
        <3> QED
            BY <1>1, <3>1
    <2> QED
        BY <1>1, <2>1, <2>2
<1>2. CASE s # << >> /\ strategy = "p2c"
    <2>1. s \in ToSet(Healthy) \X ToSet(Healthy) /\ s[1] # s[2]
        BY <1>2 DEF Samples
    <2>2. PICK a \in ToSet(Healthy), b \in ToSet(Healthy) : s = <<a, b>>
        BY <2>1
    <2>3. s \in Seq(Backends) /\ Len(s) = 2 /\ s[1] = a /\ s[2] = b
        BY <2>2, HealthyFacts
    <2> QED
        BY <1>2, <2>1, <2>3
<1>3. CASE s # << >> /\ strategy # "p2c"
    <2>1. s = Healthy
        BY <1>3 DEF Samples
    <2> QED
        BY <1>3, <2>1, HealthyFacts, StrategiesAssumption
<1> QED
    BY <1>1, <1>2, <1>3

\* Replacing one pick while the counters stay.
LEMMA UpdatePick ==
    ASSUME PicksOK, StalenessOK, NEW r \in Leases,
           NEW k \in Pick, PickShape(k), StaleOK(k),
           pick' = [pick EXCEPT ![r] = k],
           UNCHANGED <<inflight, kvProjected, strategy>>
    PROVE  PicksOK' /\ StalenessOK'
<1>1. \A s \in Leases : pick'[s] = IF s = r THEN k ELSE pick[s]
    BY DEF PicksOK
<1>2. ASSUME NEW s \in Leases
      PROVE  PickShape(pick[s])' /\ StaleOK(pick[s])'
    <2>1. PickShape(pick[s]) /\ StaleOK(pick[s])
        BY DEF PicksOK, StalenessOK
    <2>2. PickShape(pick'[s]) /\ StaleOK(pick'[s])
        BY <1>1, <2>1
    <2>3. \A b : LoadOf(b)' = LoadOf(b)
        BY DEF LoadOf
    <2>4. PickShape(pick[s])'
        BY <2>2 DEF PickShape, Samples
    <2>5. StaleOK(pick[s])'
        BY <2>2, <2>3 DEF StaleOK, LoadedOK, ChosenOK, ChosenOfTwoOK, Others
    <2> QED
        BY <2>4, <2>5
<1>3. pick' \in [Leases -> Pick]
    BY DEF PicksOK
<1> QED
    BY <1>2, <1>3 DEF PicksOK, StalenessOK

LEMMA StartStep ==
    ASSUME RecordsOK, PicksOK, StalenessOK, NEW r \in Leases,
           NEW p \in Prompts, NEW o \in Estimates, StartPick(r, p, o)
    PROVE  PicksOK' /\ StalenessOK'
<1>1. PICK s \in Samples :
          pick' = [pick EXCEPT ![r] = [NoPick EXCEPT !.pc = "loading", !.sample = s,
                                                       !.prompt = p, !.est = o]]
    BY DEF StartPick
<1> DEFINE k == [NoPick EXCEPT !.pc = "loading", !.sample = s, !.prompt = p, !.est = o]
<1>2. /\ k.pc = "loading" /\ k.sample = s /\ k.loads = << >> /\ k.trace = << >>
      /\ k.prompt = p /\ k.est = o
    BY DEF NoPick
<1>3. s \in Seq(Backends) /\ p \in Nat /\ o \in Nat
    BY SamplesAre, LeaseAssumption
<1>4. k \in Pick
    <2>1. NoPick \in Pick
        BY DEF NoPick, Pick, Places
    <2> QED
        BY <1>3, <2>1 DEF Pick, Places
<1> HIDE DEF k
<1>5. PickShape(k)
    BY <1>2, <1>3 DEF PickShape
<1>6. StaleOK(k)
    BY <1>2 DEF StaleOK, LoadedOK
<1>7. UNCHANGED <<inflight, kvProjected, strategy>> /\ pick' = [pick EXCEPT ![r] = k]
    BY <1>1 DEF StartPick, leaseVars, k
<1> QED
    BY <1>4, <1>5, <1>6, <1>7, UpdatePick

LEMMA LoadStep ==
    ASSUME RecordsOK, PicksOK, StalenessOK, NEW r \in Leases, LoadNext(r)
    PROVE  PicksOK' /\ StalenessOK'
<1> DEFINE k == pick[r]
           n == Len(k.loads) + 1
           x == LoadOf(k.sample[n])
           m == [k EXCEPT !.loads = Append(@, x)]
<1>1. k \in Pick /\ PickShape(k) /\ StaleOK(k)
    BY DEF PicksOK, StalenessOK
<1>2. k.pc = "loading" /\ Len(k.loads) < Len(k.sample)
    BY DEF LoadNext
<1>3. /\ k.loads \in Seq(Int) /\ k.sample \in Samples /\ k.sample \in Seq(Backends)
      /\ k.moves \in Nat /\ n \in 1 .. Len(k.sample)
    BY <1>1, <1>2, SamplesAre DEF PickShape, Pick
<1>4. \A i \in 1 .. Len(k.sample) : k.sample[i] \in Backends
    BY <1>3
<1>5. \A i \in 1 .. Len(k.sample) : LoadOf(k.sample[i]) \in Int
    BY <1>4, LoadsAreNumbers
<1>6. pick' = [pick EXCEPT ![r] = m] /\ UNCHANGED <<inflight, kvProjected, strategy>>
    BY DEF LoadNext, leaseVars, PicksOK
<1>7. /\ m.pc = "loading" /\ m.sample = k.sample /\ m.loads = Append(k.loads, x)
      /\ m.trace = k.trace /\ m.moves = k.moves /\ m.prompt = k.prompt /\ m.est = k.est
    BY <1>1, <1>2 DEF Pick
<1>8. x \in Int
    BY <1>3, <1>5
<1>9. m \in Pick
    <2>1. Append(k.loads, x) \in Seq(Int)
        BY <1>3, <1>8
    <2> HIDE DEF x
    <2>2. m = [k EXCEPT !.loads = Append(k.loads, x)]
        BY <1>1 DEF Pick
    <2> HIDE DEF m, k
    <2> QED
        BY <1>1, <2>1, <2>2 DEF Pick
<1> HIDE DEF k, m, x
<1>10. /\ Len(m.loads) = n /\ m.loads[n] = x
       /\ \A i \in 1 .. n - 1 : m.loads[i] = k.loads[i]
    BY <1>3, <1>7, <1>8
<1>11. PickShape(m)
    BY <1>1, <1>2, <1>3, <1>7, <1>10 DEF PickShape
<1>12. StaleOK(m)
    <2> SUFFICES ASSUME m.moves < Many
                 PROVE  LoadedOK(m)
        BY <1>7 DEF StaleOK
    <2>1. LoadedOK(k)
        BY <1>1, <1>2, <1>7 DEF StaleOK
    <2> DEFINE Now(i) == LoadOf(k.sample[i])
    <2>2. Now(n) = x
        BY DEF x
    <2>3. \A i \in 1 .. n : Now(i) \in Int
        BY <1>3, <1>5
    <2>4. \A i \in 1 .. n - 1 :
              /\ k.loads[i] \in Int
              /\ Now(i) =< k.loads[i] + k.moves
              /\ k.loads[i] =< Now(i) + k.moves
              /\ \A j \in 1 .. n - 1 : Now(i) + k.loads[j] =< Now(j) + k.loads[i] + k.moves
        BY <1>3, <2>1 DEF LoadedOK
    <2> HIDE DEF Now
    <2>5. \A i \in 1 .. n :
              /\ Now(i) =< m.loads[i] + k.moves
              /\ m.loads[i] =< Now(i) + k.moves
              /\ \A j \in 1 .. n : Now(i) + m.loads[j] =< Now(j) + m.loads[i] + k.moves
        <3> TAKE i \in 1 .. n
        <3>1. CASE i = n
            <4>1. m.loads[i] = x /\ Now(i) = x /\ x =< x + k.moves
                BY <1>3, <1>8, <1>10, <2>2, <3>1
            <4>2. \A j \in 1 .. n : Now(i) + m.loads[j] =< Now(j) + m.loads[i] + k.moves
                <5> TAKE j \in 1 .. n
                <5>1. CASE j = n
                    BY <1>3, <1>8, <1>10, <2>2, <4>1, <5>1
                <5>2. CASE j # n
                    <6>1. j \in 1 .. n - 1
                        BY <5>2, <1>3
                    <6>2. m.loads[j] = k.loads[j]
                        BY <1>10, <6>1
                    <6>3. /\ k.loads[j] \in Int /\ k.loads[j] =< Now(j) + k.moves
                          /\ Now(j) \in Int /\ k.moves \in Int
                        <7>1. k.loads[j] \in Int /\ k.loads[j] =< Now(j) + k.moves
                            BY <2>4, <6>1, Zenon
                        <7>2. k.moves \in Int /\ j \in 1 .. n
                            BY <1>3
                        <7>3. Now(j) \in Int
                            BY <2>3, <7>2, Zenon
                        <7> QED
                            BY <7>1, <7>2, <7>3
                    <6>4. x + k.loads[j] =< Now(j) + x + k.moves
                        BY <1>8, <6>3
                    <6> QED
                        BY <4>1, <6>2, <6>4
                <5> QED
                    BY <5>1, <5>2
            <4> QED
                BY <4>1, <4>2
        <3>2. CASE i # n
            <4>1. i \in 1 .. n - 1
                BY <1>3, <3>2
            <4>2. m.loads[i] = k.loads[i]
                BY <1>10, <4>1
            <4>3. \A j \in 1 .. n : Now(i) + m.loads[j] =< Now(j) + m.loads[i] + k.moves
                <5> TAKE j \in 1 .. n
                <5>1. CASE j = n
                    <6>1. m.loads[j] = x /\ Now(j) = x
                        BY <1>10, <2>2, <5>1
                    <6>2. /\ k.loads[i] \in Int /\ Now(i) =< k.loads[i] + k.moves
                          /\ Now(i) \in Int /\ k.moves \in Int
                        BY <1>3, <2>3, <2>4, <4>1
                    <6>3. Now(i) + x =< x + k.loads[i] + k.moves
                        BY <1>8, <6>2
                    <6> QED
                        BY <4>2, <6>1, <6>3
                <5>2. CASE j # n
                    <6>1. j \in 1 .. n - 1
                        BY <5>2, <1>3
                    <6>2. m.loads[j] = k.loads[j]
                        BY <1>10, <6>1
                    <6> QED
                        BY <2>4, <4>1, <4>2, <6>1, <6>2
                <5> QED
                    BY <5>1, <5>2
            <4> QED
                BY <2>4, <4>1, <4>2, <4>3
        <3> QED
            BY <3>1, <3>2
    <2>6. \A i : Now(i) = LoadOf(m.sample[i])
        BY <1>7 DEF Now
    <2> QED
        BY <1>7, <1>10, <2>5, <2>6 DEF LoadedOK
<1> QED
    BY <1>6, <1>9, <1>11, <1>12, UpdatePick

LEMMA ChooseStep ==
    ASSUME RecordsOK, PicksOK, StalenessOK, NEW r \in Leases, Choose(r)
    PROVE  PicksOK' /\ StalenessOK'
<1> DEFINE k == pick[r]
<1>1. k \in Pick /\ PickShape(k) /\ StaleOK(k)
    BY DEF PicksOK, StalenessOK
<1>2. /\ k.pc = "loading" /\ Len(k.loads) = Len(k.sample) /\ strategy # "round_robin"
      /\ UNCHANGED <<inflight, kvProjected, strategy>>
    BY DEF Choose, leaseVars
<1>3. PICK b \in Preferred(k) :
          pick' = [pick EXCEPT ![r] = [k EXCEPT !.pc = "recording", !.chosen = b,
                                                  !.sample = << >>, !.loads = << >>]]
    BY DEF Choose
<1> DEFINE m == [k EXCEPT !.pc = "recording", !.chosen = b, !.sample = << >>, !.loads = << >>]
           n == Len(k.sample)
<1>4. /\ k.sample \in Samples /\ k.trace = << >> /\ k.moves \in Nat /\ k.loads \in Seq(Int)
      /\ k.prompt \in Prompts /\ k.est \in Estimates
    BY <1>1, <1>2 DEF PickShape, Pick
<1>5. /\ m.pc = "recording" /\ m.chosen = b /\ m.trace = << >> /\ m.moves = k.moves
      /\ m.prompt = k.prompt /\ m.est = k.est
    BY <1>1, <1>4 DEF Pick
<1> HIDE DEF k
<1>6. /\ n \in Nat /\ Len(k.loads) = n
      /\ \A i \in 1 .. n : k.sample[i] \in ToSet(Healthy) /\ k.loads[i] \in Int
      /\ \A i \in 1 .. n : LoadOf(k.sample[i]) \in Int
    BY <1>2, <1>4, SamplesAre, HealthyFacts, LoadsAreNumbers
<1>7. strategy \in {"least_requests", "least_kvts", "p2c"}
    BY <1>2, StrategiesAssumption DEF PicksOK
<1>8. k.sample = << >> => b = Healthy[1] /\ b \in ToSet(Healthy)
    <2>1. Healthy[1] \in ToSet(Healthy)
        BY HealthyFacts
    <2>2. k.sample = << >> => Preferred(k) = {Healthy[1]}
        BY DEF Preferred
    <2> QED
        BY <2>1, <2>2
<1>9. k.sample # << >> =>
          \E i \in 1 .. n : b = k.sample[i] /\
              (strategy # "p2c" => \A j \in 1 .. n : k.loads[i] =< k.loads[j])
    <2> SUFFICES ASSUME k.sample # << >>
                 PROVE  \E i \in 1 .. n : b = k.sample[i] /\
                           (strategy # "p2c" => \A j \in 1 .. n : k.loads[i] =< k.loads[j])
        OBVIOUS
    <2>1. CASE strategy = "p2c"
        <3>1. b \in {k.sample[1], k.sample[2]} /\ n = 2
            BY <1>4, <2>1, SamplesAre DEF Preferred
        <3> QED
            BY <2>1, <3>1
    <2>2. CASE strategy # "p2c"
        <3>1. b \in Ties(k)
            BY <2>2 DEF Preferred
        <3>2. DOMAIN k.loads = 1 .. n
            BY <1>2, <1>4
        <3> QED
            BY <3>1, <3>2 DEF Ties
    <2> QED
        BY <2>1, <2>2
<1>10. b \in ToSet(Healthy) /\ b \in Backends
    BY <1>6, <1>8, <1>9, HealthyFacts
<1>11. m \in Pick
    <2>1. << >> \in Seq(Backends) /\ << >> \in Seq(Int)
        OBVIOUS
    <2> QED
        BY <1>1, <1>10, <2>1 DEF Pick, Places
<1> HIDE DEF m
<1>12. PickShape(m)
    BY <1>4, <1>5, <1>10, HealthyFacts DEF PickShape
<1>13. StaleOK(m)
    <2> SUFFICES ASSUME m.moves < Many
                 PROVE  /\ strategy \in {"least_requests", "least_kvts"} => ChosenOK(m)
                        /\ strategy = "p2c" => ChosenOfTwoOK(m)
        BY <1>5 DEF StaleOK
    <2>1. \A i, j \in 1 .. n :
              LoadOf(k.sample[i]) + k.loads[j] =< LoadOf(k.sample[j]) + k.loads[i] + k.moves
        BY <1>1, <1>2, <1>5, <1>6 DEF StaleOK, LoadedOK
    <2>2. ASSUME NEW i \in 1 .. n, NEW j \in 1 .. n, k.loads[i] =< k.loads[j]
          PROVE  LoadOf(k.sample[i]) =< LoadOf(k.sample[j]) + k.moves
        <3> DEFINE x == LoadOf(k.sample[i])
                   y == LoadOf(k.sample[j])
        <3>1. x \in Int /\ y \in Int /\ k.loads[i] \in Int /\ k.loads[j] \in Int
              /\ x + k.loads[j] =< y + k.loads[i] + k.moves
              /\ k.moves \in Int /\ k.loads[i] =< k.loads[j]
            BY <1>4, <1>6, <2>1, <2>2
        <3> HIDE DEF x, y
        <3>2. x =< y + k.moves
            BY <3>1
        <3> QED
            BY <3>2 DEF x, y
    <2>3. CASE strategy \in {"least_requests", "least_kvts"}
        <3>1. k.sample = Healthy /\ Healthy # << >>
            BY <1>4, <2>3, SamplesAre, StrategiesAssumption
        <3>2. PICK i \in 1 .. n : b = k.sample[i] /\ \A j \in 1 .. n : k.loads[i] =< k.loads[j]
            BY <1>9, <2>3, <3>1
        <3>3. \A c \in ToSet(Healthy) : LoadOf(b) =< LoadOf(c) + k.moves
            <4> TAKE c \in ToSet(Healthy)
            <4>1. PICK j \in 1 .. n : k.sample[j] = c
                BY <3>1, HealthyFacts
            <4> QED
                BY <2>2, <3>2, <4>1
        <3>4. Len(m.trace) = 0
            BY <1>5
        <3>5. ChosenOK(m)
            BY <1>5, <3>3, <3>4 DEF ChosenOK
        <3> QED
            BY <2>3, <3>5
    <2>4. CASE strategy = "p2c"
        <3>1. CASE k.sample = << >>
            <4>1. Len(Healthy) = 1
                BY <1>4, <2>4, <3>1, SamplesAre
            <4>2. ToSet(Healthy) \subseteq {b}
                BY <1>8, <3>1, <4>1, HealthyFacts
            <4> QED
                BY <1>5, <2>4, <4>2 DEF ChosenOfTwoOK, Others
        <3>2. CASE k.sample # << >>
            <4>1. n = 2 /\ k.sample[1] # k.sample[2]
                BY <1>4, <2>4, <3>2, SamplesAre
            <4>2. b = IF k.loads[1] =< k.loads[2] THEN k.sample[1] ELSE k.sample[2]
                BY <2>4, <3>2 DEF Preferred
            <4>3. PICK i \in {1, 2}, j \in {1, 2} :
                      i # j /\ b = k.sample[i] /\ k.loads[i] =< k.loads[j]
                <5>1. k.loads[1] \in Int /\ k.loads[2] \in Int
                    BY <1>6, <4>1
                <5> QED
                    BY <4>2, <5>1
            <4>4. k.sample[j] \in Others(b)
                BY <1>6, <4>1, <4>3 DEF Others
            <4>5. LoadOf(b) =< LoadOf(k.sample[j]) + k.moves
                BY <2>2, <4>1, <4>3
            <4> QED
                BY <1>5, <2>4, <4>4, <4>5 DEF ChosenOfTwoOK
        <3> QED
            BY <3>1, <3>2
    <2> QED
        BY <1>7, <2>3, <2>4
<1>14. pick' = [pick EXCEPT ![r] = m]
    BY <1>3 DEF m
<1> QED
    BY <1>2, <1>11, <1>12, <1>13, <1>14, UpdatePick

LEMMA TurnStep ==
    ASSUME RecordsOK, PicksOK, StalenessOK, RotationOK, NEW r \in Leases, TakeTurn(r)
    PROVE  PicksOK' /\ StalenessOK'
<1> DEFINE k == pick[r]
           b == Healthy[(next % Len(Healthy)) + 1]
           m == [k EXCEPT !.pc = "recording", !.chosen = b]
<1>1. k \in Pick /\ PickShape(k) /\ StaleOK(k)
    BY DEF PicksOK, StalenessOK
<1>2. /\ k.pc = "loading" /\ strategy = "round_robin"
      /\ UNCHANGED <<inflight, kvProjected, strategy>>
    BY DEF TakeTurn, leaseVars
<1>3. b \in ToSet(Healthy) /\ b \in Backends
    <2>1. next \in Nat /\ Len(Healthy) \in Nat \ {0}
        BY HealthyFacts, StrategiesAssumption DEF RotationOK
    <2>2. (next % Len(Healthy)) + 1 \in 1 .. Len(Healthy)
        BY <2>1
    <2> QED
        BY <2>2, HealthyFacts
<1>4. pick' = [pick EXCEPT ![r] = m]
    BY DEF TakeTurn, PicksOK
<1> HIDE DEF k, b
<1>5. /\ m.pc = "recording" /\ m.chosen = b /\ m.trace = k.trace
      /\ m.prompt = k.prompt /\ m.est = k.est
    BY <1>1 DEF Pick
<1>6. m \in Pick
    BY <1>1, <1>3 DEF Pick, Places
<1> HIDE DEF m
<1>7. PickShape(m)
    <2>1. Len(k.trace) = 0
        BY <1>1, <1>2 DEF PickShape
    <2> QED
        BY <1>1, <1>2, <1>3, <1>5, <2>1, HealthyFacts DEF PickShape
<1>8. StaleOK(m)
    BY <1>2, <1>5 DEF StaleOK
<1> QED
    BY <1>2, <1>4, <1>6, <1>7, <1>8, UpdatePick

LEMMA RecordStep ==
    ASSUME RecordsOK, PicksOK, StalenessOK, NEW r \in Leases, RecordNext(r)
    PROVE  PicksOK' /\ StalenessOK'
<1> DEFINE k == pick[r]
           n == Len(k.trace) + 1
           x == LoadOf(Healthy[n])
           m == [k EXCEPT !.trace = Append(@, x)]
<1>1. k \in Pick /\ PickShape(k) /\ StaleOK(k)
    BY DEF PicksOK, StalenessOK
<1>2. k.pc = "recording" /\ Len(k.trace) < Len(Healthy)
    BY DEF RecordNext
<1>3. /\ k.trace \in Seq(Int) /\ k.moves \in Nat /\ n \in 1 .. Len(Healthy)
      /\ k.chosen \in ToSet(Healthy) /\ Healthy[n] \in ToSet(Healthy)
    <2>1. k.trace \in Seq(Int) /\ k.moves \in Nat /\ k.chosen \in ToSet(Healthy)
        BY <1>1, <1>2 DEF PickShape, Pick
    <2>2. n \in 1 .. Len(Healthy)
        BY <1>2, <2>1, HealthyFacts
    <2> QED
        BY <2>1, <2>2, HealthyFacts
<1>4. pick' = [pick EXCEPT ![r] = m] /\ UNCHANGED <<inflight, kvProjected, strategy>>
    BY DEF RecordNext, leaseVars, PicksOK
<1>5. /\ m.pc = "recording" /\ m.chosen = k.chosen /\ m.trace = Append(k.trace, x)
      /\ m.moves = k.moves /\ m.prompt = k.prompt /\ m.est = k.est
    BY <1>1, <1>2 DEF Pick
<1>6. x \in Int /\ \A c \in ToSet(Healthy) : LoadOf(c) \in Int
    BY <1>3, HealthyFacts, LoadsAreNumbers
<1>7. m \in Pick
    <2>1. Append(k.trace, x) \in Seq(Int)
        BY <1>3, <1>6
    <2> HIDE DEF x
    <2>2. m = [k EXCEPT !.trace = Append(k.trace, x)]
        BY <1>1 DEF Pick
    <2> HIDE DEF m, k
    <2> QED
        BY <1>1, <2>1, <2>2 DEF Pick
<1> HIDE DEF k, m, x
<1>8. /\ Len(m.trace) = n /\ m.trace[n] = x
      /\ \A i \in 1 .. n - 1 : m.trace[i] = k.trace[i] /\ k.trace[i] \in Int
    BY <1>3, <1>5, <1>6
<1>9. PickShape(m)
    BY <1>1, <1>2, <1>3, <1>5, <1>8 DEF PickShape
<1>10. StaleOK(m)
    <2>1. CASE strategy \in {"least_requests", "least_kvts"}
        <3> SUFFICES ASSUME m.moves < Many
                     PROVE  ChosenOK(m)
            BY <1>5, <2>1 DEF StaleOK
        <3> DEFINE C == k.chosen
                   Now == LoadOf(C)
        <3>1. ChosenOK(k)
            BY <1>1, <1>2, <1>5, <2>1 DEF StaleOK
        <3>2. \A c \in ToSet(Healthy) : Now =< LoadOf(c) + k.moves
            BY <3>1 DEF ChosenOK
        <3>3. \A j \in 1 .. n - 1 : Now =< k.trace[j] + k.moves
            BY <1>3, <3>1 DEF ChosenOK
        <3>4. \A i \in 1 .. n - 1 : Healthy[i] = C =>
                /\ \A c \in ToSet(Healthy) : k.trace[i] =< LoadOf(c) + k.moves
                /\ \A j \in 1 .. n - 1 : k.trace[i] =< k.trace[j] + k.moves
            BY <1>3, <3>1 DEF ChosenOK
        <3>5. Now =< x + k.moves
            BY <1>3, <3>2 DEF x
        <3>6. \A j \in 1 .. n : Now =< m.trace[j] + k.moves
            <4> TAKE j \in 1 .. n
            <4>1. CASE j = n
                BY <1>8, <3>5, <4>1
            <4>2. CASE j # n
                <5>1. j \in 1 .. n - 1
                    BY <1>3, <4>2
                <5> QED
                    BY <1>8, <3>3, <5>1
            <4> QED
                BY <4>1, <4>2
        <3>7. \A i \in 1 .. n : Healthy[i] = C =>
                /\ \A c \in ToSet(Healthy) : m.trace[i] =< LoadOf(c) + k.moves
                /\ \A j \in 1 .. n : m.trace[i] =< m.trace[j] + k.moves
            <4> SUFFICES ASSUME NEW i \in 1 .. n, Healthy[i] = C
                         PROVE  /\ \A c \in ToSet(Healthy) : m.trace[i] =< LoadOf(c) + k.moves
                                /\ \A j \in 1 .. n : m.trace[i] =< m.trace[j] + k.moves
                OBVIOUS
            <4>1. CASE i = n
                <5>1. m.trace[i] = Now
                    BY <1>8, <4>1 DEF x
                <5> QED
                    BY <3>2, <3>6, <5>1
            <4>2. CASE i # n
                <5>1. i \in 1 .. n - 1
                    BY <1>3, <4>2
                <5>2. \A c \in ToSet(Healthy) : m.trace[i] =< LoadOf(c) + k.moves
                    BY <1>8, <3>4, <5>1
                <5>3. \A j \in 1 .. n : m.trace[i] =< m.trace[j] + k.moves
                    <6> TAKE j \in 1 .. n
                    <6>1. CASE j = n
                        BY <1>3, <1>8, <5>2, <6>1 DEF x
                    <6>2. CASE j # n
                        <7>1. j \in 1 .. n - 1
                            BY <1>3, <6>2
                        <7> QED
                            BY <1>8, <3>4, <5>1, <7>1
                    <6> QED
                        BY <6>1, <6>2
                <5> QED
                    BY <5>2, <5>3
            <4> QED
                BY <4>1, <4>2
        <3> QED
            BY <1>5, <1>8, <3>2, <3>6, <3>7 DEF ChosenOK
    <2>2. CASE strategy \notin {"least_requests", "least_kvts"}
        BY <1>1, <1>2, <1>5, <2>2 DEF StaleOK, ChosenOfTwoOK
    <2> QED
        BY <2>1, <2>2
<1> QED
    BY <1>4, <1>7, <1>9, <1>10, UpdatePick

LEMMA DispatchStep ==
    ASSUME RecordsOK, PicksOK, StalenessOK, NEW r \in Leases, Dispatch(r)
    PROVE  /\ PicksOK' /\ StalenessOK' /\ RecordsOK'
<1> DEFINE k == pick[r]
<1>1. k \in Pick /\ PickShape(k) /\ k.pc = "recording"
    BY DEF PicksOK, Dispatch
<1>2. k.chosen \in Backends /\ k.prompt \in Prompts /\ k.est \in Estimates
    BY <1>1, HealthyFacts DEF PickShape
<1>3. LeaseStep(r)
    BY <1>2 DEF Dispatch, LeaseStep
<1>4. RecordsOK'
    BY <1>3, StepRecords
<1>5. /\ pick' = [pick EXCEPT ![r] = NoPick]
      /\ UNCHANGED <<inflight, kvProjected, strategy>>
    BY DEF Dispatch, BeginOpen
<1>6. NoPick \in Pick /\ PickShape(NoPick) /\ StaleOK(NoPick)
    BY DEF NoPick, Pick, Places, PickShape, StaleOK
<1> QED
    BY <1>4, <1>5, <1>6, UpdatePick

LEMMA Capped ==
    ASSUME NEW a \in Nat
    PROVE  /\ Min({a, Many}) \in Nat
           /\ Min({a, Many}) < Many => Min({a, Many}) = a
<1> DEFINE S == {a, Many}
<1>1. Many \in Nat
    BY StrategiesAssumption
<1>2. CASE a =< Many
    <2>1. a \in S /\ S \subseteq Int /\ \A y \in S : a =< y
        BY <1>1, <1>2
    <2> HIDE DEF S
    <2>2. Min(S) = a
        BY <2>1, MinIs
    <2> QED
        BY <2>2 DEF S
<1>3. CASE ~(a =< Many)
    <2>1. Many \in S /\ S \subseteq Int /\ \A y \in S : Many =< y
        BY <1>1, <1>3
    <2> HIDE DEF S
    <2>2. Min(S) = Many
        BY <2>1, MinIs
    <2> QED
        BY <1>1, <2>2 DEF S
<1> QED
    BY <1>2, <1>3

\* Inequalities add up.
LEMMA Adds ==
    ASSUME NEW x \in Int, NEW y \in Int, NEW w \in Int, NEW m \in Int, NEW d \in Int,
           x =< y + m, y =< w + d
    PROVE  x =< w + (m + d)
    OBVIOUS

LEMMA AddsAcross ==
    ASSUME NEW x \in Int, NEW y \in Int, NEW v \in Int, NEW w \in Int,
           NEW m \in Int, NEW d \in Int, x =< y + m, v + y =< w + x + d
    PROVE  v =< w + (m + d)
    OBVIOUS

LEMMA WorkStep ==
    ASSUME RecordsOK, PicksOK, StalenessOK, NEW r \in Leases, Work(r)
    PROVE  PicksOK' /\ StalenessOK' /\ RecordsOK'
<1>1. RecordsOK' /\ strategy' = strategy
    BY WorkMoves
<1>2. PICK d \in Nat :
          /\ \A b \in Backends : LoadOf(b)' =< LoadOf(b) + d /\ LoadOf(b) =< LoadOf(b)' + d
          /\ \A b, c \in Backends : LoadOf(b)' + LoadOf(c) =< LoadOf(c)' + LoadOf(b) + d
          /\ pick' = [s \in Leases |->
                        IF pick[s].pc = "away" THEN pick[s]
                        ELSE [pick[s] EXCEPT !.moves = Min({@ + d, Many})]]
    BY WorkMoves
<1>3. \A b \in Backends : LoadOf(b) \in Int /\ LoadOf(b)' \in Int
    BY <1>1, LoadsAreNumbers, LoadsStayNumbers
<1>4. ASSUME NEW s \in Leases
      PROVE  pick'[s] \in Pick /\ PickShape(pick[s])' /\ StaleOK(pick[s])'
    <2>0. PICK k, m : k = pick[s] /\ m = pick'[s]
        OBVIOUS
    <2>1. k \in Pick /\ PickShape(k) /\ StaleOK(k)
        BY <2>0 DEF PicksOK, StalenessOK
    <2>2. CASE k.pc = "away"
        <3>1. m = k
            BY <1>2, <2>0, <2>2
        <3>2. PickShape(pick[s])'
            BY <1>1, <2>0, <2>1, <2>2, <3>1 DEF PickShape
        <3>3. StaleOK(pick[s])'
            BY <2>0, <2>2, <3>1 DEF StaleOK
        <3> QED
            BY <2>0, <2>1, <3>1, <3>2, <3>3
    <2>3. CASE k.pc # "away"
        <3> DEFINE z == Min({k.moves + d, Many})
        <3>1. m = [k EXCEPT !.moves = z]
            BY <1>2, <2>0, <2>3
        <3>2. k.moves \in Nat /\ z \in Nat /\ (z < Many => z = k.moves + d)
            <4>1. k.moves \in Nat
                BY <2>1 DEF Pick
            <4>2. k.moves + d \in Nat
                BY <4>1
            <4> QED
                BY <4>1, <4>2, Capped
        <3> HIDE DEF z
        <3>3. /\ m \in Pick /\ m.moves = z
              /\ m.pc = k.pc /\ m.sample = k.sample /\ m.loads = k.loads
              /\ m.trace = k.trace /\ m.chosen = k.chosen
              /\ m.prompt = k.prompt /\ m.est = k.est
            BY <2>1, <3>1, <3>2 DEF Pick
        <3>4. PickShape(pick[s])'
            BY <1>1, <2>0, <2>1, <2>3, <3>3 DEF PickShape, Samples
        <3>5. ASSUME z < Many, k.pc = "loading"
              PROVE  LoadedOK(pick[s])'
            <4>1. LoadedOK(k)
                <5>1. k.moves < Many
                    BY <3>2, <3>5, StrategiesAssumption
                <5> QED
                    BY <2>1, <3>5, <5>1 DEF StaleOK
            <4>2. /\ k.loads \in Seq(Int) /\ Len(k.loads) \in Nat /\ z = k.moves + d
                  /\ \A i \in 1 .. Len(k.loads) : k.sample[i] \in Backends /\ k.loads[i] \in Int
                <5>1. k.sample \in Samples /\ k.loads \in Seq(Int) /\ Len(k.loads) =< Len(k.sample)
                    BY <2>1, <3>5 DEF Pick, PickShape
                <5>2. k.sample \in Seq(Backends)
                    BY <5>1, SamplesAre
                <5> QED
                    BY <3>2, <3>5, <5>1, <5>2
            <4>3. ASSUME NEW i \in 1 .. Len(k.loads)
                  PROVE  /\ LoadOf(k.sample[i])' =< k.loads[i] + z
                         /\ k.loads[i] =< LoadOf(k.sample[i])' + z
                         /\ \A j \in 1 .. Len(k.loads) :
                                LoadOf(k.sample[i])' + k.loads[j] =< LoadOf(k.sample[j])' + k.loads[i] + z
                <5>1. PICK b \in Backends : b = k.sample[i]
                    BY <4>2
                <5>2. LoadOf(b) =< k.loads[i] + k.moves /\ k.loads[i] =< LoadOf(b) + k.moves
                    BY <4>1, <5>1 DEF LoadedOK
                <5>3. LoadOf(b)' =< k.loads[i] + z /\ k.loads[i] =< LoadOf(b)' + z
                    <6>1. /\ LoadOf(b) \in Int /\ LoadOf(b)' \in Int /\ k.loads[i] \in Int
                          /\ k.moves \in Int /\ d \in Int
                        BY <1>3, <3>2, <4>2
                    <6>2. LoadOf(b)' =< LoadOf(b) + d /\ LoadOf(b) =< LoadOf(b)' + d
                        BY <1>2
                    <6>3. LoadOf(b)' =< k.loads[i] + (d + k.moves)
                        BY <5>2, <6>1, <6>2, Adds
                    <6>4. k.loads[i] =< LoadOf(b)' + (k.moves + d)
                        BY <5>2, <6>1, <6>2, Adds
                    <6>5. d + k.moves = z /\ k.moves + d = z
                        BY <3>2, <4>2, <6>1
                    <6> QED
                        BY <6>3, <6>4, <6>5
                <5>4. ASSUME NEW j \in 1 .. Len(k.loads)
                      PROVE  LoadOf(b)' + k.loads[j] =< LoadOf(k.sample[j])' + k.loads[i] + z
                    <6>1. PICK c \in Backends : c = k.sample[j]
                        BY <4>2
                    <6>2. LoadOf(b) + k.loads[j] =< LoadOf(c) + k.loads[i] + k.moves
                        BY <4>1, <5>1, <6>1 DEF LoadedOK
                    <6>3. LoadOf(b)' + LoadOf(c) =< LoadOf(c)' + LoadOf(b) + d
                        BY <1>2
                    <6>4. /\ k.loads[i] \in Int /\ k.loads[j] \in Int /\ k.moves \in Int
                          /\ LoadOf(b) \in Int /\ LoadOf(b)' \in Int
                          /\ LoadOf(c) \in Int /\ LoadOf(c)' \in Int /\ z = k.moves + d
                        BY <1>3, <3>2, <4>2
                    <6>5. LoadOf(b)' + k.loads[j] =< LoadOf(c)' + k.loads[i] + (k.moves + d)
                        <7>1. PICK x \in Int, y \in Int, v \in Int, w \in Int,
                                   li \in Int, lj \in Int, mv \in Int :
                                  /\ x = LoadOf(b) /\ y = LoadOf(c)
                                  /\ v = LoadOf(b)' /\ w = LoadOf(c)'
                                  /\ li = k.loads[i] /\ lj = k.loads[j] /\ mv = k.moves
                            BY <6>4
                        <7>2. x + lj =< y + li + mv /\ v + y =< w + x + d
                            BY <6>2, <6>3, <7>1
                        <7>3. v + lj =< w + li + (mv + d)
                            BY <7>2
                        <7> QED
                            BY <7>1, <7>3
                    <6> QED
                        BY <6>1, <6>4, <6>5
                <5> QED
                    BY <5>1, <5>3, <5>4
            <4> QED
                BY <2>0, <3>3, <4>3 DEF LoadedOK
        <3>6. ASSUME z < Many, k.pc = "recording", strategy \in {"least_requests", "least_kvts"}
              PROVE  ChosenOK(pick[s])'
            <4>1. ChosenOK(k)
                <5>1. k.moves < Many
                    BY <3>2, <3>6, StrategiesAssumption
                <5> QED
                    BY <2>1, <3>6, <5>1 DEF StaleOK
            <4>2. /\ z = k.moves + d /\ k.chosen \in Backends
                  /\ Len(k.trace) \in Nat /\ Len(k.trace) =< Len(Healthy)
                  /\ \A i \in 1 .. Len(k.trace) : k.trace[i] \in Int
                BY <2>1, <3>2, <3>6, HealthyFacts DEF Pick, PickShape
            <4>3. PICK b \in Backends : b = k.chosen
                BY <4>2
            <4>4. LoadOf(b) \in Int /\ LoadOf(b)' \in Int /\ LoadOf(b)' =< LoadOf(b) + d
                BY <1>2, <1>3
            <4>5. ASSUME NEW c \in ToSet(Healthy)
                  PROVE  LoadOf(b)' =< LoadOf(c)' + z
                <5>1. c \in Backends
                    BY HealthyFacts
                <5>2. LoadOf(b) =< LoadOf(c) + k.moves
                    BY <4>1, <4>3 DEF ChosenOK
                <5>3. LoadOf(b)' + LoadOf(c) =< LoadOf(c)' + LoadOf(b) + d
                    BY <1>2, <5>1
                <5>4. LoadOf(c) \in Int /\ LoadOf(c)' \in Int
                    BY <1>3, <5>1
                <5>5. k.moves \in Int /\ d \in Int
                    BY <3>2
                <5>6. LoadOf(b)' =< LoadOf(c)' + (k.moves + d)
                    BY <4>4, <5>2, <5>3, <5>4, <5>5, AddsAcross
                <5> QED
                    BY <4>2, <5>6, Zenon
            <4>6. ASSUME NEW j \in 1 .. Len(k.trace)
                  PROVE  LoadOf(b)' =< k.trace[j] + z
                <5>1. LoadOf(b) =< k.trace[j] + k.moves
                    BY <4>1, <4>3 DEF ChosenOK
                <5> QED
                    BY <3>2, <4>2, <4>4, <5>1
            <4>7. ASSUME NEW i \in 1 .. Len(k.trace), Healthy[i] = k.chosen
                  PROVE  /\ \A c \in ToSet(Healthy) : k.trace[i] =< LoadOf(c)' + z
                         /\ \A j \in 1 .. Len(k.trace) : k.trace[i] =< k.trace[j] + z
                <5>1. ASSUME NEW c \in ToSet(Healthy)
                      PROVE  k.trace[i] =< LoadOf(c)' + z
                    <6>1. k.trace[i] =< LoadOf(c) + k.moves
                        BY <4>1, <4>7 DEF ChosenOK
                    <6>2. c \in Backends
                        BY HealthyFacts
                    <6>3. LoadOf(c) \in Int /\ LoadOf(c)' \in Int /\ LoadOf(c) =< LoadOf(c)' + d
                        BY <1>2, <1>3, <6>2
                    <6>4. k.trace[i] \in Int /\ k.moves \in Int /\ d \in Int /\ k.moves + d = z
                        BY <3>2, <4>2
                    <6>5. k.trace[i] =< LoadOf(c)' + (k.moves + d)
                        BY <6>1, <6>3, <6>4, Adds
                    <6> QED
                        BY <6>4, <6>5
                <5>2. ASSUME NEW j \in 1 .. Len(k.trace)
                      PROVE  k.trace[i] =< k.trace[j] + z
                    <6>1. k.trace[i] =< k.trace[j] + k.moves
                        BY <4>1, <4>7 DEF ChosenOK
                    <6> QED
                        BY <3>2, <4>2, <6>1
                <5> QED
                    BY <5>1, <5>2
            <4> QED
                BY <2>0, <3>3, <4>3, <4>5, <4>6, <4>7 DEF ChosenOK
        <3>7. ASSUME z < Many, k.pc = "recording", strategy = "p2c"
              PROVE  ChosenOfTwoOK(pick[s])'
            <4>1. ChosenOfTwoOK(k)
                <5>1. k.moves < Many
                    BY <3>2, <3>7, StrategiesAssumption
                <5> QED
                    BY <2>1, <3>7, <5>1 DEF StaleOK
            <4>2. z = k.moves + d /\ k.chosen \in Backends
                BY <2>1, <3>2, <3>7, HealthyFacts DEF PickShape
            <4>3. PICK b \in Backends : b = k.chosen
                BY <4>2
            <4>4. ASSUME NEW c \in Others(b), LoadOf(b) =< LoadOf(c) + k.moves
                  PROVE  LoadOf(b)' =< LoadOf(c)' + z
                <5>1. c \in Backends
                    BY HealthyFacts DEF Others
                <5>2. LoadOf(b)' + LoadOf(c) =< LoadOf(c)' + LoadOf(b) + d
                    BY <1>2, <5>1
                <5>3. /\ LoadOf(b) \in Int /\ LoadOf(b)' \in Int
                      /\ LoadOf(c) \in Int /\ LoadOf(c)' \in Int
                    BY <1>3, <5>1
                <5> QED
                    BY <3>2, <4>2, <4>4, <5>2, <5>3
            <4>5. Others(b) = {} \/ \E c \in Others(b) : LoadOf(b)' =< LoadOf(c)' + z
                BY <4>1, <4>3, <4>4 DEF ChosenOfTwoOK
            <4> QED
                BY <2>0, <3>3, <4>3, <4>5 DEF ChosenOfTwoOK, Others
        <3>8. StaleOK(pick[s])'
            BY <1>1, <2>0, <3>3, <3>5, <3>6, <3>7 DEF StaleOK
        <3> QED
            BY <2>0, <3>3, <3>4, <3>8
    <2> QED
        BY <2>2, <2>3
<1>5. pick' \in [Leases -> Pick]
    <2>1. DOMAIN pick' = Leases /\ pick' = [s \in Leases |-> pick'[s]]
        BY <1>2
    <2> QED
        BY <1>4, <2>1
<1> QED
    BY <1>1, <1>4, <1>5 DEF PicksOK, StalenessOK

-----------------------------------------------------------------------------
StrategiesIInv == RecordsOK /\ PicksOK /\ RotationOK /\ StalenessOK

LEMMA StrategiesInvariant == StrategiesSpec => []StrategiesIInv
<1>1. StrategiesInit => StrategiesIInv
    <2> SUFFICES ASSUME StrategiesInit
                 PROVE  StalenessOK
        BY StrategiesInitInv DEF StrategiesIInv
    <2>1. \A r \in Leases : pick[r] = NoPick
        BY DEF StrategiesInit
    <2> QED
        BY <2>1 DEF StalenessOK, StaleOK, NoPick
<1>2. ASSUME StrategiesIInv, NEW r \in Leases, StrategiesStep(r)
      PROVE  StrategiesIInv'
    <2> USE <1>2 DEF StrategiesIInv
    <2>1. CASE \E p \in Prompts, o \in Estimates : StartPick(r, p, o)
        <3>1. PicksOK' /\ StalenessOK'
            BY <2>1, StartStep
        <3> QED
            BY <2>1, <3>1 DEF StartPick, leaseVars, RecordsOK, RotationOK
    <2>2. CASE LoadNext(r)
        <3>1. PicksOK' /\ StalenessOK'
            BY <2>2, LoadStep
        <3> QED
            BY <2>2, <3>1 DEF LoadNext, leaseVars, RecordsOK, RotationOK
    <2>3. CASE Choose(r)
        <3>1. PicksOK' /\ StalenessOK'
            BY <2>3, ChooseStep
        <3> QED
            BY <2>3, <3>1 DEF Choose, leaseVars, RecordsOK, RotationOK
    <2>4. CASE TakeTurn(r)
        <3>1. PicksOK' /\ StalenessOK' /\ RotationOK'
            BY <2>4, TurnStep, RotationStep
        <3> QED
            BY <2>4, <3>1 DEF TakeTurn, leaseVars, RecordsOK
    <2>5. CASE RecordNext(r)
        <3>1. PicksOK' /\ StalenessOK'
            BY <2>5, RecordStep
        <3> QED
            BY <2>5, <3>1 DEF RecordNext, leaseVars, RecordsOK, RotationOK
    <2>6. CASE Dispatch(r)
        <3>1. PicksOK' /\ StalenessOK' /\ RecordsOK'
            BY <2>6, DispatchStep
        <3> QED
            BY <2>6, <3>1 DEF Dispatch, RotationOK
    <2>7. CASE Work(r)
        <3>1. PicksOK' /\ StalenessOK' /\ RecordsOK'
            BY <2>7, WorkStep
        <3> QED
            BY <2>7, <3>1 DEF Work, RotationOK
    <2> QED
        BY <2>1, <2>2, <2>3, <2>4, <2>5, <2>6, <2>7 DEF StrategiesStep
<1>3. StrategiesIInv /\ UNCHANGED strategiesVars => StrategiesIInv'
    <2> SUFFICES ASSUME StrategiesIInv, UNCHANGED strategiesVars
                 PROVE  StrategiesIInv'
        OBVIOUS
    <2>1. \A b : LoadOf(b)' = LoadOf(b)
        BY DEF LoadOf, strategiesVars
    <2>2. StalenessOK'
        BY <2>1 DEF StrategiesIInv, strategiesVars, StalenessOK, StaleOK, LoadedOK, ChosenOK,
                    ChosenOfTwoOK, Others
    <2>3. PicksOK'
        BY DEF StrategiesIInv, strategiesVars, PicksOK, PickShape, Samples
    <2> QED
        BY <2>2, <2>3 DEF StrategiesIInv, strategiesVars, RecordsOK, RotationOK
<1>4. StrategiesIInv /\ [StrategiesNext]_strategiesVars => StrategiesIInv'
    BY <1>2, <1>3 DEF StrategiesNext
<1> QED
    BY <1>1, <1>4, PTL DEF StrategiesSpec

\* The backend chosen is worse than any other, or for p2c than some other, by
\* no more than the counters moved since the pick began, and the trace does
\* not accuse the choice of more.
THEOREM StalenessIsBounded == StrategiesSpec => []StalenessIsAll
<1>1. ASSUME StrategiesIInv, NEW r \in Leases,
             pick[r].pc = "recording", pick[r].moves < Many
      PROVE  CASE strategy \in {"least_requests", "least_kvts"} ->
                    \A b \in Others(pick[r].chosen) :
                        ~WorseNow(pick[r], b) /\ ~WorseTraced(pick[r], b)
               [] strategy = "p2c" ->
                    \/ Others(pick[r].chosen) = {}
                    \/ \E b \in Others(pick[r].chosen) : ~WorseNow(pick[r], b)
               [] OTHER -> TRUE
    <2> DEFINE k == pick[r]
    <2>1. StaleOK(k) /\ k \in Pick /\ PickShape(k)
        BY <1>1 DEF StrategiesIInv, StalenessOK, PicksOK
    <2>2. k.chosen \in ToSet(Healthy) /\ k.trace \in Seq(Int) /\ k.moves \in Nat
        BY <1>1, <2>1 DEF PickShape, Pick
    <2>3. \A c \in ToSet(Healthy) : LoadOf(c) \in Int
        BY <1>1, LoadsAreNumbers, HealthyFacts DEF StrategiesIInv
    <2>4. k.pc = "recording" /\ k.moves < Many
        BY <1>1
    <2> HIDE DEF k
    <2>5. CASE strategy \in {"least_requests", "least_kvts"}
        <3>1. ChosenOK(k)
            BY <2>1, <2>4, <2>5 DEF StaleOK
        <3>2. ASSUME NEW b \in Others(k.chosen)
              PROVE  ~WorseNow(k, b) /\ ~WorseTraced(k, b)
            <4>1. b \in ToSet(Healthy)
                BY DEF Others
            <4>2. ~WorseNow(k, b)
                BY <2>2, <2>3, <3>1, <4>1 DEF ChosenOK, WorseNow
            <4>3. ~WorseTraced(k, b)
                <5> DEFINE At(c) == CHOOSE i \in DOMAIN Healthy : Healthy[i] = c
                <5>1. \A c \in ToSet(Healthy) : At(c) \in DOMAIN Healthy /\ Healthy[At(c)] = c
                    BY HealthyFacts
                <5> HIDE DEF At
                <5>2. ASSUME Len(k.trace) = Len(Healthy)
                      PROVE  ~(k.trace[At(k.chosen)] > k.trace[At(b)] + k.moves)
                    <6>1. /\ At(k.chosen) \in 1 .. Len(k.trace) /\ At(b) \in 1 .. Len(k.trace)
                          /\ Healthy[At(k.chosen)] = k.chosen
                        BY <2>2, <4>1, <5>1, <5>2, HealthyFacts
                    <6>2. k.trace[At(k.chosen)] =< k.trace[At(b)] + k.moves
                        BY <3>1, <6>1 DEF ChosenOK
                    <6>3. k.trace[At(k.chosen)] \in Int /\ k.trace[At(b)] \in Int
                        BY <2>2, <6>1
                    <6> QED
                        BY <2>2, <6>2, <6>3
                <5> QED
                    BY <5>2 DEF WorseTraced, At
            <4> QED
                BY <4>2, <4>3
        <3> QED
            BY <2>5, <3>2 DEF k
    <2>6. CASE strategy = "p2c"
        <3>1. ChosenOfTwoOK(k)
            BY <2>1, <2>4, <2>6 DEF StaleOK
        <3>2. \A b \in Others(k.chosen) : LoadOf(k.chosen) =< LoadOf(b) + k.moves => ~WorseNow(k, b)
            BY <2>2, <2>3 DEF WorseNow, Others
        <3> QED
            BY <2>6, <3>1, <3>2 DEF ChosenOfTwoOK, k
    <2>7. CASE strategy \notin {"least_requests", "least_kvts", "p2c"}
        BY <2>7
    <2> QED
        BY <2>5, <2>6, <2>7
<1>2. StrategiesIInv => StalenessIsAll
    BY <1>1 DEF StalenessIsAll
<1> QED
    BY <1>2, StrategiesInvariant, PTL

\* However the picks of the requests interleave, round robin gives no backend
\* two turns more than another until its counter wraps.
THEOREM RotationIsEven == StrategiesSpec => []TurnsAreEven
<1>1. StrategiesIInv => TurnsAreEven
    <2> SUFFICES ASSUME StrategiesIInv, NEW b \in ToSet(Healthy)
                 PROVE  turns[b] =< 1
        BY DEF TurnsAreEven
    <2>1. PICK i \in DOMAIN Healthy : Healthy[i] = b
        BY HealthyFacts
    <2> QED
        BY <2>1 DEF StrategiesIInv, RotationOK
<1> QED
    BY <1>1, StrategiesInvariant, PTL

-----------------------------------------------------------------------------
(***************************************************************************)
(* The sampler.                                                            *)
(***************************************************************************)

Kinds == {"inflight", "occupancy", "kv"}
Todos == Seq(Kinds \X Backends)

SamplerTypes ==
    /\ publish \in [Publishers -> [todo : Todos, n : Int, kv : Int]]
    /\ reached \in [Backends -> BOOLEAN]
    /\ wrongTicks \in BOOLEAN

\* A value that the sampler has loaded and that puts the backend at its
\* ceiling.
SlotsAtCeiling(b, n) == SlotShare(b, n) * Sigma[2] >= Sigma[1] * Whole(b)
KvAtCeiling(b, kv) == KvShare(b, kv) * Sigma[2] >= Sigma[1] * Whole(b)

\* The sampler is at the occupancy of the first backend of its list.
AtOccupancy ==
    publish[SamplerTask].todo # << >> /\ Gauge(SamplerTask) = "occupancy"

\* The invariant.  While the sampler has yet to look at b, reached[b] says
\* whether b has been at its ceiling; so it does once either of the two values
\* it has loaded, at different moments, is at the ceiling by itself.
SamplerIInv ==
    /\ SamplerTypes
    /\ publish[SamplerTask].todo = << >> =>
           publish[SamplerTask].n = Unread /\ publish[SamplerTask].kv = Unread
    /\ \A b \in Backends : Looking(b) /\ AtCeilingNow(b) => reached[b]
    /\ AtOccupancy /\ publish[SamplerTask].n # Unread
           /\ SlotsAtCeiling(Of(SamplerTask), publish[SamplerTask].n) => reached[Of(SamplerTask)]
    /\ AtOccupancy /\ publish[SamplerTask].kv # Unread
           /\ KvAtCeiling(Of(SamplerTask), publish[SamplerTask].kv) => reached[Of(SamplerTask)]
    /\ ~wrongTicks

\* A share of a backend's capacity, and whether it is at the ceiling.
LEMMA SharesAreNumbers ==
    ASSUME NEW b \in Backends, NEW n \in Int, NEW kv \in Int
    PROVE  /\ SlotShare(b, n) \in Int /\ KvShare(b, kv) \in Int /\ Whole(b) \in Int
           /\ Sigma[1] \in Nat /\ Sigma[2] \in Nat
<1>1. /\ Caps[b].max_num_seqs \in Nat /\ Caps[b].kv_capacity_tokens \in Nat
      /\ Sigma[1] \in Nat /\ Sigma[2] \in Nat
    BY SamplerAssumption
<1> QED
    BY <1>1 DEF SlotShare, KvShare, Whole

LEMMA TimesNatMonotone ==
    ASSUME NEW a \in Int, NEW b \in Int, NEW x \in Nat, a =< b
    PROVE  a * x =< b * x
<1>1. PICK d \in Nat : b = a + d
    <2>1. b - a \in Nat /\ b = a + (b - a)
        OBVIOUS
    <2> QED
        BY <2>1
<1>2. b * x = a * x + d * x
    BY <1>1
<1>3. a * x \in Int /\ d * x \in Nat
    OBVIOUS
<1> QED
    BY <1>2, <1>3

\* The larger of two shares is at the ceiling exactly when one of them is.
LEMMA EitherShare ==
    ASSUME NEW b \in Backends, NEW n \in Int, NEW kv \in Int
    PROVE  AboveCeiling(b, n, kv) <=> SlotsAtCeiling(b, n) \/ KvAtCeiling(b, kv)
<1> DEFINE s == SlotShare(b, n)
           k == KvShare(b, kv)
           c == Sigma[1] * Whole(b)
           x == Sigma[2]
<1>1. s \in Int /\ k \in Int /\ c \in Int /\ x \in Nat
    BY SharesAreNumbers
<1>2. OccupancyOf(b, n, kv) = IF s < k THEN k ELSE s
    BY DEF OccupancyOf
<1>3. /\ AboveCeiling(b, n, kv) <=> OccupancyOf(b, n, kv) * x >= c
      /\ SlotsAtCeiling(b, n) <=> s * x >= c
      /\ KvAtCeiling(b, kv) <=> k * x >= c
    BY DEF AboveCeiling, SlotsAtCeiling, KvAtCeiling
<1> HIDE DEF s, k, c, x
<1>4. s * x \in Int /\ k * x \in Int
    BY <1>1
<1>5. CASE s < k
    <2>1. s * x =< k * x
        BY <1>1, <1>5, TimesNatMonotone
    <2> QED
        BY <1>1, <1>2, <1>3, <1>4, <1>5, <2>1
<1>6. CASE ~(s < k)
    <2>1. k * x =< s * x
        BY <1>1, <1>6, TimesNatMonotone
    <2> QED
        BY <1>1, <1>2, <1>3, <1>4, <1>6, <2>1
<1> QED
    BY <1>5, <1>6

LEMMA CeilingByShares ==
    ASSUME RecordsOK, NEW b \in Backends
    PROVE  AtCeilingNow(b) <=>
               SlotsAtCeiling(b, inflight[b]) \/ KvAtCeiling(b, kvProjected[b])
<1>1. inflight[b] \in Int /\ kvProjected[b] \in Int
    BY DEF RecordsOK
<1> QED
    BY <1>1, EitherShare DEF AtCeilingNow, Occupied, AboveCeiling

\* The first of the sampler's list.
LEMMA AtTheFirst ==
    ASSUME SamplerTypes, publish[SamplerTask].todo # << >>
    PROVE  /\ Gauge(SamplerTask) \in Kinds /\ Of(SamplerTask) \in Backends
           /\ Gauge(SamplerTask) = "occupancy" => Looking(Of(SamplerTask))
           /\ Tail(publish[SamplerTask].todo) \in Todos
<1> DEFINE t == publish[SamplerTask].todo
<1>1. t \in Seq(Kinds \X Backends) /\ t # << >>
    BY DEF SamplerTypes, Todos, Publishers
<1> HIDE DEF t
<1>2. Len(t) \in Nat /\ 1 \in 1 .. Len(t) /\ t[1] \in Kinds \X Backends
      /\ Tail(t) \in Seq(Kinds \X Backends)
    BY <1>1
<1>3. t[1] = <<t[1][1], t[1][2]>> /\ t[1][1] \in Kinds /\ t[1][2] \in Backends
    BY <1>2
<1>4. t[1] \in ToSet(t)
    BY <1>1, <1>2 DEF ToSet
<1> QED
    BY <1>2, <1>3, <1>4 DEF t, Gauge, Of, Looking, Todos

-----------------------------------------------------------------------------
LEMMA SamplerInvInit == SamplerInit => RecordsOK /\ SamplerIInv
<1> SUFFICES ASSUME SamplerInit
             PROVE  RecordsOK /\ SamplerIInv
    OBVIOUS
<1>1. RecordsOK
    BY InitRecords DEF SamplerInit
<1>2. << >> \in Todos
    BY DEF Todos
<1>3. SamplerTypes
    <2>1. Idle \in [todo : Todos, n : Int, kv : Int]
        BY <1>2 DEF Idle, Unread
    <2>2. publish \in [Publishers -> [todo : Todos, n : Int, kv : Int]]
        BY <2>1 DEF SamplerInit
    <2>3. reached \in [Backends -> BOOLEAN] /\ wrongTicks \in BOOLEAN
        BY DEF SamplerInit
    <2> QED
        BY <2>2, <2>3 DEF SamplerTypes
<1>4. publish[SamplerTask] = Idle
    BY DEF SamplerInit, Publishers
<1>5. \A b \in Backends : ~Looking(b)
    BY <1>4 DEF Looking, Idle, ToSet
<1>6. ~AtOccupancy
    BY <1>4 DEF AtOccupancy, Idle
<1> QED
    BY <1>1, <1>3, <1>4, <1>5, <1>6 DEF SamplerIInv, Idle, SamplerInit

\* What another publisher does is nothing to the sampler.
LEMMA SamplerApart ==
    ASSUME SamplerIInv, SamplerTypes',
           publish'[SamplerTask] = publish[SamplerTask],
           UNCHANGED <<leaseVars, reached>>, ~wrongTicks'
    PROVE  SamplerIInv'
BY DEF SamplerIInv, leaseVars, Looking, AtCeilingNow, Occupied, AtOccupancy, Gauge, Of

LEMMA PublishTypes ==
    ASSUME SamplerIInv, RecordsOK, NEW q \in Publishers,
           NEW new \in [todo : Todos, n : Int, kv : Int],
           publish' = [publish EXCEPT ![q] = new]
    PROVE  /\ publish' \in [Publishers -> [todo : Todos, n : Int, kv : Int]]
           /\ publish'[q] = new
           /\ q # SamplerTask => publish'[SamplerTask] = publish[SamplerTask]
BY DEF SamplerIInv, SamplerTypes, Publishers

LEMMA LoadKeeps ==
    ASSUME SamplerIInv, RecordsOK, NEW q \in Publishers,
           LoadInflight(q) \/ LoadKv(q)
    PROVE  SamplerIInv'
<1> DEFINE k == publish[q]
           P == [todo : Todos, n : Int, kv : Int]
<1>0. k \in P /\ k.todo # << >> /\ SamplerTypes
    BY DEF SamplerIInv, SamplerTypes, LoadInflight, LoadKv
<1>1. Of(q) \in Backends
    <2>1. Len(k.todo) \in Nat /\ 1 \in 1 .. Len(k.todo) /\ k.todo[1] \in Kinds \X Backends
        <3> DEFINE t == k.todo
        <3>1. t \in Seq(Kinds \X Backends) /\ t # << >>
            BY <1>0 DEF Todos
        <3> HIDE DEF t
        <3>2. Len(t) \in Nat /\ 1 \in 1 .. Len(t) /\ t[1] \in Kinds \X Backends
            BY <3>1
        <3> QED
            BY <3>2 DEF t
    <2> QED
        BY <2>1 DEF Of
<1>2. inflight[Of(q)] \in Int /\ kvProjected[Of(q)] \in Int
    BY <1>1 DEF RecordsOK
<1>3. \/ /\ publish' = [publish EXCEPT ![q] = [k EXCEPT !.n = inflight[Of(q)]]]
         /\ LoadInflight(q)
      \/ /\ publish' = [publish EXCEPT ![q] = [k EXCEPT !.kv = kvProjected[Of(q)]]]
         /\ LoadKv(q)
    BY DEF LoadInflight, LoadKv
<1>4. /\ [k EXCEPT !.n = inflight[Of(q)]] \in P
      /\ [k EXCEPT !.kv = kvProjected[Of(q)]] \in P
    BY <1>0, <1>2
<1>5. UNCHANGED <<inflight, kvProjected, lease, reached, wrongTicks>>
    BY DEF LoadInflight, LoadKv, leaseVars
<1>6. SamplerTypes'
    BY <1>0, <1>3, <1>4, <1>5, PublishTypes DEF SamplerTypes
<1>7. CASE q # SamplerTask
    <2>1. publish'[SamplerTask] = publish[SamplerTask]
        BY <1>3, <1>4, <1>7, PublishTypes
    <2> QED
        BY <1>5, <1>6, <2>1, SamplerApart DEF leaseVars, SamplerIInv
<1>8. CASE q = SamplerTask
    <2> DEFINE b == Of(SamplerTask)
    <2>1. /\ publish'[SamplerTask].todo = k.todo
          /\ \/ /\ publish'[SamplerTask].n = inflight[b]
                /\ publish'[SamplerTask].kv = k.kv
             \/ /\ publish'[SamplerTask].kv = kvProjected[b]
                /\ publish'[SamplerTask].n = k.n
        BY <1>0, <1>3, <1>4, <1>8, PublishTypes
    <2>2. /\ Gauge(SamplerTask)' = Gauge(SamplerTask) /\ Of(SamplerTask)' = b
          /\ AtOccupancy' = AtOccupancy
          /\ \A c \in Backends : Looking(c)' = Looking(c)
        BY <1>8, <2>1 DEF Gauge, Of, AtOccupancy, Looking
    <2>3. \A c \in Backends : AtCeilingNow(c)' = AtCeilingNow(c)
        BY <1>5 DEF AtCeilingNow, Occupied
    <2>4. AtOccupancy /\ (SlotsAtCeiling(b, inflight[b]) \/ KvAtCeiling(b, kvProjected[b]))
              => reached[b]
        <3> HAVE AtOccupancy /\ (SlotsAtCeiling(b, inflight[b]) \/ KvAtCeiling(b, kvProjected[b]))
        <3>1. Looking(b) /\ b \in Backends
            BY <1>0, <1>8, AtTheFirst DEF AtOccupancy
        <3>2. AtCeilingNow(b)
            BY <3>1, CeilingByShares
        <3> QED
            BY <3>1, <3>2 DEF SamplerIInv
    <2>5. /\ \A c \in Backends : Looking(c) /\ AtCeilingNow(c) => reached[c]
          /\ AtOccupancy /\ k.n # Unread /\ SlotsAtCeiling(b, k.n) => reached[b]
          /\ AtOccupancy /\ k.kv # Unread /\ KvAtCeiling(b, k.kv) => reached[b]
          /\ ~wrongTicks
        BY <1>8 DEF SamplerIInv
    <2> HIDE DEF b
    <2>6. \A c \in Backends : Looking(c)' /\ AtCeilingNow(c)' => reached'[c]
        BY <1>5, <2>2, <2>3, <2>5
    <2>7. AtOccupancy' /\ publish'[SamplerTask].n # Unread
              /\ SlotsAtCeiling(b, publish'[SamplerTask].n) => reached'[b]
        BY <1>5, <2>1, <2>2, <2>4, <2>5
    <2>8. AtOccupancy' /\ publish'[SamplerTask].kv # Unread
              /\ KvAtCeiling(b, publish'[SamplerTask].kv) => reached'[b]
        BY <1>5, <2>1, <2>2, <2>4, <2>5
    <2>9. publish'[SamplerTask].todo # << >> /\ ~wrongTicks'
        BY <1>0, <1>5, <1>8, <2>1, <2>5
    <2> QED
        BY <1>6, <2>2, <2>6, <2>7, <2>8, <2>9 DEF SamplerIInv, SlotsAtCeiling, KvAtCeiling,
            SlotShare, KvShare, Whole
<1> QED
    BY <1>7, <1>8

LEMMA SetGaugeKeeps ==
    ASSUME SamplerIInv, RecordsOK, NEW q \in Publishers, SetGauge(q)
    PROVE  SamplerIInv'
<1> DEFINE k == publish[q]
           P == [todo : Todos, n : Int, kv : Int]
           new == [Idle EXCEPT !.todo = Tail(k.todo)]
<1>0. k \in P /\ k.todo # << >> /\ SamplerTypes
    BY DEF SamplerIInv, SamplerTypes, SetGauge, Ready
<1>1. Of(q) \in Backends /\ Gauge(q) \in Kinds /\ Tail(k.todo) \in Todos
    <2> DEFINE t == k.todo
    <2>1. t \in Seq(Kinds \X Backends) /\ t # << >>
        BY <1>0 DEF Todos
    <2> HIDE DEF t
    <2>2. /\ Len(t) \in Nat /\ 1 \in 1 .. Len(t) /\ t[1] \in Kinds \X Backends
          /\ Tail(t) \in Seq(Kinds \X Backends)
        BY <2>1
    <2> QED
        BY <2>2 DEF t, Of, Gauge, Todos
<1>2. new \in P
    <2>1. \A x : [Idle EXCEPT !.todo = x] = [todo |-> x, n |-> Unread, kv |-> Unread]
        BY DEF Idle
    <2>3. new = [todo |-> Tail(k.todo), n |-> Unread, kv |-> Unread]
        BY <2>1
    <2>2. Unread \in Int
        BY DEF Unread
    <2> HIDE DEF new, k
    <2> QED
        BY <1>1, <2>2, <2>3
<1>3. publish' = [publish EXCEPT ![q] = new]
    BY DEF SetGauge
<1>4. UNCHANGED <<inflight, kvProjected, lease>>
    BY DEF SetGauge, leaseVars
<1>5. publish' \in [Publishers -> P] /\ publish'[q] = new
      /\ (q # SamplerTask => publish'[SamplerTask] = publish[SamplerTask])
    BY <1>2, <1>3, PublishTypes
<1>6. CASE q # SamplerTask \/ Gauge(q) # "occupancy"
    <2>1. reached' = reached /\ ~wrongTicks'
        <3>1. ~wrongTicks
            BY DEF SamplerIInv
        <3>2. ~wrongTicks'
            BY <1>6, <3>1, Zenon DEF SetGauge
        <3>3. reached' = [c \in Backends |-> reached[c]]
            BY <1>6 DEF SetGauge
        <3> QED
            BY <1>0, <3>2, <3>3 DEF SamplerTypes
    <2>2. SamplerTypes'
        BY <1>0, <1>5, <2>1 DEF SamplerTypes, SetGauge
    <2>3. CASE q # SamplerTask
        BY <1>4, <1>5, <2>1, <2>2, <2>3, SamplerApart DEF leaseVars
    <2>4. CASE q = SamplerTask
        <3>1. /\ publish'[SamplerTask].todo = Tail(k.todo)
              /\ publish'[SamplerTask].n = Unread /\ publish'[SamplerTask].kv = Unread
            BY <1>5, <2>4 DEF Idle
        <3>2. \A b \in Backends : Looking(b)' => Looking(b)
            <4> DEFINE t == k.todo
            <4>1. t \in Seq(Kinds \X Backends) /\ t # << >>
                BY <1>0 DEF Todos
            <4> HIDE DEF t
            <4>2. ToSet(Tail(t)) \subseteq ToSet(t)
                BY <4>1 DEF ToSet
            <4> QED
                BY <2>4, <3>1, <4>2 DEF t, Looking
        <3>3. \A b \in Backends : AtCeilingNow(b)' = AtCeilingNow(b)
            BY <1>4 DEF AtCeilingNow, Occupied
        <3>4. \A b \in Backends : Looking(b) /\ AtCeilingNow(b) => reached[b]
            BY DEF SamplerIInv
        <3>5. \A b \in Backends : Looking(b)' /\ AtCeilingNow(b)' => reached'[b]
            BY <2>1, <3>2, <3>3, <3>4
        <3> QED
            BY <2>1, <2>2, <3>1, <3>5 DEF SamplerIInv
    <2> QED
        BY <2>3, <2>4
<1>7. CASE q = SamplerTask /\ Gauge(q) = "occupancy"
    <2> DEFINE b == Of(SamplerTask)
    <2>1. /\ reached' = [c \in Backends |-> IF c = b THEN Looking(c)' /\ AtCeilingNow(c)
                                                      ELSE reached[c]]
          /\ k.n # Unread /\ k.kv # Unread
        BY <1>7 DEF SetGauge, Ready
    <2>2. AboveCeiling(b, k.n, k.kv) => reached[b]
        <3>1. AtOccupancy
            BY <1>0, <1>7 DEF AtOccupancy
        <3>2. /\ SlotsAtCeiling(b, k.n) => reached[b]
              /\ KvAtCeiling(b, k.kv) => reached[b]
            BY <1>7, <2>1, <3>1 DEF SamplerIInv
        <3>3. k.n \in Int /\ k.kv \in Int
            BY <1>0
        <3> QED
            BY <1>1, <1>7, <3>2, <3>3, EitherShare
    <2>3. ~wrongTicks'
        <3>1. ~wrongTicks
            BY DEF SamplerIInv
        <3> QED
            BY <1>7, <2>2, <3>1 DEF SetGauge
    <2>4. /\ publish'[SamplerTask].todo = Tail(k.todo)
          /\ publish'[SamplerTask].n = Unread /\ publish'[SamplerTask].kv = Unread
        BY <1>5, <1>7 DEF Idle
    <2>5. \A c \in Backends : Looking(c)' => Looking(c)
        <3> DEFINE t == k.todo
        <3>1. t \in Seq(Kinds \X Backends) /\ t # << >>
            BY <1>0 DEF Todos
        <3> HIDE DEF t
        <3>2. ToSet(Tail(t)) \subseteq ToSet(t)
            BY <3>1 DEF ToSet
        <3> QED
            BY <1>7, <2>4, <3>2 DEF t, Looking
    <2>6. \A c \in Backends : AtCeilingNow(c)' = AtCeilingNow(c)
        BY <1>4 DEF AtCeilingNow, Occupied
    <2>7. b \in Backends /\ reached \in [Backends -> BOOLEAN]
        BY <1>0, <1>1, <1>7 DEF SamplerTypes
    <2> HIDE DEF b
    <2>8. reached' \in [Backends -> BOOLEAN]
        BY <2>1, <2>7
    <2>9. \A c \in Backends : reached[c] => reached'[c] \/ c = b
        BY <2>1
    <2>10. \A c \in Backends : Looking(c)' /\ AtCeilingNow(c)' => reached'[c]
        <3> SUFFICES ASSUME NEW c \in Backends, Looking(c)', AtCeilingNow(c)'
                     PROVE  reached'[c]
            OBVIOUS
        <3>1. AtCeilingNow(c)
            BY <2>6
        <3>2. CASE c = b
            BY <2>1, <3>1, <3>2
        <3>3. CASE c # b
            BY <2>5, <2>9, <3>1, <3>3 DEF SamplerIInv
        <3> QED
            BY <3>2, <3>3
    <2>11. SamplerTypes'
        BY <1>5, <2>8, <2>3 DEF SamplerTypes, SetGauge
    <2> QED
        BY <2>3, <2>4, <2>10, <2>11 DEF SamplerIInv
<1> QED
    BY <1>6, <1>7

LEMMA SampleTickKeeps ==
    ASSUME SamplerIInv, RecordsOK, SampleTick
    PROVE  SamplerIInv'
<1> DEFINE k == publish[SamplerTask]
           n == 3 * Len(Sampled)
           todo == [i \in 1 .. n |-> SampleOrder(Sampled[(i + 2) \div 3])[((i + 2) % 3) + 1]]
           P == [todo : Todos, n : Int, kv : Int]
<1>0. k \in P /\ SamplerTypes /\ k.n = Unread /\ k.kv = Unread
    BY DEF SamplerIInv, SamplerTypes, SampleTick, Publishers
<1>1. Len(Sampled) \in Nat /\ n \in Nat
    BY SamplerAssumption
<1>2. ASSUME NEW i \in 1 .. n
      PROVE  todo[i] \in Kinds \X Backends
    <2>1. (i + 2) \div 3 \in 1 .. Len(Sampled) /\ ((i + 2) % 3) + 1 \in {1, 2, 3}
        BY <1>1
    <2>2. Sampled[(i + 2) \div 3] \in Backends
        BY <2>1, SamplerAssumption
    <2>3. \A b \in Backends, j \in {1, 2, 3} : SampleOrder(b)[j] \in Kinds \X Backends
        BY DEF SampleOrder, Kinds
    <2> QED
        BY <2>1, <2>2, <2>3
<1>3. todo \in Todos
    <2>1. todo \in [1 .. n -> Kinds \X Backends]
        BY <1>2
    <2> HIDE DEF todo, n
    <2> QED
        BY <1>1, <2>1 DEF Todos
<1> HIDE DEF n
<1>4. /\ publish' = [publish EXCEPT ![SamplerTask] = [k EXCEPT !.todo = todo]]
      /\ UNCHANGED <<inflight, kvProjected, lease, wrongTicks>>
    BY DEF SampleTick, leaseVars, n
<1> HIDE DEF todo
<1>5. [k EXCEPT !.todo = todo] \in P /\ SamplerTask \in Publishers
    BY <1>0, <1>3 DEF Publishers
<1>6. /\ publish' \in [Publishers -> P]
      /\ publish'[SamplerTask].n = Unread /\ publish'[SamplerTask].kv = Unread
    BY <1>0, <1>4, <1>5, PublishTypes
<1>7. reached' = [b \in Backends |-> Looking(b)' /\ AtCeilingNow(b)]
    BY DEF SampleTick
<1>8. SamplerTypes'
    BY <1>0, <1>4, <1>6, <1>7 DEF SamplerTypes
<1>9. \A b \in Backends : AtCeilingNow(b)' = AtCeilingNow(b)
    BY <1>4 DEF AtCeilingNow, Occupied
<1> QED
    BY <1>4, <1>6, <1>7, <1>8, <1>9 DEF SamplerIInv

LEMMA RequestStepKeeps ==
    ASSUME SamplerIInv, RecordsOK, NEW r \in Leases, RequestStep(r)
    PROVE  RecordsOK' /\ SamplerIInv'
<1> DEFINE P == [todo : Todos, n : Int, kv : Int]
<1>1. ToSet(Sampled) \subseteq Backends
    BY SamplerAssumption DEF ToSet
<1>2. LeaseStep(r)
    BY <1>1 DEF RequestStep, LeaseStep
<1>3. RecordsOK'
    BY <1>2, StepRecords
<1>4. r \in Publishers /\ r # SamplerTask /\ SamplerTypes /\ publish[r] \in P
    BY SamplerAssumption DEF Publishers, SamplerIInv, SamplerTypes
<1>5. publish' \in [Publishers -> P] /\ publish'[SamplerTask] = publish[SamplerTask]
    <2>1. CASE publish' = publish
        BY <1>4, <2>1 DEF SamplerTypes
    <2>2. CASE /\ lease[r].phase = "opening"
               /\ publish' = [publish EXCEPT ![r].todo = RequestOrder(lease[r].backend)]
        <3>1. lease[r].backend \in Backends
            BY <2>2 DEF RecordsOK, LeaseShape
        <3>2. RequestOrder(lease[r].backend) \in Todos
            BY <3>1 DEF RequestOrder, Todos, Kinds
        <3> DEFINE new == [publish[r] EXCEPT !.todo = RequestOrder(lease[r].backend)]
        <3>3. new \in P /\ publish' = [publish EXCEPT ![r] = new]
            BY <1>4, <2>2, <3>2
        <3> HIDE DEF new
        <3> QED
            BY <1>4, <3>3, PublishTypes
    <2> QED
        BY <2>1, <2>2 DEF RequestStep
<1>6. /\ reached' = [b \in Backends |-> reached[b] \/ (Looking(b) /\ AtCeilingNow(b)')]
      /\ wrongTicks' = wrongTicks
    BY DEF RequestStep
<1>7. \A b \in Backends : reached[b] \in BOOLEAN
    BY <1>4 DEF SamplerTypes
<1>8. SamplerTypes'
    BY <1>4, <1>5, <1>6, <1>7 DEF SamplerTypes
<1>9. \A b \in Backends : reached[b] => reached'[b]
    BY <1>6
<1>10. \A b \in Backends : Looking(b)' /\ AtCeilingNow(b)' => reached'[b]
    BY <1>5, <1>6 DEF Looking
<1>11. /\ AtOccupancy' = AtOccupancy /\ Of(SamplerTask)' = Of(SamplerTask)
       /\ AtOccupancy => Of(SamplerTask) \in Backends
    BY <1>4, <1>5, AtTheFirst DEF AtOccupancy, Gauge, Of
<1> QED
    BY <1>3, <1>5, <1>6, <1>8, <1>9, <1>10, <1>11 DEF SamplerIInv, SlotsAtCeiling,
        KvAtCeiling, SlotShare, KvShare, Whole

LEMMA SamplerInvStep ==
    RecordsOK /\ SamplerIInv /\ [SamplerNext]_samplerVars => RecordsOK' /\ SamplerIInv'
<1> SUFFICES ASSUME RecordsOK, SamplerIInv, [SamplerNext]_samplerVars
             PROVE  RecordsOK' /\ SamplerIInv'
    OBVIOUS
<1>1. CASE \E q \in Publishers : Publish(q)
    <2>1. RecordsOK'
        BY <1>1 DEF Publish, LoadInflight, LoadKv, SetGauge, leaseVars, RecordsOK
    <2> QED
        BY <1>1, <2>1, LoadKeeps, SetGaugeKeeps DEF Publish
<1>2. CASE SampleTick
    <2>1. RecordsOK'
        BY <1>2 DEF SampleTick, leaseVars, RecordsOK
    <2> QED
        BY <1>2, <2>1, SampleTickKeeps
<1>3. CASE \E r \in Leases : RequestStep(r)
    BY <1>3, RequestStepKeeps
<1>4. CASE UNCHANGED samplerVars
    <2>1. RecordsOK'
        BY <1>4 DEF samplerVars, RecordsOK
    <2> QED
        BY <1>4, <2>1 DEF samplerVars, SamplerIInv, SamplerTypes, Looking, AtCeilingNow,
            Occupied, AtOccupancy, Gauge, Of
<1> QED
    BY <1>1, <1>2, <1>3, <1>4 DEF SamplerNext, SamplerStep, Publishers

\* A tick is counted at the ceiling only if the backend was at its ceiling at
\* some moment of the look, although the two counters are loaded apart.
THEOREM TicksAreTrue == SamplerSpec => []CeilingWasReached
<1>1. SamplerIInv => CeilingWasReached
    BY DEF SamplerIInv, CeilingWasReached
<1> QED
    BY <1>1, SamplerInvInit, SamplerInvStep, PTL DEF SamplerSpec
=============================================================================
