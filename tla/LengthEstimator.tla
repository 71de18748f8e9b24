--------------------------- MODULE LengthEstimator ----------------------------
(***************************************************************************)
(* RouteHistograms of length_estimator.rs: the estimate of the output      *)
(* length that admission and scoring share, learned from the usage frames  *)
(* of finished streams.                                                    *)
(*                                                                         *)
(* The map is behind a mutex, but observe reads the clock before it takes  *)
(* the lock, so the response bodies of two worker threads may apply their  *)
(* observations in the other order.  An estimate, and what is left of it   *)
(* after some time, is an exact fraction, or NaN, which is 0/0.            *)
(***************************************************************************)
EXTENDS Integers, FiniteSets

CONSTANTS
    Bodies,         \* response bodies, each polled by one worker at a time
    Routes,         \* the route keys
    Lengths,        \* the completion_tokens a usage frame reports
    MaxTokens,      \* the max_tokens a request can carry, u64
    Width,          \* 2^32, the range of a u32
    Decay,          \* Decay[e] is decay after e ticks, <<numerator, denominator>>
    Default,        \* DEFAULT_OUTPUT_ESTIMATE
    MaxTime,        \* bound of the model: the clock stops here
    None

\* upstream.rs passes on usage frames with a positive count only.
ASSUME EstimatorAssumption ==
    /\ Lengths \subseteq 1 .. Width - 1 /\ MaxTokens \subseteq Nat
    /\ Width \in Nat /\ Default \in 1 .. Width - 1
    /\ MaxTime \in Nat
    \* validate lets any half-life pass.  A positive one gives a decay of at
    \* most 1, a negative one more than 1, and 0 and NaN give NaN at least
    \* where no time has passed; infinity, which would make NaN of any
    \* estimate it is multiplied with, is taken for NaN.
    /\ Decay \in [0 .. MaxTime -> Nat \X Nat]
    /\ \A e \in 0 .. MaxTime : Decay[e][2] = 0 => Decay[e][1] = 0
    /\ None \notin Nat \cup [route : Routes, value : Lengths, now : 0 .. MaxTime]
                     \cup [num : Int, den : Nat, last : 0 .. MaxTime]

VARIABLES
    clock,          \* started.elapsed()
    taking,         \* the observe call a body is in, with the time it took
    hist,           \* inner: the DecayingQuantile of each route
    answer,         \* what estimate last returned, with what it was asked
    seen            \* history: the lengths each quantile has observed

estimatorVars == <<clock, taking, hist, answer, seen>>

Quantile == [num : Int, den : Nat, last : 0 .. MaxTime]

-----------------------------------------------------------------------------
Tick ==
    /\ clock < MaxTime
    /\ clock' = clock + 1
    /\ UNCHANGED <<taking, hist, answer, seen>>

\* RouteHistograms::observe up to the lock: now_s is taken.
TakeTime(b, r, v) ==
    /\ taking[b] = None
    /\ taking' = [taking EXCEPT ![b] = [route |-> r, value |-> v, now |-> clock]]
    /\ UNCHANGED <<clock, hist, answer, seen>>

\* DecayingQuantile::observe: prev * decay + v * (1 - decay).
Blend(q, v, decay, now) ==
    [num |-> q.num * decay[1] + v * ((decay[2] - decay[1]) * q.den),
     den |-> q.den * decay[2], last |-> now]

Elapsed(q, now) == IF now > q.last THEN now - q.last ELSE 0

\* Mutant: a negative elapsed time is not taken for none.
ObservedExtrapolating(q, v, now) ==
    IF q = None THEN [num |-> v, den |-> 1, last |-> now]
    ELSE IF now >= q.last THEN Blend(q, v, Decay[now - q.last], now)
    ELSE LET decay == Decay[q.last - now] IN Blend(q, v, << decay[2], decay[1] >>, now)

Observed(q, v, now) ==
    IF q = None THEN [num |-> v, den |-> 1, last |-> now]
    ELSE Blend(q, v, Decay[Elapsed(q, now)], now)

\* RouteHistograms::observe under the lock; entry().or_insert_with makes the
\* quantile of a route on its first observation.
Observe(b) ==
    LET o == taking[b] IN
    /\ o # None
    /\ hist' = [hist EXCEPT ![o.route] = Observed(@, o.value, o.now)]
    /\ seen' = [seen EXCEPT ![o.route] = @ \cup {o.value}]
    /\ taking' = [taking EXCEPT ![b] = None]
    /\ UNCHANGED <<clock, answer>>

Least(a, b) == IF a =< b THEN a ELSE b

\* DecayingQuantile::estimate: round() and the cast, which makes 0 of NaN and
\* of what is negative, and the last u32 of what is more.
Rounded(q) ==
    IF q.den = 0 \/ q.num < 0 THEN 0
    ELSE Least((2 * q.num + q.den) \div (2 * q.den), Width - 1)

AtLeastOne(n) == IF n < 1 THEN 1 ELSE n

\* Mutant: a max_tokens of 0 goes through.
EstimateUnclamped(r, asked) ==
    IF asked # None THEN asked % Width
    ELSE IF hist[r] # None THEN AtLeastOne(Rounded(hist[r]))
    ELSE Default

\* RouteHistograms::estimate: the client's max_tokens, cast to u32 by
\* build_features, then the history of the route, then the default.
Estimate(r, asked) ==
    IF asked # None THEN AtLeastOne(asked % Width)
    ELSE IF hist[r] # None THEN AtLeastOne(Rounded(hist[r]))
    ELSE Default

Ask(r, asked) ==
    /\ answer' = [route |-> r, asked |-> asked, value |-> Estimate(r, asked)]
    /\ UNCHANGED <<clock, taking, hist, seen>>

EstimatorInit ==
    /\ clock = 0
    /\ taking = [b \in Bodies |-> None]
    /\ hist = [r \in Routes |-> None]
    /\ answer = None
    /\ seen = [r \in Routes |-> {}]

Learn ==
    \/ Tick
    \/ \E b \in Bodies, r \in Routes, v \in Lengths : TakeTime(b, r, v)
    \/ \E b \in Bodies : Observe(b)

EstimatorNext ==
    \/ Learn
    \/ \E r \in Routes, a \in MaxTokens \cup {None} : Ask(r, a)

EstimatorSpec == EstimatorInit /\ [][EstimatorNext]_estimatorVars

-----------------------------------------------------------------------------
(***************************************************************************)
(* Properties.                                                             *)
(***************************************************************************)

\* What a positive half-life gives.
DecayIsShrinking ==
    \A e \in 0 .. MaxTime : Decay[e][2] > 0 /\ Decay[e][1] =< Decay[e][2]

\* A history is never further out than what it has observed, whatever order
\* the observations of several bodies are applied in: a negative elapsed time
\* does not extrapolate (length_estimator.rs:46-47).  It takes a positive
\* half-life.
EstimateWithinObserved ==
    \A r \in Routes :
        IF hist[r] = None THEN seen[r] = {}
        ELSE /\ hist[r].den > 0
             /\ \E lo \in seen[r] : lo * hist[r].den =< hist[r].num
             /\ \E hi \in seen[r] : hist[r].num =< hi * hist[r].den

\* What a request is told is a u32 and never 0, which would turn
\* PromptPlusOutput into PromptOnly, whatever the half-life; and without
\* max_tokens it is the default or, if the half-life is positive, between two
\* lengths the route has observed, rounding included
\* (length_estimator.rs:86-100).
AnswersAreUsable ==
    answer # None =>
        /\ answer.value \in 1 .. Width - 1
        /\ DecayIsShrinking /\ answer.asked = None /\ answer.value # Default =>
             /\ \E lo \in seen[answer.route] : lo =< answer.value
             /\ \E hi \in seen[answer.route] : answer.value =< hi

=============================================================================
