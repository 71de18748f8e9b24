----------------------------- MODULE Strategies ------------------------------
(***************************************************************************)
(* The other routing strategies of router-core: strategy/least_requests,   *)
(* least_kvts, p2c and round_robin.rs, with trace::record_pick, over the   *)
(* leases of Lease.tla.                                                    *)
(*                                                                         *)
(* A pick loads the counters of the backends one after the other, without  *)
(* a lock, and opens its lease afterwards: other requests open and release *)
(* theirs between any two of these steps.                                  *)
(***************************************************************************)
EXTENDS Lease, SequencesExt, FiniteSetsExt

CONSTANTS
    Strategies,     \* the strategies to run, one per behaviour
    Healthy,        \* snap.healthy
    KvCapacity,     \* caps.kv_capacity_tokens
    Width,          \* range of the round-robin counter, 2^64 in the code
    Many            \* bound of the model: moves that are told apart

ASSUME StrategiesAssumption ==
    /\ Strategies \subseteq {"least_requests", "least_kvts", "p2c", "round_robin"}
    /\ Healthy \in Seq(Backends) /\ Healthy # << >> /\ IsInjective(Healthy)
    /\ KvCapacity \in [Backends -> Nat]
    /\ Width \in Nat \ {0, 1} /\ Many \in Nat

VARIABLES
    strategy,       \* RouterState::strategy
    next,           \* RoundRobin::next
    pick,           \* the locals of the pick of each request
    turns           \* history: how many turns round robin gave each backend, since
                    \* its counter wrapped, more than the one that had fewest

strategiesVars == <<inflight, kvProjected, lease, strategy, next, pick, turns>>

\* sample is what the pick will load, loads what it has loaded so far; trace is
\* the load of each candidate that record_pick has put in the trace; moves is a
\* history: how far all counters together moved since the pick began.
NoPick ==
    [pc |-> "away", prompt |-> 0, est |-> 0, sample |-> << >>, loads |-> << >>,
     chosen |-> NoBackend, trace |-> << >>, moves |-> 0]

-----------------------------------------------------------------------------
\* What a strategy minimises: the requests in flight, or, to maximise what
\* remains of the KV cache, its negation, which is never above zero.
LoadOf(b) ==
    IF strategy = "least_kvts" THEN -Max({KvCapacity[b] - kvProjected[b], 0})
                               ELSE inflight[b]

\* What choose_multiple may draw: p2c compares two different backends.
Samples ==
    CASE strategy = "p2c" ->
           IF Len(Healthy) = 1 THEN {<< >>}
           ELSE {s \in ToSet(Healthy) \X ToSet(Healthy) : s[1] # s[2]}
      [] strategy = "round_robin" -> {<< >>}
      [] OTHER -> {Healthy}

StartPick(r, p, o) ==
    /\ lease[r].phase = "free" /\ pick[r].pc = "away"
    /\ \E s \in Samples :
           pick' = [pick EXCEPT ![r] = [NoPick EXCEPT !.pc = "loading", !.sample = s,
                                                         !.prompt = p, !.est = o]]
    /\ UNCHANGED <<leaseVars, strategy, next, turns>>

LoadNext(r) ==
    LET k == pick[r] IN
    /\ k.pc = "loading" /\ Len(k.loads) < Len(k.sample)
    /\ pick' = [pick EXCEPT ![r].loads = Append(@, LoadOf(k.sample[Len(@) + 1]))]
    /\ UNCHANGED <<leaseVars, strategy, next, turns>>

\* Mutant: the comparison is turned round.
TiesMost(k) ==
    {k.sample[i] : i \in {i \in DOMAIN k.loads : \A j \in DOMAIN k.loads : k.loads[j] =< k.loads[i]}}

\* The sampled backends with the least load.
Ties(k) ==
    {k.sample[i] : i \in {i \in DOMAIN k.loads : \A j \in DOMAIN k.loads : k.loads[i] =< k.loads[j]}}

\* The pick of the strategies that compare loads: a random tie, or the first
\* of the two for p2c.
Preferred(k) ==
    CASE k.sample = << >> -> {Healthy[1]}
      [] k.sample # << >> /\ strategy = "p2c" ->
           IF k.loads[1] =< k.loads[2] THEN {k.sample[1]} ELSE {k.sample[2]}
      [] OTHER -> Ties(k)

Choose(r) ==
    LET k == pick[r] IN
    /\ k.pc = "loading" /\ Len(k.loads) = Len(k.sample)
    /\ strategy # "round_robin"
    /\ \E b \in Preferred(k) :
           pick' = [pick EXCEPT ![r] = [k EXCEPT !.pc = "recording", !.chosen = b,
                                                    !.sample = << >>, !.loads = << >>]]
    /\ UNCHANGED <<leaseVars, strategy, next, turns>>

NoTurns == [b \in ToSet(Healthy) |-> 0]

\* One more turn for b.
OneMore(b) ==
    LET more == [turns EXCEPT ![b] = @ + 1]
        least == Min({more[c] : c \in ToSet(Healthy)})
    IN  [c \in ToSet(Healthy) |-> more[c] - least]

\* Mutant: a load and a store in the place of fetch_add.
TakeTurnRacing(r) ==
    LET b == Healthy[(next % Len(Healthy)) + 1] IN
    /\ pick[r].pc = "loading" /\ strategy = "round_robin"
    /\ next' = IF \E s \in Leases : s # r /\ pick[s].pc = "loading"
               THEN next ELSE (next + 1) % Width
    /\ turns' = IF next' < next THEN NoTurns ELSE OneMore(b)
    /\ pick' = [pick EXCEPT ![r].pc = "recording", ![r].chosen = b]
    /\ UNCHANGED <<leaseVars, strategy>>

\* RoundRobin::pick: fetch_add wraps.
TakeTurn(r) ==
    LET b == Healthy[(next % Len(Healthy)) + 1] IN
    /\ pick[r].pc = "loading" /\ strategy = "round_robin"
    /\ next' = (next + 1) % Width
    /\ turns' = IF next' < next THEN NoTurns ELSE OneMore(b)
    /\ pick' = [pick EXCEPT ![r].pc = "recording", ![r].chosen = b]
    /\ UNCHANGED <<leaseVars, strategy>>

\* record_pick loads the counters again, for all the healthy backends.
RecordNext(r) ==
    LET k == pick[r] IN
    /\ k.pc = "recording" /\ Len(k.trace) < Len(Healthy)
    /\ pick' = [pick EXCEPT ![r].trace = Append(@, LoadOf(Healthy[Len(@) + 1]))]
    /\ UNCHANGED <<leaseVars, strategy, next, turns>>

\* handle_inner opens the lease.
Dispatch(r) ==
    LET k == pick[r] IN
    /\ k.pc = "recording" /\ Len(k.trace) = Len(Healthy)
    /\ BeginOpen(r, k.chosen, k.prompt, k.est)
    /\ pick' = [pick EXCEPT ![r] = NoPick]
    /\ UNCHANGED <<strategy, next, turns>>

Distance(m, n) == IF m < n THEN n - m ELSE m - n

\* The lease of a request goes on; the picks under way may notice.
Work(r) ==
    /\ \/ OpenAddInflight(r) \/ OpenAddKv(r) \/ BeginRelease(r)
       \/ ReleaseSubInflight(r) \/ ReleaseSubKv(r)
       \/ \E n \in Batches : ObserveTokens(r, n)
    /\ UNCHANGED <<strategy, next, turns>>
    /\ LET moved == Max({Distance(LoadOf(b)', LoadOf(b)) : b \in Backends})
       IN  pick' = [s \in Leases |->
                      IF pick[s].pc = "away" THEN pick[s]
                      ELSE [pick[s] EXCEPT !.moves = Min({@ + moved, Many})]]

StrategiesInit ==
    /\ LeaseInit
    /\ strategy \in Strategies
    /\ next = 0
    /\ pick = [r \in Leases |-> NoPick]
    /\ turns = NoTurns

StrategiesStep(r) ==
    \/ \E p \in Prompts, o \in Estimates : StartPick(r, p, o)
    \/ LoadNext(r) \/ Choose(r) \/ TakeTurn(r) \/ RecordNext(r) \/ Dispatch(r)
    \/ Work(r)

StrategiesNext == \E r \in Leases : StrategiesStep(r)

StrategiesSpec == StrategiesInit /\ [][StrategiesNext]_strategiesVars

-----------------------------------------------------------------------------
(***************************************************************************)
(* Properties.                                                             *)
(***************************************************************************)

Others(b) == ToSet(Healthy) \ {b}

\* The choice of r, by the counters as they are now, and by the trace, which
\* loads them anew and need not show what the choice saw.
WorseNow(k, b) == LoadOf(k.chosen) > LoadOf(b) + k.moves
WorseTraced(k, b) ==
    LET At(c) == CHOOSE i \in DOMAIN Healthy : Healthy[i] = c
    IN  /\ Len(k.trace) = Len(Healthy)
        /\ k.trace[At(k.chosen)] > k.trace[At(b)] + k.moves

\* The backend chosen is worse than the best by no more than the counters
\* moved since the pick began, and best when they did not, and the trace does
\* not accuse it of more; p2c, which sees only two, promises this against some
\* other backend and not all (least_requests.rs:31-44, least_kvts.rs:35-48,
\* p2c.rs:30-34, trace.rs:49-65).
StalenessIsAll ==
    \A r \in Leases :
        LET k == pick[r] IN
        k.pc = "recording" /\ k.moves < Many =>
            CASE strategy \in {"least_requests", "least_kvts"} ->
                   \A b \in Others(k.chosen) : ~WorseNow(k, b) /\ ~WorseTraced(k, b)
              [] strategy = "p2c" ->
                   Others(k.chosen) = {} \/ \E b \in Others(k.chosen) : ~WorseNow(k, b)
              [] OTHER -> TRUE

\* However picks interleave, no backend gets two turns more than another; only
\* the wrap of the counter, once in 2^64 picks, begins the rotation anew
\* (round_robin.rs:43-44).
TurnsAreEven == \A b \in ToSet(Healthy) : turns[b] =< 1
=============================================================================
