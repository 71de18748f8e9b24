------------------------------- MODULE Sampler --------------------------------
(***************************************************************************)
(* The gauges of a backend: sampler.rs, which sets them at an interval,    *)
(* the request path, which sets them when it has opened a lease            *)
(* (router.rs), and the record functions of observe.rs.                    *)
(*                                                                         *)
(* Both load a counter in one step and set the gauge in another, so a      *)
(* gauge may go back to a value its counter no longer has.                 *)
(***************************************************************************)
EXTENDS Lease, SequencesExt

CONSTANTS
    Sampled,        \* snap.backends
    Caps,           \* caps of each backend
    Sigma,          \* the ceiling, a pair <<numerator, denominator>>
    SamplerTask     \* the task of sample_occupancy_loop, not a lease

ASSUME SamplerAssumption ==
    /\ Sampled \in Seq(Backends) /\ Sampled # << >>
    /\ Caps \in [Backends -> [max_num_seqs : Nat \ {0}, kv_capacity_tokens : Nat \ {0}]]
    /\ Sigma \in (Nat \ {0}) \X (Nat \ {0})
    /\ SamplerTask \notin Leases

Publishers == Leases \cup {SamplerTask}

VARIABLES
    publish,        \* what each publisher has to set, and what it has loaded
    gauge,          \* the three gauges of each backend
    reached,        \* history: whether the backend was at the ceiling at some moment
                    \* of the sampler's look at it
    wrongTicks      \* history: some tick was counted at the ceiling without that

samplerVars == <<inflight, kvProjected, lease, publish, gauge, reached, wrongTicks>>

Unread == -1
Idle == [todo |-> << >>, n |-> Unread, kv |-> Unread]

\* cost::occupancy, in fractions of Whole: the larger of two shares.
SlotShare(b, n) == n * Caps[b].kv_capacity_tokens
KvShare(b, kv) == kv * Caps[b].max_num_seqs
Whole(b) == Caps[b].max_num_seqs * Caps[b].kv_capacity_tokens
OccupancyOf(b, n, kv) ==
    IF SlotShare(b, n) < KvShare(b, kv) THEN KvShare(b, kv) ELSE SlotShare(b, n)
Occupied(b) == OccupancyOf(b, inflight[b], kvProjected[b])

\* What handle_inner sets after open, and what the loop sets in turn.
RequestOrder(b) == << <<"inflight", b>>, <<"occupancy", b>>, <<"kv", b>> >>

\* Mutant: the KV gauge is set twice and inflight never.
SampleOrderKvTwice(b) == << <<"occupancy", b>>, <<"kv", b>>, <<"kv", b>> >>

SampleOrder(b) == << <<"occupancy", b>>, <<"kv", b>>, <<"inflight", b>> >>

-----------------------------------------------------------------------------
Gauge(p) == publish[p].todo[1][1]
Of(p) == publish[p].todo[1][2]

LoadInflight(p) ==
    /\ publish[p].todo # << >> /\ Gauge(p) \in {"inflight", "occupancy"}
    /\ publish[p].n = Unread
    /\ publish' = [publish EXCEPT ![p].n = inflight[Of(p)]]
    /\ UNCHANGED <<leaseVars, gauge, reached, wrongTicks>>

LoadKv(p) ==
    /\ publish[p].todo # << >> /\ publish[p].kv = Unread
    /\ Gauge(p) = "kv" \/ (Gauge(p) = "occupancy" /\ publish[p].n # Unread)
    /\ publish' = [publish EXCEPT ![p].kv = kvProjected[Of(p)]]
    /\ UNCHANGED <<leaseVars, gauge, reached, wrongTicks>>

\* The value of the gauge is known.
Value(p) ==
    CASE Gauge(p) = "inflight" -> publish[p].n
      [] Gauge(p) = "kv" -> publish[p].kv
      [] Gauge(p) = "occupancy" -> OccupancyOf(Of(p), publish[p].n, publish[p].kv)
Ready(p) ==
    /\ publish[p].todo # << >>
    /\ Gauge(p) # "kv" => publish[p].n # Unread
    /\ Gauge(p) # "inflight" => publish[p].kv # Unread

AtCeilingNow(b) == Occupied(b) * Sigma[2] >= Sigma[1] * Whole(b)

\* The sampler has yet to look at the occupancy of b.
Looking(b) == <<"occupancy", b>> \in ToSet(publish[SamplerTask].todo)

\* Mutant: the two shares of the capacity are added.
AboveCeilingBySum(b, n, kv) ==
    (SlotShare(b, n) + KvShare(b, kv)) * Sigma[2] >= Sigma[1] * Whole(b)

AboveCeiling(b, n, kv) ==
    OccupancyOf(b, n, kv) * Sigma[2] >= Sigma[1] * Whole(b)

\* record_inflight, record_occupancy or record_kv_projected; with its
\* occupancy the sampler also knows what it will tell record_occupancy_tick.
SetGauge(p) ==
    LET b == Of(p)
        looked == p = SamplerTask /\ Gauge(p) = "occupancy"
    IN  /\ Ready(p)
        /\ gauge' = [gauge EXCEPT ![b][Gauge(p)] = Value(p)]
        /\ publish' = [publish EXCEPT ![p] = [Idle EXCEPT !.todo = Tail(publish[p].todo)]]
        /\ wrongTicks' = (wrongTicks \/ (/\ looked /\ ~reached[b]
                                         /\ AboveCeiling(b, publish[p].n, publish[p].kv)))
        /\ reached' = [c \in Backends |-> IF looked /\ c = b
                                          THEN Looking(c)' /\ AtCeilingNow(c)
                                          ELSE reached[c]]
        /\ UNCHANGED leaseVars

\* The ticker fires and the loop goes through the backends, the three gauges of
\* one after those of the other.
SampleTick ==
    /\ publish[SamplerTask].todo = << >>
    /\ publish' = [publish EXCEPT ![SamplerTask].todo =
                     [k \in 1 .. 3 * Len(Sampled) |->
                        SampleOrder(Sampled[(k + 2) \div 3])[((k + 2) % 3) + 1]]]
    /\ reached' = [b \in Backends |-> Looking(b)' /\ AtCeilingNow(b)]
    /\ UNCHANGED <<leaseVars, gauge, wrongTicks>>

\* The request goes on, and publishes as soon as its lease is open.
RequestStep(r) ==
    /\ publish[r].todo = << >>
    /\ \/ \E b \in ToSet(Sampled), p \in Prompts, o \in Estimates : BeginOpen(r, b, p, o)
       \/ OpenAddInflight(r) \/ OpenAddKv(r) \/ BeginRelease(r)
       \/ ReleaseSubInflight(r) \/ ReleaseSubKv(r)
       \/ \E n \in Batches : ObserveTokens(r, n)
    /\ publish' = IF lease[r].phase = "opening" /\ lease'[r].phase = "open"
                  THEN [publish EXCEPT ![r].todo = RequestOrder(lease[r].backend)]
                  ELSE publish
    /\ reached' = [b \in Backends |-> reached[b] \/ (Looking(b) /\ AtCeilingNow(b)')]
    /\ UNCHANGED <<gauge, wrongTicks>>

SamplerInit ==
    /\ LeaseInit
    /\ publish = [p \in Publishers |-> Idle]
    /\ gauge = [b \in Backends |-> [inflight |-> Unread, kv |-> Unread, occupancy |-> Unread]]
    /\ reached = [b \in Backends |-> FALSE] /\ wrongTicks = FALSE

Publish(p) == LoadInflight(p) \/ LoadKv(p) \/ SetGauge(p)

SamplerStep == SampleTick \/ Publish(SamplerTask)

SamplerNext ==
    \/ SamplerStep
    \/ \E r \in Leases : Publish(r)
    \/ \E r \in Leases : RequestStep(r)

\* The ticker fires again and again and the loop never awaits between; nothing
\* is assumed of the requests.
SamplerFairness == WF_samplerVars(SamplerStep)

SamplerSpec == SamplerInit /\ [][SamplerNext]_samplerVars /\ SamplerFairness

-----------------------------------------------------------------------------
(***************************************************************************)
(* Properties.                                                             *)
(***************************************************************************)

Shown(b) ==
    [inflight |-> inflight[b], kv |-> kvProjected[b], occupancy |-> Occupied(b)]

\* "When a backend becomes saturated ... request-path metrics for that backend
\* cease updating and freeze at stale values": once the counters rest, all the
\* gauges show them, whatever a request that had loaded an older value sets
\* (sampler.rs:4-10, router.rs:133-138).
GaugesCatchUp ==
    <>[][FALSE]_<<inflight, kvProjected>> =>
        <>[](\A i \in DOMAIN Sampled : gauge[Sampled[i]] = Shown(Sampled[i]))

\* A tick counts as one at the ceiling only if the backend was there at some
\* moment since the tick, although its two counters are loaded apart
\* (sampler.rs:36-40, cost.rs:28-34).
CeilingWasReached == ~wrongTicks
=============================================================================
