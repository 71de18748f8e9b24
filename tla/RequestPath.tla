---------------------------- MODULE RequestPath -----------------------------
(***************************************************************************)
(* What the router does with a request: router.rs, with the admission gate *)
(* (gate.rs), the pressure strategy (strategy/pressure.rs) and the life of *)
(* the response body (upstream.rs).  Every request has one cost lease, so  *)
(* the leases of Lease.tla are the requests here.                          *)
(*                                                                         *)
(* handle_inner is one async function.  From the end of read_body to the   *)
(* first poll of dispatch it never awaits: the strategy's loads, the pick  *)
(* and the opening of the lease run on one worker thread.  Other workers   *)
(* run the same code at the same time, and the loads and updates of the    *)
(* counters interleave.  At an await the request holds no worker.  A       *)
(* client that leaves ends the body the handler reads with an error, drops *)
(* the future while it waits for the upstream, and drops the response body *)
(* after that.                                                             *)
(***************************************************************************)
EXTENDS Lease, Sequences

CONSTANTS
    Healthy,        \* snap.healthy: ids of the backends in configuration order
    Workers,        \* number of worker threads of the runtime
    MaxSeqs,        \* caps.max_num_seqs of each backend
    KvCapacity,     \* caps.kv_capacity_tokens of each backend
    Sigma,          \* the gate's safety factor, a pair <<numerator, denominator>>
    Theta,          \* the knee of the score, likewise
    Penalty         \* the weight above it, likewise; see Less

ASSUME PathAssumption ==
    /\ Healthy \in Seq(Backends) /\ Healthy # << >>
    /\ IsFiniteSet(Leases)
    /\ IsFiniteSet(Prompts) /\ Prompts # {}
    /\ IsFiniteSet(Estimates) /\ Estimates # {}
    /\ 1 \in Batches
    /\ Workers \in Nat \ {0}
    /\ MaxSeqs \in [Backends -> Nat \ {0}]
    /\ KvCapacity \in [Backends -> Nat \ {0}]
    /\ Sigma \in (Nat \ {0}) \X (Nat \ {0})
    /\ Theta \in (Nat \ {0}) \X (Nat \ {0}) /\ Theta[1] < Theta[2]
    \* validate bounds theta and sigma, and lets any penalty pass.
    /\ Penalty \in Int \X Nat

Requests == Leases

VARIABLES
    pc,             \* where each request is
    decision,       \* the local variables of its call of pick
    recorded,       \* how often record_request_result ran for it
    left            \* its client went away before there was a response

pathVars == <<inflight, kvProjected, lease, pc, decision, recorded, left>>

\* Between awaits a request is on a worker thread.
OnWorker ==
    {"gateKv", "gateSlot", "scoreSlot", "scoreKv", "pick", "opening", "build",
     "failing", "closing", "leaving"}
Awaiting == {"reading", "connecting", "streaming"}
Places == OnWorker \cup Awaiting \cup {"idle", "finished"}

Busy == {r \in Requests : pc[r] \in OnWorker}
WorkerFree == Cardinality(Busy) < Workers

-----------------------------------------------------------------------------
(***************************************************************************)
(* The decision.                                                           *)
(***************************************************************************)

\* An f64 is a fraction <<numerator, denominator>>, and without denominator an
\* infinity of the numerator's sign, or NaN.  Rounding is left out.
Infinity == <<1, 0>>
NaN == <<0, 0>>

\* partial_cmp gives Less, Equal, or with a NaN neither.
Less(u, v) ==
    \/ u[1] * v[2] < v[1] * u[2]
    \/ u[2] = 0 /\ v[2] = 0 /\ u[1] < 0 /\ 0 < v[1]
Same(u, v) == NaN \notin {u, v} /\ ~Less(u, v) /\ ~Less(v, u)

\* cost::occupancy of backend b from the two values loaded.
Occupancy(b, n, kv) ==
    IF Less(<<n, MaxSeqs[b]>>, <<kv, KvCapacity[b]>>)
    THEN <<kv, KvCapacity[b]>> ELSE <<n, MaxSeqs[b]>>

\* cost::pressure_score: above the knee a penalty times the square of
\* (u - theta) / (1 - theta), which is over / scale.
PressureScore(u) ==
    LET over == u[1] * Theta[2] - Theta[1] * u[2]
        scale == u[2] * (Theta[2] - Theta[1])
    IN  IF Less(u, Theta) THEN u
        ELSE << (u[1] * (Theta[2] - Theta[1])) * (scale * Penalty[2]) + Penalty[1] * (over * over),
                (scale * scale) * Penalty[2] >>

\* The ceiling of the gate, (sigma * kv_capacity) as i64.
KvLimit(b) == (Sigma[1] * KvCapacity[b]) \div Sigma[2]

NoDecision ==
    [prompt |-> 0, est |-> 0, at |-> 1, kvOk |-> FALSE, eligible |-> {},
     fellThrough |-> FALSE, n |-> 0, minScore |-> Infinity, ties |-> {}]

Need(d) == Project(d.prompt, d.est)

AllHealthy == {Healthy[i] : i \in 1 .. Len(Healthy)}

\* Mutant: an empty eligible set is not replaced by the healthy backends.
PoolRefusing(d) == d.eligible

\* The backends pick scores.
Pool(d) == IF d.fellThrough THEN AllHealthy ELSE d.eligible

\* The positions of the pool from i on, in the order of the loop.
Remaining(d, i) == {j \in i .. Len(Healthy) : Healthy[j] \in Pool(d)}

\* The first backend to score, or the end of the loop.
ScoreFrom(d, i) ==
    IF Remaining(d, i) = {} THEN [at |-> 1, pc |-> "pick"]
    ELSE [at |-> CHOOSE j \in Remaining(d, i) : \A k \in Remaining(d, i) : j =< k,
          pc |-> "scoreSlot"]

GoTo(r, place) == pc' = [pc EXCEPT ![r] = place]

\* read_body and build_features are done and the request has p prompt tokens
\* and an estimate of o; the strategy starts with the gate.
Decide(r, p, o) ==
    /\ pc[r] = "reading" /\ WorkerFree
    /\ decision' = [decision EXCEPT ![r] =
                      [NoDecision EXCEPT !.prompt = p, !.est = o]]
    /\ GoTo(r, "gateKv")
    /\ UNCHANGED <<inflight, kvProjected, lease, recorded, left>>

\* Mutant: the request's own need is not counted.
KvOkWithoutNeed(b, need) == kvProjected[b] =< KvLimit(b)

KvOk(b, need) == kvProjected[b] + need =< KvLimit(b)

\* admits loads kv_projected_tokens ...
GateKv(r) ==
    LET d == decision[r] IN
    /\ pc[r] = "gateKv"
    /\ decision' = [decision EXCEPT ![r] =
                      [d EXCEPT !.kvOk = KvOk(Healthy[d.at], Need(d))]]
    /\ GoTo(r, "gateSlot")
    /\ UNCHANGED <<inflight, kvProjected, lease, recorded, left>>

\* Mutant: the slot comparison admits one too many.
SlotOkOffByOne(b) == inflight[b] =< MaxSeqs[b]

SlotOk(b) == inflight[b] < MaxSeqs[b]

\* ... and then inflight, and the loop of gate::eligible moves on.  After the
\* last backend an empty eligible set means the decision falls through.
GateSlot(r) ==
    LET d == decision[r]
        b == Healthy[d.at]
        eligible == IF d.kvOk /\ SlotOk(b) THEN d.eligible \cup {b}
                                           ELSE d.eligible
        gated == [d EXCEPT !.eligible = eligible, !.kvOk = FALSE,
                           !.fellThrough = eligible = {}]
        next == ScoreFrom(gated, 1)
    IN  /\ pc[r] = "gateSlot"
        /\ IF d.at < Len(Healthy)
           THEN /\ decision' = [decision EXCEPT ![r] =
                     [d EXCEPT !.eligible = eligible, !.kvOk = FALSE, !.at = @ + 1]]
                /\ GoTo(r, "gateKv")
           ELSE /\ decision' = [decision EXCEPT ![r] = [gated EXCEPT !.at = next.at]]
                /\ GoTo(r, next.pc)
        /\ UNCHANGED <<inflight, kvProjected, lease, recorded, left>>

\* occupancy loads inflight ...
ScoreSlot(r) ==
    LET d == decision[r] IN
    /\ pc[r] = "scoreSlot"
    /\ decision' = [decision EXCEPT ![r] = [d EXCEPT !.n = inflight[Healthy[d.at]]]]
    /\ GoTo(r, "scoreKv")
    /\ UNCHANGED <<inflight, kvProjected, lease, recorded, left>>

\* The score of b is compared with the minimum so far; one that is greater, or
\* that compares with nothing, is passed over.
Scored(d, b, score) ==
    IF Less(score, d.minScore) THEN [d EXCEPT !.minScore = score, !.ties = {b}]
    ELSE IF Same(score, d.minScore) THEN [d EXCEPT !.ties = @ \cup {b}]
    ELSE d

\* ... and then kv_projected_tokens.
ScoreKv(r) ==
    LET d == decision[r]
        b == Healthy[d.at]
        next == ScoreFrom(d, d.at + 1)
    IN  /\ pc[r] = "scoreKv"
        /\ decision' = [decision EXCEPT ![r] =
                          [Scored(d, b, PressureScore(Occupancy(b, d.n, kvProjected[b])))
                           EXCEPT !.at = next.at, !.n = 0,
                                  !.minScore = IF next.pc = "pick" THEN Infinity ELSE @]]
        /\ GoTo(r, next.pc)
        /\ UNCHANGED <<inflight, kvProjected, lease, recorded, left>>

\* A random tie is chosen and handle_inner calls CostLease::open.
Pick(r) ==
    LET d == decision[r] IN
    /\ pc[r] = "pick"
    /\ \E b \in d.ties : BeginOpen(r, b, d.prompt, d.est)
    /\ decision' = [decision EXCEPT ![r] =
                      [NoDecision EXCEPT !.fellThrough = d.fellThrough]]
    /\ GoTo(r, "opening")
    /\ UNCHANGED <<recorded, left>>

\* There is no tie: pick returns None, and error_response records the 503.
Refuse(r) ==
    /\ pc[r] = "pick" /\ decision[r].ties = {}
    /\ recorded' = [recorded EXCEPT ![r] = @ + 1]
    /\ decision' = [decision EXCEPT ![r] = NoDecision]
    /\ GoTo(r, "finished")
    /\ UNCHANGED <<inflight, kvProjected, lease, left>>

\* The two atomic additions of open; handle_inner goes on when it returns.
Open(r) ==
    /\ pc[r] = "opening"
    /\ OpenAddInflight(r) \/ OpenAddKv(r)
    /\ GoTo(r, IF lease'[r].phase = "open" THEN "build" ELSE "opening")
    /\ UNCHANGED <<decision, recorded, left>>

-----------------------------------------------------------------------------
(***************************************************************************)
(* The rest of the request.                                                *)
(***************************************************************************)

Accept(r) ==
    /\ pc[r] = "idle"
    /\ GoTo(r, "reading")
    /\ UNCHANGED <<inflight, kvProjected, lease, decision, recorded, left>>

\* The body is too large, malformed, or cut off by a client that leaves, which
\* ends the body with an error and not the handler: error_response records it.
RejectBody(r) ==
    /\ pc[r] = "reading" /\ WorkerFree
    /\ recorded' = [recorded EXCEPT ![r] = @ + 1]
    /\ GoTo(r, "finished")
    /\ UNCHANGED <<inflight, kvProjected, lease, decision, left>>

\* rebuild_request succeeds and dispatch is polled for the first time.
StartDispatch(r) ==
    /\ pc[r] = "build"
    /\ GoTo(r, "connecting")
    /\ UNCHANGED <<inflight, kvProjected, lease, decision, recorded, left>>

\* rebuild_request fails: drop(lease), 502.
BuildFails(r) ==
    /\ pc[r] = "build"
    /\ BeginRelease(r)
    /\ GoTo(r, "failing")
    /\ UNCHANGED <<decision, recorded, left>>

\* dispatch fails: drop(lease), 502.
DispatchFails(r) ==
    /\ pc[r] = "connecting" /\ WorkerFree
    /\ BeginRelease(r)
    /\ GoTo(r, "failing")
    /\ UNCHANGED <<decision, recorded, left>>

\* Mutant: the lease is not moved into the body; returning drops it.
RespondDroppingLease(r) ==
    /\ pc[r] = "connecting" /\ WorkerFree
    /\ BeginRelease(r)
    /\ GoTo(r, "streaming")
    /\ UNCHANGED <<decision, recorded, left>>

\* The response head arrives and the lease moves into CountingSseBody.
Respond(r) ==
    /\ pc[r] = "connecting" /\ WorkerFree
    /\ GoTo(r, "streaming")
    /\ UNCHANGED <<inflight, kvProjected, lease, decision, recorded, left>>

\* poll_frame sees a content frame.
Content(r) ==
    /\ pc[r] = "streaming" /\ WorkerFree
    /\ ObserveTokens(r, 1)
    /\ UNCHANGED <<pc, decision, recorded, left>>

\* Mutant: a body that is still waiting for its first token is not dropped.
EndBodyWithTokens(r) ==
    /\ pc[r] = "streaming" /\ WorkerFree /\ lease[r].seen > 0
    /\ recorded' = [recorded EXCEPT ![r] = @ + 1]
    /\ BeginRelease(r)
    /\ GoTo(r, "closing")
    /\ UNCHANGED <<decision, left>>

\* The stream ends or fails, or the client goes away: the body is dropped, its
\* PinnedDrop records the result, and then its lease field is dropped.
EndBody(r) ==
    /\ pc[r] = "streaming" /\ WorkerFree
    /\ recorded' = [recorded EXCEPT ![r] = @ + 1]
    /\ BeginRelease(r)
    /\ GoTo(r, "closing")
    /\ UNCHANGED <<decision, left>>

\* The client goes away while dispatch is awaited: the future of handle_inner
\* is dropped, and the lease with it.
ClientLeaves(r) ==
    /\ pc[r] = "connecting" /\ WorkerFree
    /\ left' = [left EXCEPT ![r] = TRUE]
    /\ BeginRelease(r)
    /\ GoTo(r, "leaving")
    /\ UNCHANGED <<decision, recorded>>

\* Mutant: the lease is forgotten instead of dropped.
ReleaseForgetting(r) ==
    /\ pc[r] \in {"failing", "closing", "leaving"}
    /\ lease[r].phase = "releasing"
    /\ lease' = [lease EXCEPT ![r] = NoLease]
    /\ UNCHANGED <<inflight, kvProjected, pc, decision, recorded, left>>

\* The two atomic subtractions of release.
Release(r) ==
    /\ pc[r] \in {"failing", "closing", "leaving"}
    /\ ReleaseSubInflight(r) \/ ReleaseSubKv(r)
    /\ UNCHANGED <<pc, decision, recorded, left>>

\* Mutant: an error response is recorded where the error is raised as well.
FinishRecordingAll(r) ==
    /\ pc[r] \in {"failing", "closing", "leaving"} /\ lease[r].phase = "free"
    /\ recorded' = [recorded EXCEPT ![r] = IF left[r] THEN @ ELSE @ + 1]
    /\ decision' = [decision EXCEPT ![r] = NoDecision]
    /\ GoTo(r, "finished")
    /\ UNCHANGED <<inflight, kvProjected, lease, left>>

\* The lease is gone; a failed request still goes through error_response.
Finish(r) ==
    /\ pc[r] \in {"failing", "closing", "leaving"} /\ lease[r].phase = "free"
    /\ recorded' = [recorded EXCEPT ![r] = IF pc[r] = "failing" THEN @ + 1 ELSE @]
    /\ decision' = [decision EXCEPT ![r] = NoDecision]
    /\ GoTo(r, "finished")
    /\ UNCHANGED <<inflight, kvProjected, lease, left>>

\* The request is over and its identity is used for another one.
Reuse(r) ==
    /\ pc[r] = "finished"
    /\ recorded' = [recorded EXCEPT ![r] = 0]
    /\ left' = [left EXCEPT ![r] = FALSE]
    /\ GoTo(r, "idle")
    /\ UNCHANGED <<inflight, kvProjected, lease, decision>>

-----------------------------------------------------------------------------

PathInit ==
    /\ LeaseInit
    /\ pc = [r \in Requests |-> "idle"]
    /\ decision = [r \in Requests |-> NoDecision]
    /\ recorded = [r \in Requests |-> 0]
    /\ left = [r \in Requests |-> FALSE]

\* What a worker does with a request it is running.
Compute(r) ==
    \/ GateKv(r) \/ GateSlot(r) \/ ScoreSlot(r) \/ ScoreKv(r)
    \/ Pick(r) \/ Refuse(r) \/ Open(r) \/ StartDispatch(r) \/ BuildFails(r)
    \/ Release(r) \/ Finish(r)

\* What ends an await.
EndReading(r) ==
    RejectBody(r) \/ \E p \in Prompts, o \in Estimates : Decide(r, p, o)
EndConnecting(r) == DispatchFails(r) \/ Respond(r) \/ ClientLeaves(r)

PathStep(r) ==
    \/ Accept(r) \/ EndReading(r) \/ Compute(r) \/ EndConnecting(r)
    \/ Content(r) \/ EndBody(r) \/ Reuse(r)

PathNext == \E r \in Requests : PathStep(r)

PathSpec == PathInit /\ [][PathNext]_pathVars

\* A worker does not stop in the middle of a synchronous section, and the
\* runtime's queue is first in, first out, so a request that keeps becoming
\* ready is run.  The code sets no timeout: that an upstream answers and ends
\* its response, or the client gives up, is the environment's doing.
PathFairness ==
    \A r \in Requests :
        /\ WF_pathVars(Compute(r))
        /\ SF_pathVars(EndConnecting(r))
        /\ SF_pathVars(EndBody(r))

FairPathSpec == PathSpec /\ PathFairness

-----------------------------------------------------------------------------
(***************************************************************************)
(* Properties.                                                             *)
(***************************************************************************)

DecisionRecord ==
    [prompt : Nat, est : Nat, at : 1 .. Len(Healthy), kvOk : BOOLEAN,
     eligible : SUBSET Backends, fellThrough : BOOLEAN, n : Nat,
     minScore : Int \X Nat, ties : SUBSET Backends]

\* Everything is in range, and no more requests are between two awaits than
\* there are worker threads.
PathTypeOK ==
    /\ LeaseTypeOK
    /\ pc \in [Requests -> Places]
    /\ decision \in [Requests -> DecisionRecord]
    /\ recorded \in [Requests -> Nat]
    /\ left \in [Requests -> BOOLEAN]
    /\ Cardinality(Busy) =< Workers

\* A request has an open lease exactly from the end of open to the event that
\* ends it, on every way there is through handle_inner, dispatch and the body:
\* a backend is charged for what it serves and for nothing else
\* (router.rs:123-175).
ChargedWhileServed ==
    \A r \in Requests :
        /\ lease[r].phase = "open" <=> pc[r] \in {"build", "connecting", "streaming"}
        /\ lease[r].phase = "free" => pc[r] # "opening"
        /\ pc[r] \in {"idle", "reading", "pick", "finished"} => lease[r].phase = "free"

\* A penalty that is a number.
PenaltyIsFinite == Penalty[2] > 0

\* "Admission control never sheds requests" (observe.rs:32): pick always has a
\* backend to return.  When the gate admits none, the decision falls through
\* to all the healthy ones (pressure.rs:48-53), and if the penalty is a number,
\* whatever its sign, some score is the least.
NeverRefuses ==
    \A r \in Requests : pc[r] = "pick" => decision[r].ties # {}

\* The requests that hold a slot of b although the gate admitted them nowhere.
FellThroughOn(b) ==
    {r \in Requests : /\ decision[r].fellThrough
                      /\ lease[r].slot /\ lease[r].backend = b}

\* The gate loads inflight and adds to it later, without a lock.  Nobody waits
\* in between, so a backend exceeds max_num_seqs by no more than the other
\* workers that may have read the same value, and by the requests that fell
\* through (gate.rs:17, lease.rs:32).
SlotOvershoot ==
    \A b \in Backends :
        inflight[b] =< MaxSeqs[b] + (Workers - 1) + Cardinality(FellThroughOn(b))

\* What the requests admitted by the gate were charged on b when they opened.
AdmittedOn(b) ==
    {r \in Requests : /\ ~decision[r].fellThrough
                      /\ lease[r].kv /\ lease[r].backend = b}
AdmittedUnits(b) ==
    UNION {{r} \X (1 .. Project(lease[r].prompt, lease[r].est)) : r \in AdmittedOn(b)}
AdmittedKv(b) == Cardinality(AdmittedUnits(b))

\* The largest need of a request.
LargestNeed ==
    CHOOSE n \in {Project(p, o) : p \in Prompts, o \in Estimates} :
        \A p \in Prompts, o \in Estimates : Project(p, o) =< n

\* Likewise what the gate admits to a backend exceeds sigma * kv_capacity by
\* no more than one need for every other worker.  Recharges are not gated, so
\* they are left out of the sum (gate.rs:14-16, lease.rs:33).
KvOvershoot ==
    \A b \in Backends :
        AdmittedKv(b) =< KvLimit(b) + (Workers - 1) * LargestNeed

\* A request is recorded once, whichever way it ends: by error_response or by
\* the drop of its body, and not by both.  The one exception is a client that
\* leaves while dispatch is awaited: nothing records it.
RecordedOnce ==
    \A r \in Requests :
        pc[r] = "finished" => recorded[r] = IF left[r] THEN 0 ELSE 1

\* The handler composes leases: each of its steps is one of the lease module's
\* or leaves the leases alone.
ImplementsLease == LeaseSpec

\* Whatever a request holds it gives back: no way of ending one, and no mix of
\* workers, strands the charge (router.rs:145,152, upstream.rs:86-96).
CapacityReturned ==
    \A r \in Requests : lease[r].phase # "free" ~> lease[r].phase = "free"
=============================================================================
