------------------------------ MODULE PickTrace -------------------------------
(***************************************************************************)
(* The decision trace of the pressure strategy: the last part of           *)
(* Pressure::pick (strategy/pressure.rs) with the types of trace.rs, in    *)
(* the place RequestPath.tla leaves it, between the choice and the         *)
(* opening of the lease.  The trace is not written while the decision is   *)
(* made: every counter is loaded anew, one after the other.                *)
(***************************************************************************)
EXTENDS RequestPath

VARIABLES
    trace,          \* the DecisionTrace of each request, while pick runs
    moved           \* history: the backends whose counters have changed since
                    \* the pick of a request began

traceVars ==
    <<inflight, kvProjected, lease, pc, decision, recorded, left, trace, moved>>

\* loads is what has been loaded of the next candidate.
NoTrace ==
    [begun |-> FALSE, chosen |-> NoBackend, loads |-> << >>, candidates |-> << >>]

\* From the first load of the gate to the return of pick.
Picking == {"gateKv", "gateSlot", "scoreSlot", "scoreKv", "pick"}

-----------------------------------------------------------------------------
\* The loads of a candidate: two by occupancy, one to tell what it was gated
\* by, one for each of the fields.
Fields == << "inflight", "kv", "kv", "inflight", "kv" >>

Candidate(r) == Healthy[Len(trace[r].candidates) + 1]

\* Mutant: the reason is worked out although the decision fell through.
WasGatedAnyway(d, b) == b \notin d.eligible

\* Only if the gate was heeded and kept b out is there a reason.
WasGated(d, b) == ~d.fellThrough /\ b \notin d.eligible

GatedBy(d, b, kv) ==
    IF ~WasGated(d, b) THEN "None"
    ELSE IF kv + Need(d) =< KvLimit(b) THEN "SlotLimit" ELSE "KvHeadroom"

CandidateScore(r, loads) ==
    LET b == Candidate(r)
        u == Occupancy(b, loads[1], loads[2])
    IN
    [backend |-> b, occupancy |-> u, score |-> PressureScore(u),
     gated_by |-> GatedBy(decision[r], b, loads[3]),
     inflight |-> loads[4], kv_projected |-> loads[5]]

-----------------------------------------------------------------------------
\* A random tie is chosen if there is one; the trace begins.
Choose(r) ==
    /\ pc[r] = "pick" /\ ~trace[r].begun
    /\ \/ \E b \in decision[r].ties :
             trace' = [trace EXCEPT ![r].begun = TRUE, ![r].chosen = b]
       \/ decision[r].ties = {} /\ trace' = [trace EXCEPT ![r].begun = TRUE]
    /\ UNCHANGED pathVars

\* The next counter of the next candidate.
TraceLoad(r) ==
    LET t == trace[r]
        b == Candidate(r)
        value == IF Fields[Len(t.loads) + 1] = "kv" THEN kvProjected[b] ELSE inflight[b]
        loads == Append(t.loads, value)
    IN  /\ t.begun /\ Len(t.candidates) < Len(Healthy)
        /\ trace' = [trace EXCEPT ![r] =
             IF Len(loads) < Len(Fields) THEN [t EXCEPT !.loads = loads]
             ELSE [t EXCEPT !.loads = << >>,
                            !.candidates = Append(@, CandidateScore(r, loads))]]
        /\ UNCHANGED pathVars

\* pick returns and the lease of the one chosen is opened, or the request is
\* refused.
PickTraced(r) ==
    /\ trace[r].begun /\ Len(trace[r].candidates) = Len(Healthy)
    /\ \/ Pick(r) /\ lease'[r].backend = trace[r].chosen
       \/ Refuse(r)
    /\ trace' = [trace EXCEPT ![r] = NoTrace]

TraceInit ==
    /\ PathInit
    /\ trace = [r \in Requests |-> NoTrace]
    /\ moved = [r \in Requests |-> {}]

\* Everything else a request does leaves its trace alone.
Untraced(A) == A /\ UNCHANGED trace
ComputeTraced(r) ==
    \/ Choose(r) \/ TraceLoad(r) \/ PickTraced(r)
    \/ Untraced(GateKv(r) \/ GateSlot(r) \/ ScoreSlot(r) \/ ScoreKv(r) \/ Open(r)
                \/ StartDispatch(r) \/ BuildFails(r) \/ Release(r) \/ Finish(r))

\* What a step does to the counters is noted for the picks under way.
Changed == {b \in Backends : inflight'[b] # inflight[b] \/ kvProjected'[b] # kvProjected[b]}
Noted(A) ==
    /\ A
    /\ moved' = [r \in Requests |-> IF pc'[r] \in Picking THEN moved[r] \cup Changed ELSE {}]

TraceNext ==
    \E r \in Requests :
        \/ Noted(ComputeTraced(r))
        \/ Noted(Untraced(Accept(r) \/ EndReading(r) \/ EndConnecting(r) \/ Content(r)
                          \/ EndBody(r) \/ Reuse(r)))

TraceSpec == TraceInit /\ [][TraceNext]_traceVars

-----------------------------------------------------------------------------
(***************************************************************************)
(* Properties.                                                             *)
(***************************************************************************)

\* What the numbers of a candidate say of it.
Explained(d, c) ==
    c.gated_by = IF d.fellThrough THEN "None"
                 ELSE IF c.kv_projected + Need(d) > KvLimit(c.backend) THEN "KvHeadroom"
                 ELSE IF c.inflight >= MaxSeqs[c.backend] THEN "SlotLimit"
                 ELSE "None"

\* The candidates that the trace of r does not show as gated, without those
\* whose counters changed meanwhile.
Comparable(r) ==
    {i \in DOMAIN trace[r].candidates :
        LET c == trace[r].candidates[i] IN c.gated_by = "None" /\ c.backend \notin moved[r]}

\* The trace is made of other loads than the decision, while other workers
\* open and release leases, but it misleads only about the backends whose
\* counters changed while pick ran: every other candidate was gated by the
\* limit it is shown at, or not gated if the decision fell through, and of
\* those not gated the one chosen is shown with a score, and none with a lower
\* one.  Likewise nothing was chosen only if none of them is shown with a score
\* (pressure.rs:58-115).
TraceExplains ==
    \A r \in Requests :
        LET t == trace[r]
            Score(i) == t.candidates[i].score
        IN  Len(t.candidates) = Len(Healthy) =>
                /\ \A i \in DOMAIN t.candidates :
                       t.candidates[i].backend \notin moved[r] =>
                           Explained(decision[r], t.candidates[i])
                /\ \A i \in Comparable(r) : t.candidates[i].backend = t.chosen =>
                       Score(i) # NaN /\ \A j \in Comparable(r) : ~Less(Score(j), Score(i))
                /\ t.chosen = NoBackend => \A i \in Comparable(r) : Score(i) = NaN
=============================================================================
