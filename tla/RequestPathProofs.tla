------------------------- MODULE RequestPathProofs --------------------------
(***************************************************************************)
(* The request path implements the lease, for any number of requests,      *)
(* workers and backends; every request is charged while it is served,      *)
(* recorded once, and never refused if the penalty is a number; and a      *)
(* backend exceeds its slot limit, and its ceiling of KV tokens, by no     *)
(* more than the workers that may race for the last of them.               *)
(*                                                                         *)
(* Both limits need an invariant about the requests that have passed the   *)
(* gate and are not in the counters yet: Pending for the slots, Granted    *)
(* for the KV tokens.                                                      *)
(*                                                                         *)
(* The last part is about the trace of a decision: what a decision has     *)
(* found out about a backend stays true as long as the counters of that    *)
(* backend do not move, so that the trace, loaded later, tells the same    *)
(* of every backend that no other request has moved in between.            *)
(***************************************************************************)
EXTENDS PickTrace, LeaseProofs, WellFoundedInduction

Scoring == {"scoreSlot", "scoreKv"}
Ending == {"failing", "closing", "leaving"}

Scores == Int \X Nat

\* A decision, when the counters are only known to be integers.
Decisions ==
    [prompt : Nat, est : Nat, at : 1 .. Len(Healthy), kvOk : BOOLEAN,
     eligible : SUBSET Backends, fellThrough : BOOLEAN, n : Int,
     minScore : Scores, ties : SUBSET Backends]

PathTypes ==
    /\ pc \in [Requests -> Places]
    /\ decision \in [Requests -> Decisions]
    /\ recorded \in [Requests -> Nat]
    /\ left \in [Requests -> BOOLEAN]

\* What the place of a request says of its lease, ...
PhaseOK(r) ==
    /\ pc[r] \in Picking \cup {"idle", "reading", "finished"}
         => lease[r].phase = "free"
    /\ pc[r] = "opening" => lease[r].phase = "opening"
    /\ pc[r] \in {"build", "connecting", "streaming"} => lease[r].phase = "open"
    /\ pc[r] \in Ending => lease[r].phase \in {"releasing", "free"}

\* ... of its record, ...
RecordOK(r) ==
    /\ left[r] => pc[r] \in {"leaving", "finished"}
    /\ recorded[r] = IF \/ pc[r] = "closing"
                        \/ pc[r] = "finished" /\ ~left[r] THEN 1 ELSE 0
    /\ pc[r] = "leaving" => left[r]

\* ... and of its decision.
DecisionOK(r) ==
    LET d == decision[r] IN
    /\ pc[r] \in Picking => d.prompt \in Prompts /\ d.est \in Estimates
    /\ pc[r] \in {"gateKv", "gateSlot"} => ~d.fellThrough
    /\ pc[r] \in {"gateKv", "gateSlot"} \cup Scoring =>
         (d.ties = {} => d.minScore = Infinity)
    /\ pc[r] \in {"gateKv", "gateSlot"} => d.ties = {}
    /\ pc[r] \in Scoring => Healthy[d.at] \in Pool(d)
    /\ d.ties \subseteq Pool(d)
    /\ pc[r] = "pick" /\ PenaltyIsFinite => d.ties # {}
    /\ d.fellThrough => d.eligible = {}
    /\ d.eligible \subseteq AllHealthy

RequestOK(r) == PhaseOK(r) /\ RecordOK(r) /\ DecisionOK(r)

\* The requests that a worker may still be adding to the slots of b.
Pending(b) ==
    {r \in Requests :
        \/ pc[r] \in Picking /\ b \in decision[r].eligible
        \/ /\ pc[r] = "opening" /\ ~decision[r].fellThrough
           /\ lease[r].backend = b /\ ~lease[r].slot}

\* The strengthening of SlotOvershoot: whoever passed the gate and has not
\* added its slot yet is counted already.
SlotBound ==
    \A b \in Backends :
        inflight[b] + Cardinality(Pending(b)) =<
            MaxSeqs[b] + (Workers - 1) + Cardinality(FellThroughOn(b))

PathIInv ==
    /\ RecordsOK
    /\ PathTypes
    /\ \A r \in Requests : RequestOK(r)
    /\ Cardinality(Busy) =< Workers
    /\ SlotBound

-----------------------------------------------------------------------------
(***************************************************************************)
(* Operators.                                                              *)
(***************************************************************************)

LEMMA HealthyType ==
    /\ Len(Healthy) \in Nat /\ Len(Healthy) > 0
    /\ \A i \in 1 .. Len(Healthy) : Healthy[i] \in Backends
    /\ AllHealthy \subseteq Backends /\ AllHealthy # {}
<1>1. Healthy \in Seq(Backends) /\ Healthy # << >>
    BY PathAssumption
<1>2. Len(Healthy) \in Nat /\ Len(Healthy) > 0
    BY <1>1
<1>3. \A i \in 1 .. Len(Healthy) : Healthy[i] \in Backends
    BY <1>1
<1>4. 1 \in 1 .. Len(Healthy)
    BY <1>2
<1> QED
    BY <1>2, <1>3, <1>4 DEF AllHealthy

LEMMA PoolType ==
    ASSUME NEW d \in Decisions
    PROVE  Pool(d) \subseteq AllHealthy \cup d.eligible /\ Pool(d) \subseteq Backends
    BY HealthyType DEF Pool, Decisions

\* A set of positions that is not empty has a first one.
LEMMA FirstPosition ==
    ASSUME NEW S \in SUBSET Nat, S # {}
    PROVE  \E j \in S : \A k \in S : j =< k
<1>1. PICK j \in S : \A k \in S : ~(<<k, j>> \in OpToRel(<, Nat))
    BY NatLessThanWellFounded, WFMin
<1>2. \A k \in S : ~(k < j)
    BY <1>1 DEF OpToRel
<1> QED
    BY <1>2

\* The loop goes on at a backend of the pool, or ends when there is none left.
LEMMA ScoreFromResult ==
    ASSUME NEW d, NEW i \in Nat \ {0}
    PROVE  LET next == ScoreFrom(d, i) IN
           /\ next.at \in 1 .. Len(Healthy)
           /\ next.pc \in {"pick", "scoreSlot"}
           /\ next.pc = "scoreSlot" => Healthy[next.at] \in Pool(d)
           /\ next.pc = "pick" => Remaining(d, i) = {}
<1>1. CASE Remaining(d, i) = {}
    BY <1>1, HealthyType DEF ScoreFrom
<1>2. CASE Remaining(d, i) # {}
    <2> DEFINE j == CHOOSE j \in Remaining(d, i) :
                        \A k \in Remaining(d, i) : j =< k
    <2>1. Remaining(d, i) \in SUBSET Nat
        BY HealthyType DEF Remaining
    <2>2. j \in Remaining(d, i)
        BY <1>2, <2>1, FirstPosition
    <2>3. j \in 1 .. Len(Healthy) /\ Healthy[j] \in Pool(d)
        BY <2>2, HealthyType DEF Remaining
    <2> QED
        BY <1>2, <2>3 DEF ScoreFrom
<1> QED
    BY <1>1, <1>2

LEMMA OccupancyType ==
    ASSUME NEW b \in Backends, NEW n \in Int, NEW kv \in Int
    PROVE  Occupancy(b, n, kv) \in Int \X (Nat \ {0})
<1>1. MaxSeqs[b] \in Nat \ {0} /\ KvCapacity[b] \in Nat \ {0}
    BY PathAssumption
<1> QED
    BY <1>1 DEF Occupancy

LEMMA ProductPositive ==
    ASSUME NEW m \in Nat \ {0}, NEW n \in Nat \ {0}
    PROVE  m * n \in Nat \ {0}
    OBVIOUS

\* A score is a fraction, and less than infinity if the penalty is a number.
LEMMA PressureScoreType ==
    ASSUME NEW u \in Int \X (Nat \ {0})
    PROVE  /\ PressureScore(u) \in Scores
           /\ PenaltyIsFinite => /\ PressureScore(u)[2] \in Nat \ {0}
                                 /\ Less(PressureScore(u), Infinity)
<1>1. /\ Theta[1] \in Nat /\ Theta[2] \in Nat /\ Theta[2] - Theta[1] \in Nat \ {0}
      /\ Penalty[1] \in Int /\ Penalty[2] \in Nat
      /\ u[1] \in Int /\ u[2] \in Nat \ {0}
    BY PathAssumption
<1> DEFINE over == u[1] * Theta[2] - Theta[1] * u[2]
           scale == u[2] * (Theta[2] - Theta[1])
           top == (u[1] * (Theta[2] - Theta[1])) * (scale * Penalty[2])
                    + Penalty[1] * (over * over)
           bottom == (scale * scale) * Penalty[2]
<1>2. over \in Int /\ scale \in Nat \ {0} /\ u[1] * (Theta[2] - Theta[1]) \in Int
    BY <1>1, ProductPositive
<1>3. PressureScore(u) = IF Less(u, Theta) THEN u ELSE <<top, bottom>>
    BY Zenon DEF PressureScore
<1>4. top \in Int
    <2> DEFINE a == u[1] * (Theta[2] - Theta[1])
    <2>1. a \in Int
        BY <1>2
    <2> HIDE DEF over, scale, a
    <2>2. scale * Penalty[2] \in Int /\ over * over \in Int
        BY <1>1, <1>2
    <2>3. a * (scale * Penalty[2]) \in Int /\ Penalty[1] * (over * over) \in Int
        BY <1>1, <2>1, <2>2
    <2> QED
        BY <2>3 DEF a
<1>5. bottom \in Nat /\ (PenaltyIsFinite => bottom \in Nat \ {0})
    <2> HIDE DEF scale
    <2>1. scale * scale \in Nat \ {0}
        BY <1>2, ProductPositive
    <2>2. (scale * scale) * Penalty[2] \in Nat
        BY <1>1, <2>1
    <2>3. PenaltyIsFinite => Penalty[2] \in Nat \ {0}
        BY <1>1 DEF PenaltyIsFinite
    <2> QED
        BY <2>1, <2>2, <2>3, ProductPositive
<1> HIDE DEF top, bottom
<1>6. /\ PressureScore(u) \in Scores
      /\ PenaltyIsFinite => PressureScore(u)[2] \in Nat \ {0}
    BY <1>3, <1>4, <1>5, <1>1 DEF Scores
<1>7. ASSUME NEW x \in Scores, x[2] \in Nat \ {0}
      PROVE  Less(x, Infinity)
    <2>1. x[1] \in Int /\ x[1] * 0 = 0 /\ 1 * x[2] = x[2]
        BY <1>7 DEF Scores
    <2> QED
        BY <1>7, <2>1 DEF Less, Infinity
<1> QED
    BY <1>6, <1>7

-----------------------------------------------------------------------------
(***************************************************************************)
(* The steps.                                                              *)
(***************************************************************************)

\* A step of the request path is a step of the lease module, or none.
LEMMA StepLease ==
    ASSUME PathTypes, NEW r \in Requests, RequestOK(r), PathStep(r)
    PROVE  LeaseStep(r) \/ UNCHANGED leaseVars
<1>1. CASE Pick(r)
    <2>1. PICK b \in decision[r].ties :
            BeginOpen(r, b, decision[r].prompt, decision[r].est)
        BY <1>1 DEF Pick
    <2>2. decision[r] \in Decisions
        BY DEF PathTypes
    <2>3. b \in Backends
        BY <2>2 DEF Decisions
    <2>4. decision[r].prompt \in Prompts /\ decision[r].est \in Estimates
        BY <1>1 DEF Pick, RequestOK, DecisionOK, Picking
    <2> QED
        BY <2>1, <2>3, <2>4 DEF LeaseStep
<1>2. CASE Content(r)
    BY <1>2, PathAssumption DEF Content, LeaseStep
<1>3. CASE BuildFails(r) \/ DispatchFails(r) \/ EndBody(r) \/ ClientLeaves(r)
    BY <1>3 DEF BuildFails, DispatchFails, EndBody, ClientLeaves, LeaseStep
<1>4. CASE Open(r) \/ Release(r)
    BY <1>4 DEF Open, Release, LeaseStep
<1>5. ASSUME NEW p, NEW o, Decide(r, p, o)
      PROVE  UNCHANGED leaseVars
    BY <1>5 DEF Decide, leaseVars
<1>6. CASE \/ GateKv(r) \/ GateSlot(r) \/ ScoreSlot(r) \/ ScoreKv(r)
           \/ Refuse(r) \/ StartDispatch(r) \/ Finish(r)
    BY <1>6 DEF GateKv, GateSlot, ScoreSlot, ScoreKv, Refuse, StartDispatch,
                Finish, leaseVars
<1>7. CASE Accept(r) \/ RejectBody(r) \/ Respond(r) \/ Reuse(r)
    BY <1>7 DEF Accept, RejectBody, Respond, Reuse, leaseVars
<1> QED
    BY <1>1, <1>2, <1>3, <1>4, <1>5, <1>6, <1>7
    DEF PathStep, Compute, EndReading, EndConnecting

LEMMA StepRecordsOK ==
    ASSUME RecordsOK, PathTypes, NEW r \in Requests, RequestOK(r), PathStep(r)
    PROVE  /\ RecordsOK'
           /\ \A x \in Requests \ {r} : lease'[x] = lease[x]
<1>1. CASE LeaseStep(r)
    BY <1>1, StepRecords, OthersKept DEF Requests
<1>2. CASE UNCHANGED leaseVars
    BY <1>2 DEF leaseVars, RecordsOK
<1> QED
    BY <1>1, <1>2, StepLease

\* What holds after a step that ends at place with decision d.
LEMMA UpdatePath ==
    ASSUME PathTypes, NEW r \in Requests,
           NEW place \in Places, GoTo(r, place),
           NEW d \in Decisions, decision' = [decision EXCEPT ![r] = d],
           UNCHANGED <<recorded, left>>
    PROVE  /\ PathTypes'
           /\ pc'[r] = place /\ decision'[r] = d
           /\ recorded'[r] = recorded[r] /\ left'[r] = left[r]
    BY DEF PathTypes, GoTo

LEMMA NoDecisionType == NoDecision \in Decisions
    BY HealthyType DEF NoDecision, Decisions, Infinity, Scores

\* The steps of pick, on the request's own part of the state.
LEMMA StepDecide ==
    ASSUME PathTypes, NEW r \in Requests, RequestOK(r),
           NEW p \in Prompts, NEW o \in Estimates, Decide(r, p, o)
    PROVE  PathTypes' /\ RequestOK(r)'
<1> DEFINE d == [NoDecision EXCEPT !.prompt = p, !.est = o]
<1>1. d \in Decisions
    BY NoDecisionType, LeaseAssumption DEF Decisions
<1>2. /\ d.prompt = p /\ d.est = o /\ ~d.fellThrough /\ d.ties = {}
      /\ d.minScore = Infinity /\ d.eligible = {}
    BY DEF NoDecision
<1>3. /\ pc[r] = "reading" /\ GoTo(r, "gateKv")
      /\ decision' = [decision EXCEPT ![r] = d]
      /\ UNCHANGED <<lease, recorded, left>>
    BY DEF Decide
<1> HIDE DEF d
<1>4. /\ PathTypes'
      /\ pc'[r] = "gateKv" /\ decision'[r] = d
      /\ recorded'[r] = recorded[r] /\ left'[r] = left[r]
    BY <1>1, <1>3, UpdatePath DEF Places, OnWorker
<1> QED
    BY <1>2, <1>3, <1>4
    DEF RequestOK, PhaseOK, RecordOK, DecisionOK, Picking, Scoring, Ending

LEMMA StepGateKv ==
    ASSUME PathTypes, NEW r \in Requests, RequestOK(r), GateKv(r)
    PROVE  PathTypes' /\ RequestOK(r)'
<1> DEFINE e == decision[r]
           d == [e EXCEPT !.kvOk = KvOk(Healthy[e.at], Need(e))]
<1>1. e \in Decisions
    BY DEF PathTypes
<1>2. d \in Decisions
    <2>1. KvOk(Healthy[e.at], Need(e)) \in BOOLEAN
        BY DEF KvOk
    <2> QED
        BY <1>1, <2>1 DEF Decisions
<1>3. /\ d.prompt = e.prompt /\ d.est = e.est /\ d.ties = e.ties
      /\ d.fellThrough = e.fellThrough /\ d.eligible = e.eligible
      /\ d.minScore = e.minScore
    BY <1>1 DEF Decisions
<1>4. /\ pc[r] = "gateKv" /\ GoTo(r, "gateSlot")
      /\ decision' = [decision EXCEPT ![r] = d]
      /\ UNCHANGED <<lease, recorded, left>>
    BY DEF GateKv
<1> HIDE DEF d
<1>5. /\ PathTypes'
      /\ pc'[r] = "gateSlot" /\ decision'[r] = d
      /\ recorded'[r] = recorded[r] /\ left'[r] = left[r]
    BY <1>2, <1>4, UpdatePath DEF Places, OnWorker
<1> QED
    BY <1>3, <1>4, <1>5
    DEF RequestOK, PhaseOK, RecordOK, DecisionOK, Picking, Scoring, Ending, Pool

LEMMA StepGateSlot ==
    ASSUME PathTypes, NEW r \in Requests, RequestOK(r), GateSlot(r)
    PROVE  PathTypes' /\ RequestOK(r)'
<1> DEFINE e == decision[r]
           b == Healthy[e.at]
           el == IF e.kvOk /\ SlotOk(b) THEN e.eligible \cup {b} ELSE e.eligible
           gated == [e EXCEPT !.eligible = el, !.kvOk = FALSE,
                              !.fellThrough = el = {}]
           next == ScoreFrom(gated, 1)
           onward == [e EXCEPT !.eligible = el, !.kvOk = FALSE, !.at = @ + 1]
           last == [gated EXCEPT !.at = next.at]
<1>1. e \in Decisions /\ b \in Backends /\ el \in SUBSET Backends
    BY HealthyType DEF PathTypes, Decisions
<1>2. /\ pc[r] = "gateSlot" /\ ~e.fellThrough /\ e.ties = {}
      /\ e.minScore = Infinity /\ e.prompt \in Prompts /\ e.est \in Estimates
      /\ lease[r].phase = "free" /\ ~left[r] /\ recorded[r] = 0
    BY DEF GateSlot, RequestOK, PhaseOK, RecordOK, DecisionOK, Picking
<1>5. el \subseteq AllHealthy
    <2>1. b \in AllHealthy
        BY <1>1 DEF AllHealthy, Decisions
    <2> QED
        BY <2>1 DEF RequestOK, DecisionOK
<1>3. CASE e.at < Len(Healthy)
    <2>1. GoTo(r, "gateKv") /\ decision' = [decision EXCEPT ![r] = onward]
          /\ UNCHANGED <<lease, recorded, left>>
        BY <1>3 DEF GateSlot
    <2> HIDE DEF el
    <2>2. onward \in Decisions
        <3>1. e.at + 1 \in 1 .. Len(Healthy)
            BY <1>1, <1>3, HealthyType DEF Decisions
        <3> QED
            BY <1>1, <3>1 DEF Decisions
    <2>3. /\ onward.prompt = e.prompt /\ onward.est = e.est
          /\ onward.ties = e.ties /\ onward.minScore = e.minScore
          /\ onward.fellThrough = e.fellThrough /\ onward.eligible = el
        BY <1>1 DEF Decisions
    <2> HIDE DEF onward
    <2>4. /\ PathTypes'
          /\ pc'[r] = "gateKv" /\ decision'[r] = onward
          /\ recorded'[r] = recorded[r] /\ left'[r] = left[r]
        BY <2>1, <2>2, UpdatePath DEF Places, OnWorker
    <2> QED
        BY <1>2, <1>5, <2>1, <2>3, <2>4
        DEF RequestOK, PhaseOK, RecordOK, DecisionOK, Picking, Scoring, Ending
<1>4. CASE ~(e.at < Len(Healthy))
    <2>1. GoTo(r, next.pc) /\ decision' = [decision EXCEPT ![r] = last]
          /\ UNCHANGED <<lease, recorded, left>>
        BY <1>4 DEF GateSlot
    <2> HIDE DEF el
    <2>2. /\ gated \in Decisions /\ gated.eligible = el
          /\ gated.fellThrough = (el = {})
          /\ gated.prompt = e.prompt /\ gated.est = e.est
          /\ gated.ties = e.ties /\ gated.minScore = e.minScore
        BY <1>1 DEF Decisions
    <2> HIDE DEF gated
    <2>3. /\ next.at \in 1 .. Len(Healthy)
          /\ next.pc \in {"pick", "scoreSlot"}
          /\ next.pc = "scoreSlot" => Healthy[next.at] \in Pool(gated)
          /\ next.pc = "pick" => Remaining(gated, 1) = {}
        BY ScoreFromResult
    <2>4. Remaining(gated, 1) # {}
        <3>1. Pool(gated) # {} /\ Pool(gated) \subseteq AllHealthy
            BY <1>5, <2>2, HealthyType DEF Pool
        <3> QED
            BY <3>1 DEF Remaining, AllHealthy
    <2>5. next.pc = "scoreSlot"
        BY <2>3, <2>4
    <2> HIDE DEF next
    <2>6. /\ last \in Decisions /\ last.at = next.at
          /\ last.eligible = el /\ last.fellThrough = (el = {})
          /\ last.prompt = e.prompt /\ last.est = e.est
          /\ last.ties = e.ties /\ last.minScore = e.minScore
        BY <2>2, <2>3 DEF Decisions
    <2>7. Pool(last) = Pool(gated)
        BY <2>2, <2>6 DEF Pool
    <2> HIDE DEF last
    <2>8. /\ PathTypes'
          /\ pc'[r] = "scoreSlot" /\ decision'[r] = last
          /\ recorded'[r] = recorded[r] /\ left'[r] = left[r]
        BY <2>1, <2>5, <2>6, UpdatePath DEF Places, OnWorker
    <2> QED
        BY <1>2, <1>5, <2>1, <2>3, <2>5, <2>6, <2>7, <2>8
        DEF RequestOK, PhaseOK, RecordOK, DecisionOK, Picking, Scoring, Ending
<1> QED
    BY <1>3, <1>4

LEMMA StepScoreSlot ==
    ASSUME RecordsOK, PathTypes, NEW r \in Requests, RequestOK(r), ScoreSlot(r)
    PROVE  PathTypes' /\ RequestOK(r)'
<1> DEFINE e == decision[r]
           d == [e EXCEPT !.n = inflight[Healthy[e.at]]]
<1>1. e \in Decisions
    BY DEF PathTypes
<1>2. d \in Decisions
    <2>1. inflight[Healthy[e.at]] \in Int
        BY <1>1, HealthyType DEF RecordsOK, Decisions
    <2> QED
        BY <1>1, <2>1 DEF Decisions
<1>3. /\ d.prompt = e.prompt /\ d.est = e.est /\ d.ties = e.ties
      /\ d.fellThrough = e.fellThrough /\ d.eligible = e.eligible
      /\ d.minScore = e.minScore /\ d.at = e.at
    BY <1>1 DEF Decisions
<1>4. /\ pc[r] = "scoreSlot" /\ GoTo(r, "scoreKv")
      /\ decision' = [decision EXCEPT ![r] = d]
      /\ UNCHANGED <<lease, recorded, left>>
    BY DEF ScoreSlot
<1> HIDE DEF d
<1>5. /\ PathTypes'
      /\ pc'[r] = "scoreKv" /\ decision'[r] = d
      /\ recorded'[r] = recorded[r] /\ left'[r] = left[r]
    BY <1>2, <1>4, UpdatePath DEF Places, OnWorker
<1> QED
    BY <1>3, <1>4, <1>5
    DEF RequestOK, PhaseOK, RecordOK, DecisionOK, Picking, Scoring, Ending, Pool

\* Once a backend is scored below infinity there is a tie.
LEMMA ScoredResult ==
    ASSUME NEW d \in Decisions, NEW b \in Backends, NEW u \in Scores,
           d.ties = {} => d.minScore = Infinity
    PROVE  /\ Scored(d, b, u) \in Decisions
           /\ Less(u, Infinity) => Scored(d, b, u).ties # {}
           /\ Scored(d, b, u).ties = {} => Scored(d, b, u).minScore = Infinity
           /\ Scored(d, b, u).ties \subseteq d.ties \cup {b}
           /\ Scored(d, b, u).prompt = d.prompt
           /\ Scored(d, b, u).est = d.est
           /\ Scored(d, b, u).fellThrough = d.fellThrough
           /\ Scored(d, b, u).eligible = d.eligible
<1>1. CASE Less(u, d.minScore)
    BY <1>1 DEF Scored, Decisions
<1>2. CASE ~Less(u, d.minScore) /\ Same(u, d.minScore)
    BY <1>2 DEF Scored, Decisions
<1>3. CASE ~Less(u, d.minScore) /\ ~Same(u, d.minScore)
    BY <1>3 DEF Scored, Decisions
<1> QED
    BY <1>1, <1>2, <1>3

LEMMA StepScoreKv ==
    ASSUME RecordsOK, PathTypes, NEW r \in Requests, RequestOK(r), ScoreKv(r)
    PROVE  PathTypes' /\ RequestOK(r)'
<1> DEFINE e == decision[r]
           b == Healthy[e.at]
           o == Occupancy(b, e.n, kvProjected[b])
           u == PressureScore(o)
           s == Scored(e, b, u)
           next == ScoreFrom(e, e.at + 1)
           m == IF next.pc = "pick" THEN Infinity ELSE s.minScore
           d == [s EXCEPT !.at = next.at, !.n = 0, !.minScore = m]
<1>1. e \in Decisions /\ b \in Backends /\ e.n \in Int /\ kvProjected[b] \in Int
    BY HealthyType DEF PathTypes, Decisions, RecordsOK
<1>2. /\ pc[r] = "scoreKv"
      /\ e.ties = {} => e.minScore = Infinity
      /\ b \in Pool(e) /\ e.ties \subseteq Pool(e)
      /\ e.prompt \in Prompts /\ e.est \in Estimates
      /\ e.fellThrough => e.eligible = {}
      /\ e.eligible \subseteq AllHealthy
      /\ lease[r].phase = "free" /\ ~left[r] /\ recorded[r] = 0
    BY DEF ScoreKv, RequestOK, PhaseOK, RecordOK, DecisionOK, Picking, Scoring
<1>3. /\ GoTo(r, next.pc) /\ decision' = [decision EXCEPT ![r] = d]
      /\ UNCHANGED <<lease, recorded, left>>
    BY DEF ScoreKv
<1>4. u \in Scores /\ (PenaltyIsFinite => Less(u, Infinity))
    <2>1. o \in Int \X (Nat \ {0})
        BY <1>1, OccupancyType
    <2> HIDE DEF o
    <2> QED
        BY <2>1, PressureScoreType
<1> HIDE DEF u
<1>5. /\ s \in Decisions /\ s.ties \subseteq e.ties \cup {b}
      /\ PenaltyIsFinite => s.ties # {}
      /\ s.ties = {} => s.minScore = Infinity
      /\ s.prompt = e.prompt /\ s.est = e.est
      /\ s.fellThrough = e.fellThrough /\ s.eligible = e.eligible
    <2>1. s = Scored(e, b, u)
        OBVIOUS
    <2> HIDE DEF s, e, b
    <2> QED
        BY <1>1, <1>2, <1>4, <2>1, ScoredResult
<1> HIDE DEF s
<1>6. /\ next.at \in 1 .. Len(Healthy)
      /\ next.pc \in {"pick", "scoreSlot"}
      /\ next.pc = "scoreSlot" => Healthy[next.at] \in Pool(e)
    <2>1. e.at + 1 \in Nat \ {0}
        BY <1>1, HealthyType DEF Decisions
    <2> QED
        BY <2>1, ScoreFromResult
<1> HIDE DEF next
<1>7. m \in Scores /\ (s.ties = {} => m = Infinity)
    BY <1>5 DEF Decisions, Infinity, Scores
<1> HIDE DEF m
<1> DEFINE at == next.at
           zero == 0
<1>8. /\ d \in Decisions /\ d.ties = s.ties /\ d.at = at /\ d.minScore = m
      /\ d.prompt = e.prompt /\ d.est = e.est
      /\ d.fellThrough = e.fellThrough /\ d.eligible = e.eligible
    <2>1. s \in Decisions /\ at \in 1 .. Len(Healthy) /\ zero \in Int /\ m \in Scores
        BY <1>5, <1>6, <1>7
    <2>2. d = [s EXCEPT !.at = at, !.n = zero, !.minScore = m]
        OBVIOUS
    <2> HIDE DEF at, zero, d, e
    <2>3. /\ d \in Decisions /\ d.ties = s.ties /\ d.at = at /\ d.minScore = m
          /\ d.prompt = s.prompt /\ d.est = s.est
          /\ d.fellThrough = s.fellThrough /\ d.eligible = s.eligible
        BY <2>1, <2>2, <1>5 DEF Decisions
    <2> QED
        BY <1>5, <2>3
<1>9. Pool(d) = Pool(e)
    BY <1>8 DEF Pool
<1> HIDE DEF d
<1>10. /\ PathTypes'
       /\ pc'[r] = next.pc /\ decision'[r] = d
       /\ recorded'[r] = recorded[r] /\ left'[r] = left[r]
    BY <1>3, <1>6, <1>8, UpdatePath DEF Places, OnWorker
<1> QED
    BY <1>2, <1>3, <1>5, <1>6, <1>7, <1>8, <1>9, <1>10
    DEF RequestOK, PhaseOK, RecordOK, DecisionOK, Picking, Scoring, Ending

LEMMA StepPick ==
    ASSUME RecordsOK, PathTypes, NEW r \in Requests, RequestOK(r), Pick(r)
    PROVE  PathTypes' /\ RequestOK(r)'
<1> DEFINE d == [NoDecision EXCEPT !.fellThrough = decision[r].fellThrough]
<1>1. d \in Decisions /\ d.ties = {} /\ d.eligible = {}
    BY NoDecisionType DEF PathTypes, Decisions, NoDecision
<1>2. /\ pc[r] = "pick" /\ GoTo(r, "opening")
      /\ decision' = [decision EXCEPT ![r] = d]
      /\ UNCHANGED <<recorded, left>>
    BY DEF Pick
<1>3. lease'[r].phase = "opening"
    BY DEF Pick, BeginOpen, NewLease, RecordsOK, Requests
<1> HIDE DEF d
<1>4. /\ PathTypes'
      /\ pc'[r] = "opening" /\ decision'[r] = d
      /\ recorded'[r] = recorded[r] /\ left'[r] = left[r]
    BY <1>1, <1>2, UpdatePath DEF Places, OnWorker
<1> QED
    BY <1>1, <1>2, <1>3, <1>4
    DEF RequestOK, PhaseOK, RecordOK, DecisionOK, Picking, Scoring, Ending

\* The steps that leave the decision alone.
LEMMA StepServe ==
    ASSUME RecordsOK, PathTypes, NEW r \in Requests, RequestOK(r),
           \/ Open(r) \/ Accept(r) \/ RejectBody(r) \/ StartDispatch(r)
           \/ BuildFails(r) \/ DispatchFails(r) \/ Respond(r) \/ Content(r)
           \/ EndBody(r) \/ ClientLeaves(r) \/ Release(r) \/ Reuse(r)
    PROVE  PathTypes' /\ RequestOK(r)'
<1>1. lease[r] \in LeaseRecord /\ lease \in [Requests -> LeaseRecord]
    BY DEF RecordsOK, Requests
<1>2. UNCHANGED decision
    BY DEF Open, Accept, RejectBody, StartDispatch, BuildFails, DispatchFails,
           Respond, Content, EndBody, ClientLeaves, Release, Reuse
<1>3. PathTypes'
    <2>1. pc' \in [Requests -> Places]
        BY DEF PathTypes, Places, OnWorker, Awaiting, GoTo,
           Open, Accept, RejectBody, StartDispatch, BuildFails, DispatchFails,
           Respond, Content, EndBody, ClientLeaves, Release, Reuse
    <2>2. recorded' \in [Requests -> Nat]
        BY DEF PathTypes,
           Open, Accept, RejectBody, StartDispatch, BuildFails, DispatchFails,
           Respond, Content, EndBody, ClientLeaves, Release, Reuse
    <2>3. left' \in [Requests -> BOOLEAN]
        BY DEF PathTypes,
           Open, Accept, RejectBody, StartDispatch, BuildFails, DispatchFails,
           Respond, Content, EndBody, ClientLeaves, Release, Reuse
    <2> QED
        BY <1>2, <2>1, <2>2, <2>3 DEF PathTypes
<1>4. pc'[r] \notin Picking
    BY DEF PathTypes, GoTo, Picking,
           Open, Accept, RejectBody, StartDispatch, BuildFails, DispatchFails,
           Respond, Content, EndBody, ClientLeaves, Release, Reuse
<1>5. DecisionOK(r)'
    BY <1>2, <1>4 DEF RequestOK, DecisionOK, Picking, Scoring, Pool
<1>6. RecordOK(r)'
    BY DEF RequestOK, RecordOK, PathTypes, GoTo,
           Open, Accept, RejectBody, StartDispatch, BuildFails, DispatchFails,
           Respond, Content, EndBody, ClientLeaves, Release, Reuse
<1>7. PhaseOK(r)'
    <2>1. CASE Open(r)
        <3>1. lease'[r].phase \in {"opening", "open"}
            <4> DEFINE more == IF lease[r].kv THEN "open" ELSE "opening"
                       less == IF lease[r].slot THEN "open" ELSE "opening"
            <4>1. more \in {"opening", "open"} /\ less \in {"opening", "open"}
                OBVIOUS
            <4>2. \/ lease'[r] = [lease[r] EXCEPT !.slot = TRUE, !.phase = more]
                  \/ lease'[r] = [lease[r] EXCEPT !.kv = TRUE, !.phase = less]
                BY <1>1, <2>1 DEF Open, OpenAddInflight, OpenAddKv
            <4>3. "phase" \in DOMAIN lease[r]
                BY <1>1 DEF LeaseRecord
            <4> HIDE DEF more, less
            <4>4. lease'[r].phase = more \/ lease'[r].phase = less
                BY <4>2, <4>3
            <4> QED
                BY <4>1, <4>4
        <3>2. pc'[r] = IF lease'[r].phase = "open" THEN "build" ELSE "opening"
            BY <2>1 DEF Open, GoTo, PathTypes
        <3> QED
            BY <3>1, <3>2 DEF PhaseOK, Picking, Ending
    <2>2. CASE BuildFails(r) \/ DispatchFails(r) \/ EndBody(r) \/ ClientLeaves(r)
        BY <1>1, <2>2 DEF RequestOK, PhaseOK, PathTypes, GoTo, Picking, Ending,
            BuildFails, DispatchFails, EndBody, ClientLeaves, BeginRelease,
            leaseVars, LeaseRecord
    <2>3. CASE Release(r)
        <3>1. lease'[r].phase \in {"releasing", "free"}
            <4>1. CASE ReleaseSubInflight(r)
                BY <1>1, <4>1 DEF ReleaseSubInflight, NoLease, LeaseRecord
            <4>2. CASE ReleaseSubKv(r)
                BY <1>1, <4>2 DEF ReleaseSubKv, NoLease, LeaseRecord
            <4> QED
                BY <2>3, <4>1, <4>2 DEF Release
        <3>2. pc'[r] = pc[r] /\ pc[r] \in Ending
            BY <2>3 DEF Release, Ending
        <3> QED
            BY <3>1, <3>2 DEF PhaseOK, Picking, Ending
    <2>4. CASE Content(r)
        BY <1>1, <2>4 DEF RequestOK, PhaseOK, PathTypes, GoTo, Picking, Ending,
            Content, ObserveTokens, Observed, LeaseRecord
    <2>5. CASE Accept(r) \/ RejectBody(r) \/ StartDispatch(r) \/ Respond(r) \/ Reuse(r)
        BY <2>5 DEF RequestOK, PhaseOK, PathTypes, GoTo, Picking, Ending,
            Accept, RejectBody, StartDispatch, Respond, Reuse
    <2> QED
        BY <2>1, <2>2, <2>3, <2>4, <2>5
<1> QED
    BY <1>3, <1>5, <1>6, <1>7 DEF RequestOK

LEMMA StepFinish ==
    ASSUME PathTypes, NEW r \in Requests, RequestOK(r), Finish(r)
    PROVE  PathTypes' /\ RequestOK(r)'
<1>1. PathTypes'
    BY NoDecisionType DEF PathTypes, Places, Awaiting, GoTo, Finish
<1>2. /\ pc'[r] = "finished" /\ decision'[r] = NoDecision
      /\ UNCHANGED <<lease, left>> /\ lease[r].phase = "free"
      /\ recorded'[r] = IF pc[r] = "failing" THEN recorded[r] + 1 ELSE recorded[r]
    BY DEF PathTypes, GoTo, Finish
<1>3. RecordOK(r)' /\ PhaseOK(r)'
    BY <1>2 DEF RequestOK, RecordOK, PhaseOK, Finish, Picking, Ending
<1>4. DecisionOK(r)'
    BY <1>2 DEF DecisionOK, Picking, Scoring, NoDecision, Pool
<1> QED
    BY <1>1, <1>3, <1>4 DEF RequestOK

LEMMA StepRefuse ==
    ASSUME PathTypes, NEW r \in Requests, RequestOK(r), Refuse(r)
    PROVE  PathTypes' /\ RequestOK(r)'
<1>1. /\ pc[r] = "pick" /\ recorded[r] = 0 /\ ~left[r] /\ lease[r].phase = "free"
    BY DEF Refuse, RequestOK, RecordOK, PhaseOK, Picking
<1>2. PathTypes'
    BY <1>1, NoDecisionType DEF PathTypes, Places, Awaiting, GoTo, Refuse
<1>3. /\ pc'[r] = "finished" /\ decision'[r] = NoDecision
      /\ UNCHANGED <<lease, left>> /\ recorded'[r] = 1
    BY <1>1 DEF PathTypes, GoTo, Refuse
<1>4. RecordOK(r)' /\ PhaseOK(r)'
    BY <1>1, <1>3 DEF RecordOK, PhaseOK, Picking, Ending
<1>5. DecisionOK(r)'
    BY <1>3 DEF DecisionOK, Picking, Scoring, NoDecision, Pool
<1> QED
    BY <1>2, <1>4, <1>5 DEF RequestOK

LEMMA StepRequest ==
    ASSUME RecordsOK, PathTypes, NEW r \in Requests, RequestOK(r), PathStep(r)
    PROVE  PathTypes' /\ RequestOK(r)'
    BY StepDecide, StepGateKv, StepGateSlot, StepScoreSlot, StepScoreKv,
       StepPick, StepRefuse, StepServe, StepFinish
    DEF PathStep, Compute, EndReading, EndConnecting

\* A step of request r leaves the other requests alone.
LEMMA OtherRequests ==
    ASSUME RecordsOK, PathTypes, NEW r \in Requests, RequestOK(r), PathStep(r),
           NEW x \in Requests \ {r}
    PROVE  /\ pc'[x] = pc[x] /\ decision'[x] = decision[x]
           /\ recorded'[x] = recorded[x] /\ left'[x] = left[x]
           /\ lease'[x] = lease[x]
<1>1. pc'[x] = pc[x]
    BY DEF PathTypes, GoTo, PathStep, Compute, EndReading, EndConnecting, Decide,
        GateKv, GateSlot, ScoreSlot, ScoreKv, Pick, Refuse, Open, Accept,
        RejectBody, StartDispatch, BuildFails, DispatchFails, Respond, Content, EndBody,
        ClientLeaves, Release, Finish, Reuse
<1>2. decision'[x] = decision[x]
    BY DEF PathTypes, PathStep, Compute, EndReading, EndConnecting, Decide,
        GateKv, GateSlot, ScoreSlot, ScoreKv, Pick, Refuse, Open, Accept,
        RejectBody, StartDispatch, BuildFails, DispatchFails, Respond, Content, EndBody,
        ClientLeaves, Release, Finish, Reuse
<1>3. recorded'[x] = recorded[x] /\ left'[x] = left[x]
    BY DEF PathTypes, PathStep, Compute, EndReading, EndConnecting, Decide,
        GateKv, GateSlot, ScoreSlot, ScoreKv, Pick, Refuse, Open, Accept,
        RejectBody, StartDispatch, BuildFails, DispatchFails, Respond, Content, EndBody,
        ClientLeaves, Release, Finish, Reuse
<1> QED
    BY <1>1, <1>2, <1>3, StepRecordsOK

LEMMA OthersOK ==
    ASSUME RecordsOK, PathTypes, NEW r \in Requests, RequestOK(r), PathStep(r),
           NEW x \in Requests \ {r}, RequestOK(x)
    PROVE  RequestOK(x)'
    BY OtherRequests
    DEF RequestOK, PhaseOK, RecordOK, DecisionOK, Pool

-----------------------------------------------------------------------------
(***************************************************************************)
(* Counting.                                                               *)
(***************************************************************************)

\* Two sets of requests that differ at most in r.
LEMMA CountOne ==
    ASSUME NEW S \in SUBSET Requests, NEW T \in SUBSET Requests,
           NEW r \in Requests, \A x \in Requests \ {r} : x \in T <=> x \in S
    PROVE  /\ Cardinality(S) \in Nat /\ Cardinality(T) \in Nat
           /\ Cardinality(T) + (IF r \in S THEN 1 ELSE 0)
                = Cardinality(S) + (IF r \in T THEN 1 ELSE 0)
<1>1. IsFiniteSet(S) /\ IsFiniteSet(T)
    BY PathAssumption, FS_Subset DEF Requests
<1>2. Cardinality(S) \in Nat /\ Cardinality(T) \in Nat
    BY <1>1, FS_CardinalityType
<1>3. CASE r \in S <=> r \in T
    <2>1. S = T
        BY <1>3
    <2> QED
        BY <1>2, <2>1
<1>4. CASE r \notin S /\ r \in T
    <2>1. T = S \cup {r}
        BY <1>4
    <2> QED
        BY <1>1, <1>2, <1>4, <2>1, FS_AddElement
<1>5. CASE r \in S /\ r \notin T
    <2>1. S = T \cup {r}
        BY <1>5
    <2> QED
        BY <1>1, <1>2, <1>5, <2>1, FS_AddElement
<1> QED
    BY <1>3, <1>4, <1>5

\* No more requests than workers are ever between two awaits.
LEMMA StepBusy ==
    ASSUME RecordsOK, PathTypes, NEW r \in Requests, RequestOK(r), PathStep(r),
           Cardinality(Busy) =< Workers
    PROVE  (Cardinality(Busy) =< Workers)'
<1>1. /\ Cardinality(Busy) \in Nat /\ Cardinality(Busy') \in Nat
      /\ Cardinality(Busy') + (IF r \in Busy THEN 1 ELSE 0)
           = Cardinality(Busy) + (IF r \in Busy' THEN 1 ELSE 0)
    <2>1. Busy \in SUBSET Requests /\ Busy' \in SUBSET Requests
        BY DEF Busy
    <2>2. \A x \in Requests \ {r} : x \in Busy' <=> x \in Busy
        BY OtherRequests DEF Busy
    <2> QED
        BY <2>1, <2>2, CountOne
<1>2. r \in Busy' => r \in Busy \/ WorkerFree
    BY DEF Busy, OnWorker, PathTypes, GoTo, PathStep, Compute, EndReading,
        EndConnecting, Decide, GateKv, GateSlot, ScoreSlot, ScoreKv, Pick,
        Refuse, Open, Accept, RejectBody, StartDispatch, BuildFails, DispatchFails, Respond,
        Content, EndBody, ClientLeaves, Release, Finish, Reuse
<1> QED
    BY <1>1, <1>2, PathAssumption DEF WorkerFree

One(q) == IF q THEN 1 ELSE 0

\* A step of r either finds a free slot on b and adds nothing, or raises the
\* left side of SlotBound by no more than the right side.
SlotDelta(r, b) ==
    \/ inflight'[b] = inflight[b] /\ inflight[b] < MaxSeqs[b]
    \/ inflight'[b] + One(r \in Pending(b)') + One(r \in FellThroughOn(b))
         =< inflight[b] + One(r \in Pending(b)) + One(r \in FellThroughOn(b)')

LEMMA Free ==
    ASSUME RecordsOK, NEW r \in Requests, lease[r].phase = "free"
    PROVE  lease[r].slot = FALSE
    BY DEF RecordsOK, LeaseShape, LeaseRecord, Requests

\* The steps before the pick, which touch no lease.
LEMMA DeltaDecide ==
    ASSUME RecordsOK, PathTypes, NEW r \in Requests, RequestOK(r),
           NEW b \in Backends,
           \/ \E p \in Prompts, o \in Estimates : Decide(r, p, o)
           \/ GateKv(r) \/ GateSlot(r) \/ ScoreSlot(r) \/ ScoreKv(r)
    PROVE  SlotDelta(r, b)
<1>1. UNCHANGED <<inflight, lease>> /\ inflight[b] \in Int
    BY DEF Decide, GateKv, GateSlot, ScoreSlot, ScoreKv, RecordsOK
<1>2. lease[r].slot = FALSE
    <2>1. pc[r] \in Picking \cup {"reading"}
        BY DEF Decide, GateKv, GateSlot, ScoreSlot, ScoreKv, Picking
    <2> QED
        BY <2>1, Free DEF RequestOK, PhaseOK
<1>3. r \notin FellThroughOn(b) /\ r \notin FellThroughOn(b)'
    BY <1>1, <1>2 DEF FellThroughOn
<1>4. decision[r] \in Decisions
    BY DEF PathTypes
<1>5. ASSUME NEW p, NEW o, Decide(r, p, o)
      PROVE  r \notin Pending(b)'
    <2>1. decision'[r].eligible = {} /\ pc'[r] = "gateKv"
        BY <1>5 DEF Decide, PathTypes, NoDecision, GoTo
    <2> QED
        BY <2>1 DEF Pending
<1>6. CASE GateKv(r) \/ ScoreSlot(r)
    <2>1. decision'[r].eligible = decision[r].eligible /\ pc[r] \in Picking
        BY <1>4, <1>6 DEF GateKv, ScoreSlot, PathTypes, Decisions, Picking
    <2>2. pc'[r] # "opening"
        BY <1>6 DEF GateKv, ScoreSlot, PathTypes, GoTo
    <2>3. r \in Pending(b)' => r \in Pending(b)
        BY <2>1, <2>2 DEF Pending
    <2> QED
        BY <1>1, <1>3, <2>3 DEF SlotDelta, One
<1>7. CASE ScoreKv(r)
    <2> DEFINE u == PressureScore(Occupancy(Healthy[decision[r].at], decision[r].n,
                                            kvProjected[Healthy[decision[r].at]]))
               s == Scored(decision[r], Healthy[decision[r].at], u)
               next == ScoreFrom(decision[r], decision[r].at + 1)
    <2>1. s.eligible = decision[r].eligible
        BY <1>4 DEF Scored, Decisions
    <2>2. /\ decision'[r] = [s EXCEPT !.at = next.at, !.n = 0,
                   !.minScore = IF next.pc = "pick" THEN Infinity ELSE @]
          /\ pc'[r] = next.pc /\ pc[r] = "scoreKv"
        BY <1>7 DEF ScoreKv, PathTypes, GoTo
    <2> HIDE DEF s
    <2>3. decision'[r].eligible = s.eligible
        BY <2>2
    <2>4. next.pc # "opening"
        BY DEF ScoreFrom
    <2>5. r \in Pending(b)' => r \in Pending(b)
        BY <2>1, <2>2, <2>3, <2>4 DEF Pending, Picking
    <2> QED
        BY <1>1, <1>3, <2>5 DEF SlotDelta, One
<1>8. CASE GateSlot(r)
    <2> DEFINE e == decision[r]
               h == Healthy[e.at]
               el == IF e.kvOk /\ SlotOk(h) THEN e.eligible \cup {h}
                                            ELSE e.eligible
    <2>1. decision'[r].eligible = el
        <3> DEFINE gated == [e EXCEPT !.eligible = el, !.kvOk = FALSE,
                                      !.fellThrough = el = {}]
                   at == ScoreFrom(gated, 1).at
        <3>1. \/ decision' = [decision EXCEPT ![r] =
                   [e EXCEPT !.eligible = el, !.kvOk = FALSE, !.at = @ + 1]]
              \/ decision' = [decision EXCEPT ![r] = [gated EXCEPT !.at = at]]
            BY <1>8 DEF GateSlot
        <3> HIDE DEF el, at
        <3>2. CASE decision' = [decision EXCEPT ![r] =
                  [e EXCEPT !.eligible = el, !.kvOk = FALSE, !.at = @ + 1]]
            BY <1>4, <3>2 DEF PathTypes, Decisions
        <3>3. CASE decision' = [decision EXCEPT ![r] = [gated EXCEPT !.at = at]]
            BY <1>4, <3>3 DEF PathTypes, Decisions
        <3> QED
            BY <3>1, <3>2, <3>3
    <2>2. pc[r] = "gateSlot" /\ pc'[r] # "opening"
        BY <1>8 DEF GateSlot, PathTypes, GoTo, ScoreFrom
    <2>3. CASE b \in el \ e.eligible
        BY <1>1, <2>3 DEF SlotDelta, SlotOk
    <2>4. CASE b \notin el \ e.eligible
        <3> HIDE DEF el
        <3>1. r \in Pending(b)' => r \in Pending(b)
            BY <2>1, <2>2, <2>4 DEF Pending, Picking
        <3> QED
            BY <1>1, <1>3, <3>1 DEF SlotDelta, One
    <2> QED
        BY <2>3, <2>4
<1> QED
    BY <1>1, <1>3, <1>5, <1>6, <1>7, <1>8 DEF SlotDelta, One

\* A pick takes a place among the pending requests of a backend it was already
\* pending on; if it fell through it was pending nowhere.
LEMMA DeltaPick ==
    ASSUME RecordsOK, PathTypes, NEW r \in Requests, RequestOK(r),
           NEW b \in Backends, Pick(r)
    PROVE  SlotDelta(r, b)
<1> DEFINE d == decision[r]
<1>1. PICK c \in d.ties : BeginOpen(r, c, d.prompt, d.est)
    BY DEF Pick
<1>2. /\ UNCHANGED inflight /\ inflight[b] \in Int
      /\ lease[r].slot = FALSE
      /\ lease'[r].slot = FALSE /\ lease'[r].backend = c
    BY <1>1, Free DEF BeginOpen, NewLease, RecordsOK, Requests
<1>3. r \notin FellThroughOn(b) /\ r \notin FellThroughOn(b)'
    BY <1>2 DEF FellThroughOn
<1>4. /\ pc[r] = "pick" /\ pc'[r] = "opening"
      /\ decision'[r].fellThrough = d.fellThrough
    BY DEF Pick, PathTypes, GoTo, NoDecision
<1>5. c \in Pool(d)
    BY <1>1 DEF RequestOK, DecisionOK
<1>6. r \in Pending(b)' => r \in Pending(b)
    BY <1>2, <1>4, <1>5 DEF Pending, Picking, Pool
<1> QED
    BY <1>2, <1>3, <1>6 DEF SlotDelta, One

\* The slot is added by a request that is pending or fell through ...
LEMMA DeltaOpen ==
    ASSUME RecordsOK, PathTypes, NEW r \in Requests, RequestOK(r),
           NEW b \in Backends, Open(r)
    PROVE  SlotDelta(r, b)
<1>1. /\ lease[r] \in LeaseRecord /\ lease[r].backend \in Backends
      /\ inflight \in [Backends -> Int] /\ lease \in [Requests -> LeaseRecord]
    BY DEF RecordsOK, LeaseShape, Requests, Open, OpenAddInflight, OpenAddKv
<1>2. /\ UNCHANGED decision /\ pc[r] = "opening"
      /\ pc'[r] \in {"opening", "build"}
    BY DEF Open, GoTo, PathTypes
<1>3. lease'[r].backend = lease[r].backend
    <2>1. CASE OpenAddInflight(r)
        BY <1>1, <2>1 DEF OpenAddInflight, LeaseRecord
    <2>2. CASE OpenAddKv(r)
        BY <1>1, <2>2 DEF OpenAddKv, LeaseRecord
    <2> QED
        BY <2>1, <2>2 DEF Open
<1>4. decision[r].fellThrough \in BOOLEAN
    BY DEF PathTypes, Decisions
<1>5. CASE OpenAddInflight(r)
    <2>1. /\ lease[r].slot = FALSE /\ lease'[r].slot = TRUE
          /\ inflight'[b] = IF lease[r].backend = b THEN inflight[b] + 1
                                                    ELSE inflight[b]
        BY <1>1, <1>5 DEF OpenAddInflight, LeaseRecord
    <2>2. r \notin Pending(b)' /\ r \notin FellThroughOn(b)
        BY <1>2, <2>1 DEF Pending, FellThroughOn, Picking
    <2>3. lease[r].backend = b => r \in Pending(b) \/ r \in FellThroughOn(b)'
        BY <1>2, <1>3, <1>4, <2>1 DEF Pending, FellThroughOn
    <2> QED
        BY <1>1, <2>1, <2>2, <2>3 DEF SlotDelta, One
<1>6. CASE OpenAddKv(r)
    <2>1. lease'[r].slot = lease[r].slot /\ UNCHANGED inflight
        BY <1>1, <1>6 DEF OpenAddKv, LeaseRecord
    <2>2. /\ r \in Pending(b)' => r \in Pending(b)
          /\ r \in FellThroughOn(b) => r \in FellThroughOn(b)'
        BY <1>2, <1>3, <2>1 DEF Pending, FellThroughOn, Picking
    <2> QED
        BY <1>1, <2>1, <2>2 DEF SlotDelta, One
<1> QED
    BY <1>5, <1>6 DEF Open

\* ... and a request that gives its slot back, or forgets that it fell through,
\* has the slot no more.
LEMMA DeltaServe ==
    ASSUME RecordsOK, PathTypes, NEW r \in Requests, RequestOK(r),
           NEW b \in Backends,
           \/ Accept(r) \/ RejectBody(r) \/ StartDispatch(r)
           \/ BuildFails(r) \/ DispatchFails(r) \/ Respond(r) \/ Content(r)
           \/ EndBody(r) \/ ClientLeaves(r) \/ Reuse(r)
    PROVE  SlotDelta(r, b)
<1>1. /\ lease[r] \in LeaseRecord /\ inflight \in [Backends -> Int]
      /\ lease \in [Requests -> LeaseRecord]
    BY DEF RecordsOK, Requests
<1>2. UNCHANGED <<inflight, decision>> /\ pc'[r] \notin Picking \cup {"opening"}
    BY DEF PathTypes, GoTo, Picking, leaseVars, BeginRelease, ObserveTokens,
           Observed, Accept, RejectBody, StartDispatch, BuildFails,
           DispatchFails, Respond, Content, EndBody, ClientLeaves, Reuse
<1>3. lease'[r].slot = lease[r].slot /\ lease'[r].backend = lease[r].backend
    <2>1. CASE UNCHANGED lease
        BY <2>1
    <2>2. CASE BeginRelease(r)
        BY <1>1, <2>2 DEF BeginRelease, LeaseRecord
    <2>3. CASE ObserveTokens(r, 1)
        BY <1>1, <2>3 DEF ObserveTokens, Observed, LeaseRecord
    <2> QED
        BY <2>1, <2>2, <2>3
        DEF leaseVars, Accept, RejectBody, StartDispatch, BuildFails,
            DispatchFails, Respond, Content, EndBody, ClientLeaves, Reuse
<1>4. /\ r \notin Pending(b)'
      /\ r \in FellThroughOn(b) => r \in FellThroughOn(b)'
    BY <1>2, <1>3 DEF Pending, FellThroughOn
<1> QED
    BY <1>1, <1>2, <1>4 DEF SlotDelta, One

LEMMA DeltaRelease ==
    ASSUME RecordsOK, PathTypes, NEW r \in Requests, RequestOK(r),
           NEW b \in Backends, Release(r) \/ Finish(r) \/ Refuse(r)
    PROVE  SlotDelta(r, b)
<1>1. /\ lease[r] \in LeaseRecord /\ inflight \in [Backends -> Int]
      /\ lease \in [Requests -> LeaseRecord]
    BY DEF RecordsOK, Requests
<1>2. r \notin Pending(b)'
    <2>1. pc'[r] \notin Picking \cup {"opening"}
        BY DEF Release, Finish, Refuse, PathTypes, GoTo, Picking
    <2> QED
        BY <2>1 DEF Pending
<1>3. CASE ReleaseSubInflight(r) /\ Release(r)
    <2>1. /\ UNCHANGED decision
          /\ inflight'[b] = IF lease[r].backend = b THEN inflight[b] - 1
                                                    ELSE inflight[b]
        BY <1>1, <1>3 DEF Release, ReleaseSubInflight
    <2>2. lease'[r].slot = FALSE
        BY <1>1, <1>3 DEF ReleaseSubInflight, LeaseRecord, NoLease
    <2>3. r \in FellThroughOn(b) => lease[r].backend = b
        BY DEF FellThroughOn
    <2>4. r \notin FellThroughOn(b)'
        BY <2>2 DEF FellThroughOn
    <2> QED
        BY <1>1, <1>2, <2>1, <2>3, <2>4 DEF SlotDelta, One
<1>4. CASE ReleaseSubKv(r) /\ Release(r)
    <2>1. UNCHANGED <<inflight, decision>>
        BY <1>4 DEF Release, ReleaseSubKv
    <2>2. lease[r].slot => /\ lease'[r].slot
                           /\ lease'[r].backend = lease[r].backend
        BY <1>1, <1>4 DEF ReleaseSubKv, LeaseRecord
    <2>3. r \in FellThroughOn(b) => r \in FellThroughOn(b)'
        BY <2>1, <2>2 DEF FellThroughOn
    <2> QED
        BY <1>1, <1>2, <2>1, <2>3 DEF SlotDelta, One
<1>5. CASE Finish(r) \/ Refuse(r)
    <2>1. UNCHANGED inflight /\ lease[r].slot = FALSE
        BY <1>5, Free DEF Finish, Refuse, RequestOK, PhaseOK, Picking
    <2>2. r \notin FellThroughOn(b)
        BY <2>1 DEF FellThroughOn
    <2> QED
        BY <1>1, <1>2, <2>1, <2>2 DEF SlotDelta, One
<1> QED
    BY <1>3, <1>4, <1>5 DEF Release

LEMMA StepDelta ==
    ASSUME RecordsOK, PathTypes, NEW r \in Requests, RequestOK(r),
           NEW b \in Backends, PathStep(r)
    PROVE  SlotDelta(r, b)
    BY DeltaDecide, DeltaPick, DeltaOpen, DeltaServe, DeltaRelease
    DEF PathStep, Compute, EndReading, EndConnecting

\* A step keeps SlotBound: a request that passes the gate of b reads fewer
\* than max_num_seqs, and the pending requests are on different workers.
LEMMA StepSlotBound ==
    ASSUME PathIInv, NEW r \in Requests, PathStep(r),
           (Cardinality(Busy) =< Workers)'
    PROVE  SlotBound'
<1> SUFFICES ASSUME NEW b \in Backends
             PROVE  inflight'[b] + Cardinality(Pending(b)') =<
                      MaxSeqs[b] + (Workers - 1) + Cardinality(FellThroughOn(b)')
    BY DEF SlotBound
<1>1. /\ RecordsOK /\ PathTypes /\ RequestOK(r) /\ RecordsOK'
      /\ inflight[b] \in Int /\ inflight'[b] \in Int
      /\ MaxSeqs[b] \in Nat /\ Workers \in Nat
    <2>1. RecordsOK /\ PathTypes /\ RequestOK(r)
        BY DEF PathIInv
    <2>2. RecordsOK'
        BY <2>1, StepRecordsOK
    <2> QED
        BY <2>1, <2>2, PathAssumption DEF RecordsOK
<1>2. SlotDelta(r, b)
    BY <1>1, StepDelta
<1>3. \A x \in Requests \ {r} :
        /\ x \in Pending(b)' <=> x \in Pending(b)
        /\ x \in FellThroughOn(b)' <=> x \in FellThroughOn(b)
    BY <1>1, OtherRequests DEF Pending, FellThroughOn
<1>4. /\ Cardinality(Pending(b)) \in Nat /\ Cardinality(Pending(b)') \in Nat
      /\ Cardinality(Pending(b)') + One(r \in Pending(b))
           = Cardinality(Pending(b)) + One(r \in Pending(b)')
    <2>1. Pending(b) \in SUBSET Requests /\ Pending(b)' \in SUBSET Requests
        BY DEF Pending
    <2> QED
        BY <1>3, <2>1, CountOne DEF One
<1>5. /\ Cardinality(FellThroughOn(b)) \in Nat
      /\ Cardinality(FellThroughOn(b)') \in Nat
      /\ Cardinality(FellThroughOn(b)') + One(r \in FellThroughOn(b))
           = Cardinality(FellThroughOn(b)) + One(r \in FellThroughOn(b)')
    <2>1. /\ FellThroughOn(b) \in SUBSET Requests
          /\ FellThroughOn(b)' \in SUBSET Requests
        BY DEF FellThroughOn
    <2> QED
        BY <1>3, <2>1, CountOne DEF One
<1>6. Cardinality(Pending(b)') =< Workers
    <2>1. Pending(b)' \subseteq Busy'
        BY DEF Pending, Busy, Picking, OnWorker
    <2>2. IsFiniteSet(Busy')
        BY PathAssumption, FS_Subset DEF Busy, Requests
    <2>3. Cardinality(Pending(b)') =< Cardinality(Busy')
        BY <2>1, <2>2, FS_Subset
    <2>4. Cardinality(Busy') \in Nat
        BY <2>2, FS_CardinalityType
    <2> QED
        BY <1>1, <1>4, <2>3, <2>4
<1>7. inflight[b] + Cardinality(Pending(b)) =<
        MaxSeqs[b] + (Workers - 1) + Cardinality(FellThroughOn(b))
    BY DEF PathIInv, SlotBound
<1>8. /\ One(r \in Pending(b)) \in Nat /\ One(r \in Pending(b)') \in Nat
      /\ One(r \in FellThroughOn(b)) \in Nat
      /\ One(r \in FellThroughOn(b)') \in Nat
    BY DEF One
<1> QED
    BY <1>1, <1>2, <1>4, <1>5, <1>6, <1>7, <1>8 DEF SlotDelta

-----------------------------------------------------------------------------
(***************************************************************************)
(* The theorems.                                                           *)
(***************************************************************************)

LEMMA InitPathIInv == PathInit => PathIInv
<1> SUFFICES ASSUME PathInit PROVE PathIInv
    OBVIOUS
<1>1. RecordsOK
    BY InitRecords DEF PathInit
<1>2. PathTypes
    BY NoDecisionType DEF PathInit, PathTypes, Places
<1>3. ASSUME NEW r \in Requests PROVE RequestOK(r)
    BY DEF PathInit, LeaseInit, NoLease, NoDecision, Requests, RequestOK,
           PhaseOK, RecordOK, DecisionOK, Picking, Scoring, Ending
<1>4. Busy = {}
    BY DEF PathInit, Busy, OnWorker
<1>5. \A b \in Backends : Pending(b) = {} /\ FellThroughOn(b) = {}
    BY DEF PathInit, Pending, FellThroughOn, Picking, NoDecision
<1>6. Cardinality({}) = 0
    BY FS_EmptySet
<1>7. SlotBound
    <2> SUFFICES ASSUME NEW b \in Backends
                 PROVE  inflight[b] + Cardinality(Pending(b)) =<
                          MaxSeqs[b] + (Workers - 1) + Cardinality(FellThroughOn(b))
        BY DEF SlotBound
    <2>1. inflight[b] = 0 /\ MaxSeqs[b] \in Nat /\ Workers \in Nat \ {0}
        BY PathAssumption DEF PathInit, LeaseInit
    <2>2. Cardinality(Pending(b)) = 0 /\ Cardinality(FellThroughOn(b)) = 0
        BY <1>5, <1>6, Zenon
    <2> QED
        BY <2>1, <2>2
<1> QED
    BY <1>1, <1>2, <1>3, <1>4, <1>6, <1>7, PathAssumption DEF PathIInv

LEMMA NextPathIInv == PathIInv /\ [PathNext]_pathVars => PathIInv'
<1>1. ASSUME PathIInv, NEW r \in Requests, PathStep(r)
      PROVE  PathIInv'
    <2>1. RecordsOK /\ PathTypes /\ RequestOK(r) /\ Cardinality(Busy) =< Workers
        BY <1>1 DEF PathIInv
    <2>2. RecordsOK' /\ PathTypes' /\ RequestOK(r)'
        BY <1>1, <2>1, StepRecordsOK, StepRequest
    <2>3. \A x \in Requests \ {r} : RequestOK(x)'
        BY <1>1, <2>1, OthersOK DEF PathIInv
    <2>4. (Cardinality(Busy) =< Workers)'
        BY <1>1, <2>1, StepBusy
    <2>5. SlotBound'
        BY <1>1, <2>4, StepSlotBound
    <2> QED
        BY <2>2, <2>3, <2>4, <2>5 DEF PathIInv
<1>2. ASSUME PathIInv, UNCHANGED pathVars
      PROVE  PathIInv'
    BY <1>2 DEF pathVars, PathIInv, RecordsOK, PathTypes, RequestOK, PhaseOK,
        RecordOK, DecisionOK, Pool, Busy, SlotBound, Pending, FellThroughOn
<1> QED
    BY <1>1, <1>2 DEF PathNext

LEMMA PathInvariant == PathSpec => []PathIInv
    BY InitPathIInv, NextPathIInv, PTL DEF PathSpec

\* The handler's use of its leases is a behaviour of the lease module, so what
\* is proved of leases holds of the requests of the router.
THEOREM PathImplementsLease == PathSpec => ImplementsLease
<1>1. PathInit => LeaseInit
    BY DEF PathInit
<1>2. PathIInv /\ [PathNext]_pathVars => [LeaseNext]_leaseVars
    BY StepLease DEF PathNext, PathIInv, LeaseNext, Requests, pathVars, leaseVars
<1> QED
    BY <1>1, <1>2, PathInvariant, PTL DEF PathSpec, LeaseSpec, ImplementsLease

\* However many requests and workers there are, a backend's inflight exceeds
\* max_num_seqs by at most one for every worker but one and one for every
\* request that fell through to it.
THEOREM PathSlotOvershoot == PathSpec => []SlotOvershoot
<1>1. ASSUME PathIInv, NEW b \in Backends
      PROVE  inflight[b] =< MaxSeqs[b] + (Workers - 1) + Cardinality(FellThroughOn(b))
    <2>1. Cardinality(Pending(b)) \in Nat /\ Cardinality(FellThroughOn(b)) \in Nat
        BY PathAssumption, FS_Subset, FS_CardinalityType
        DEF Pending, FellThroughOn, Requests
    <2>2. inflight[b] \in Int /\ MaxSeqs[b] \in Nat /\ Workers \in Nat
        BY <1>1, PathAssumption DEF PathIInv, RecordsOK
    <2>3. inflight[b] + Cardinality(Pending(b)) =<
            MaxSeqs[b] + (Workers - 1) + Cardinality(FellThroughOn(b))
        BY <1>1 DEF PathIInv, SlotBound
    <2> QED
        BY <2>1, <2>2, <2>3
<1>2. PathIInv => SlotOvershoot
    BY <1>1 DEF SlotOvershoot
<1> QED
    BY <1>2, PathInvariant, PTL

\* On every way through the handler the lease is open exactly while the backend
\* serves the request.
THEOREM PathChargedWhileServed == PathSpec => []ChargedWhileServed
<1>1. PathIInv => ChargedWhileServed
    BY DEF PathIInv, PathTypes, Places, OnWorker, Awaiting, RequestOK, PhaseOK,
           Picking, Ending, ChargedWhileServed
<1> QED
    BY <1>1, PathInvariant, PTL

\* If the penalty is a number pick always finds a backend, whatever the factor,
\* the knee, the capacities and the counters.  For a penalty that is not, the
\* negation is what a run shows.
THEOREM PathNeverRefuses ==
    ASSUME PenaltyIsFinite PROVE PathSpec => []NeverRefuses
<1>1. PathIInv => NeverRefuses
    BY PenaltyIsFinite DEF PathIInv, RequestOK, DecisionOK, NeverRefuses
<1> QED
    BY <1>1, PathInvariant, PTL

\* Every request that got an answer is recorded once.
THEOREM PathRecordedOnce == PathSpec => []RecordedOnce
<1>1. PathIInv => RecordedOnce
    BY DEF PathIInv, RequestOK, RecordOK, RecordedOnce
<1> QED
    BY <1>1, PathInvariant, PTL

-----------------------------------------------------------------------------

\* What PathTypes does not say: the loaded value is never negative.
LoadsOK(r) == decision[r].n \in Nat

LEMMA StepLoads ==
    ASSUME LeaseTypeOK, PathTypes, NEW r \in Requests, PathStep(r), LoadsOK(r)
    PROVE  LoadsOK(r)'
<1>1. decision[r] \in Decisions /\ decision \in [Requests -> Decisions]
    BY DEF PathTypes
<1>2. NoDecision.n = 0
    BY DEF NoDecision
<1>3. CASE UNCHANGED decision
    BY <1>3 DEF LoadsOK
<1>4. CASE Finish(r) \/ Refuse(r)
    BY <1>1, <1>2, <1>4 DEF Finish, Refuse, LoadsOK
<1>5. CASE Pick(r)
    BY <1>1, <1>2, <1>5 DEF Pick, LoadsOK, NoDecision
<1>6. ASSUME NEW p, NEW o, Decide(r, p, o) PROVE LoadsOK(r)'
    BY <1>1, <1>2, <1>6 DEF Decide, LoadsOK, NoDecision
<1>7. CASE GateKv(r)
    BY <1>1, <1>7 DEF GateKv, LoadsOK, Decisions
<1>8. CASE GateSlot(r)
    <2> DEFINE e == decision[r]
               el == IF e.kvOk /\ SlotOk(Healthy[e.at])
                     THEN e.eligible \cup {Healthy[e.at]} ELSE e.eligible
               gated == [e EXCEPT !.eligible = el, !.kvOk = FALSE,
                                  !.fellThrough = el = {}]
               at == ScoreFrom(gated, 1).at
    <2>1. \/ decision' = [decision EXCEPT ![r] =
               [e EXCEPT !.eligible = el, !.kvOk = FALSE, !.at = @ + 1]]
          \/ decision' = [decision EXCEPT ![r] = [gated EXCEPT !.at = at]]
        BY <1>8 DEF GateSlot
    <2> HIDE DEF el, at, e
    <2>2. gated.n = e.n
        BY <1>1 DEF Decisions, e
    <2> HIDE DEF gated
    <2>3. CASE decision' = [decision EXCEPT ![r] = [gated EXCEPT !.at = at]]
        <3>1. decision'[r] = [gated EXCEPT !.at = at]
            BY <1>1, <2>3, Zenon
        <3> QED
            BY <2>2, <3>1 DEF e, LoadsOK
    <2>4. CASE decision' = [decision EXCEPT ![r] =
                  [e EXCEPT !.eligible = el, !.kvOk = FALSE, !.at = @ + 1]]
        <3>1. decision'[r] = [e EXCEPT !.eligible = el, !.kvOk = FALSE, !.at = @ + 1]
            BY <1>1, <2>4, Zenon
        <3> QED
            BY <3>1 DEF e, LoadsOK
    <2> QED
        BY <2>1, <2>3, <2>4
<1>9. CASE ScoreSlot(r)
    <2>1. inflight[Healthy[decision[r].at]] \in Nat
        BY <1>1, HealthyType DEF LeaseTypeOK, Decisions
    <2> QED
        BY <1>1, <1>9, <2>1 DEF ScoreSlot, LoadsOK, Decisions
<1>10. CASE ScoreKv(r)
    <2> DEFINE b == Healthy[decision[r].at]
               s == Scored(decision[r], b,
                           PressureScore(Occupancy(b, decision[r].n, kvProjected[b])))
               next == ScoreFrom(decision[r], decision[r].at + 1)
               m == IF next.pc = "pick" THEN Infinity ELSE s.minScore
               at == next.at
    <2>1. decision' = [decision EXCEPT ![r] =
                         [s EXCEPT !.at = at, !.n = 0, !.minScore = m]]
        BY <1>10 DEF ScoreKv
    <2>2. "n" \in DOMAIN s
        BY <1>1 DEF Scored, Decisions
    <2> HIDE DEF at, s, m
    <2>3. decision'[r] = [s EXCEPT !.at = at, !.n = 0, !.minScore = m]
        BY <1>1, <2>1, Zenon
    <2> QED
        BY <2>2, <2>3 DEF LoadsOK
<1> QED
    BY <1>3, <1>4, <1>5, <1>6, <1>7, <1>8, <1>9, <1>10
    DEF PathStep, Compute, EndReading, EndConnecting, Open, Accept, RejectBody,
        StartDispatch, BuildFails, DispatchFails, Respond, Content, EndBody,
        ClientLeaves, Release, Reuse

\* Everything keeps its range: the counters never go below zero, and no more
\* requests are between two awaits than there are workers.
THEOREM PathTypeCorrect == PathSpec => []PathTypeOK
<1> DEFINE Loads == \A r \in Requests : LoadsOK(r)
<1>1. PathInit => Loads
    BY DEF PathInit, NoDecision, LoadsOK
<1>2. LeaseTypeOK /\ PathIInv /\ Loads /\ [PathNext]_pathVars => Loads'
    <2>1. ASSUME LeaseTypeOK, PathIInv, Loads, NEW r \in Requests, PathStep(r)
          PROVE  Loads'
        <3>1. RecordsOK /\ PathTypes /\ RequestOK(r) /\ LoadsOK(r)
            BY <2>1 DEF PathIInv
        <3>2. LoadsOK(r)'
            BY <2>1, <3>1, StepLoads
        <3>3. \A x \in Requests \ {r} : LoadsOK(x)'
            BY <2>1, <3>1, OtherRequests DEF LoadsOK
        <3> QED
            BY <3>2, <3>3
    <2>2. ASSUME Loads, UNCHANGED pathVars PROVE Loads'
        BY <2>2 DEF pathVars, LoadsOK
    <2> HIDE DEF Loads
    <2> QED
        BY <2>1, <2>2 DEF PathNext
<1>3. LeaseTypeOK /\ PathIInv /\ Loads => PathTypeOK
    <2>1. ASSUME PathTypes, Loads, NEW r \in Requests
          PROVE  decision[r] \in DecisionRecord
        BY <2>1 DEF PathTypes, Decisions, LoadsOK, DecisionRecord, Scores
    <2>2. ASSUME PathTypes, Loads
          PROVE  decision \in [Requests -> DecisionRecord]
        BY <2>1, <2>2 DEF PathTypes
    <2> QED
        BY <2>2 DEF PathIInv, PathTypes, PathTypeOK
<1>4. PathSpec => []LeaseTypeOK
    BY PathImplementsLease, LeaseTypeCorrect, PTL DEF ImplementsLease
<1> HIDE DEF Loads
<1> QED
    BY <1>1, <1>2, <1>3, <1>4, PathInvariant, PTL DEF PathSpec

-----------------------------------------------------------------------------
(***************************************************************************)
(* The KV cache.  The requests that the gate has admitted to b, from the   *)
(* moment the projection was found low enough, are granted their need.     *)
(***************************************************************************)
Granted(b) ==
    {r \in Requests :
        \/ /\ pc[r] \in Picking
           /\ \/ b \in decision[r].eligible
              \/ /\ pc[r] = "gateSlot" /\ decision[r].kvOk
                 /\ Healthy[decision[r].at] = b
        \/ /\ ~decision[r].fellThrough /\ lease[r].backend = b
           /\ pc[r] = "opening" \/ lease[r].kv}

NeedOf(r) ==
    IF pc[r] \in Picking THEN Need(decision[r])
                          ELSE Project(lease[r].prompt, lease[r].est)

GrantedUnits(b) == UNION {{r} \X (1 .. NeedOf(r)) : r \in Granted(b)}

\* What is granted already keeps the bound that is to be shown of what is
\* charged.
GrantsOK ==
    \A b \in Backends :
        /\ IsFiniteSet(GrantedUnits(b))
        /\ Cardinality(GrantedUnits(b)) =< KvLimit(b) + (Workers - 1) * LargestNeed

\* A lease is never charged less than what it was opened with.
ChargeOK(r) ==
    /\ pc[r] = "opening" => lease[r].prompt \in Prompts /\ lease[r].est \in Estimates
    /\ lease[r].phase \in {"opening", "open"} => lease[r].oHat >= lease[r].est
    /\ lease[r].kv => lease[r].charged >= Project(lease[r].prompt, lease[r].est)

KvIInv == GrantsOK /\ \A r \in Requests : ChargeOK(r)

\* Numbers of finitely many kinds have a largest one.
LEMMA LargestNumber ==
    ASSUME NEW S \in SUBSET Nat, IsFiniteSet(S), S # {}
    PROVE  \E n \in S : \A m \in S : m =< n
<1> DEFINE U == UNION {1 .. n : n \in S}
           Above == {m \in Nat : \A n \in S : n =< m}
<1>1. IsFiniteSet(U)
    <2> DEFINE T == {1 .. n : n \in S}
               f == [n \in S |-> 1 .. n]
    <2>0. f \in Surjection(S, T)
        BY DEF Surjection
    <2> HIDE DEF f
    <2>1. IsFiniteSet(T)
        BY <2>0, FS_Surjection
    <2>2. ASSUME NEW t \in T PROVE IsFiniteSet(t)
        <3>1. PICK n \in S : t = 1 .. n
            OBVIOUS
        <3>2. n \in Int /\ 1 \in Int
            OBVIOUS
        <3>3. IsFiniteSet(1 .. n)
            BY <3>2, FS_Interval
        <3> QED
            BY <3>1, <3>3
    <2> QED
        BY <2>1, <2>2, FS_UNION
<1>2. Cardinality(U) \in Nat
    BY <1>1, FS_CardinalityType
<1>3. ASSUME NEW n \in S
      PROVE  n =< Cardinality(U)
    <2>1. 1 .. n \subseteq U
        OBVIOUS
    <2>2. Cardinality(1 .. n) = n
        BY FS_Interval
    <2> HIDE DEF U
    <2> QED
        BY <1>1, <2>1, <2>2, FS_Subset
<1>4. Above # {}
    BY <1>2, <1>3
<1>5. PICK n \in Above : \A k \in Above : n =< k
    BY <1>4, FirstPosition
<1>6. n \in S
    <2> SUFFICES ASSUME n \notin S PROVE FALSE
        OBVIOUS
    <2>1. \A m \in S : m < n
        BY <1>5
    <2>2. n # 0
        <3>1. PICK m \in S : m \in Nat
            OBVIOUS
        <3> QED
            BY <2>1, <3>1, <1>5
    <2>3. n - 1 \in Above
        BY <1>5, <2>1, <2>2
    <2> QED
        BY <1>5, <2>3
<1> QED
    BY <1>5, <1>6

LEMMA Largest ==
    /\ LargestNeed \in Nat
    /\ \A p \in Prompts, o \in Estimates :
           Project(p, o) \in Nat /\ Project(p, o) =< LargestNeed
<1> DEFINE S == {Project(p, o) : p \in Prompts, o \in Estimates}
<1>0. \A p \in Prompts, o \in Estimates : Project(p, o) \in Nat
    BY ProjectType, LeaseAssumption
<1>1. S \in SUBSET Nat /\ S # {}
    <2>1. S \subseteq Nat
        BY <1>0
    <2>2. PICK p \in Prompts, o \in Estimates : TRUE
        BY PathAssumption
    <2>3. Project(p, o) \in S
        OBVIOUS
    <2> QED
        BY <2>1, <2>3
<1>2. IsFiniteSet(S)
    <2> DEFINE f == [z \in Prompts \X Estimates |-> Project(z[1], z[2])]
    <2>1. IsFiniteSet(Prompts \X Estimates)
        BY PathAssumption, FS_Product
    <2>2. f \in Surjection(Prompts \X Estimates, S)
        <3>1. ASSUME NEW p \in Prompts, NEW o \in Estimates
              PROVE  f[<<p, o>>] = Project(p, o)
            OBVIOUS
        <3>2. ASSUME NEW z \in Prompts \X Estimates
              PROVE  f[z] \in S
            OBVIOUS
        <3>3. ASSUME NEW n \in S
              PROVE  \E z \in Prompts \X Estimates : f[z] = n
            <4>1. PICK p \in Prompts, o \in Estimates : n = Project(p, o)
                OBVIOUS
            <4>2. <<p, o>> \in Prompts \X Estimates /\ f[<<p, o>>] = n
                BY <3>1, <4>1
            <4> HIDE DEF f
            <4> QED
                BY <4>2
        <3> QED
            BY <3>2, <3>3 DEF Surjection
    <2> HIDE DEF f, S
    <2> QED
        BY <2>1, <2>2, FS_Surjection
<1>3. \E n \in S : \A p \in Prompts, o \in Estimates : Project(p, o) =< n
    <2>1. PICK n \in S : \A m \in S : m =< n
        <3> HIDE DEF S
        <3> QED
            BY <1>1, <1>2, LargestNumber
    <2>2. \A p \in Prompts, o \in Estimates : Project(p, o) \in S
        OBVIOUS
    <2> HIDE DEF S
    <2> QED
        BY <2>1, <2>2
<1>4. /\ LargestNeed \in S
      /\ \A p \in Prompts, o \in Estimates : Project(p, o) =< LargestNeed
    BY <1>3 DEF LargestNeed
<1> QED
    BY <1>1, <1>4

LEMMA LimitsAreNumbers ==
    /\ Workers \in Nat \ {0} /\ Workers - 1 \in Nat
    /\ (Workers - 1) * LargestNeed \in Nat
    /\ \A b \in Backends : KvLimit(b) \in Nat
<1>1. Workers \in Nat \ {0}
    BY PathAssumption
<1>2. ASSUME NEW m \in Nat, NEW n \in Nat PROVE m * n \in Nat
    OBVIOUS
<1>3. ASSUME NEW m \in Nat, NEW n \in Nat \ {0} PROVE m \div n \in Nat
    OBVIOUS
<1>4. ASSUME NEW b \in Backends PROVE KvLimit(b) \in Nat
    <2>1. Sigma[1] \in Nat /\ Sigma[2] \in Nat \ {0} /\ KvCapacity[b] \in Nat
        BY PathAssumption
    <2>2. Sigma[1] * KvCapacity[b] \in Nat
        BY <1>2, <2>1
    <2> QED
        BY <1>3, <2>1, <2>2 DEF KvLimit
<1> QED
    BY <1>1, <1>2, <1>4, Largest

\* The need of a request that the gate has let through is one of those a
\* request can have.
LEMMA NeedKnown ==
    ASSUME PathTypes, RecordsOK, NEW r \in Requests, RequestOK(r), ChargeOK(r)
    PROVE  /\ NeedOf(r) \in Nat
           /\ pc[r] \in Picking \cup {"opening"} => NeedOf(r) =< LargestNeed
<1>1. CASE pc[r] \in Picking
    BY <1>1, Largest, Zenon DEF NeedOf, Need, RequestOK, DecisionOK
<1>2. CASE pc[r] = "opening"
    <2>1. pc[r] \notin Picking
        BY <1>2 DEF Picking
    <2> QED
        BY <1>2, <2>1, Largest, Zenon DEF NeedOf, ChargeOK
<1>3. CASE pc[r] \notin Picking \cup {"opening"}
    <2>1. lease[r].prompt \in Nat /\ lease[r].est \in Nat
        BY DEF RecordsOK, LeaseRecord, Requests
    <2> QED
        BY <1>3, <2>1, ProjectType DEF NeedOf
<1> QED
    BY <1>1, <1>2, <1>3

-----------------------------------------------------------------------------

\* A step grants r nothing on b that it had not, and keeps its need.
GrantKept(r, b) ==
    r \in Granted(b)' => r \in Granted(b) /\ NeedOf(r)' = NeedOf(r)

\* Nobody holds KV tokens before the pick.
LEMMA NoKvYet ==
    ASSUME RecordsOK, NEW r \in Requests, lease[r].phase = "free"
    PROVE  lease[r].kv = FALSE
    BY DEF RecordsOK, LeaseShape, LeaseRecord, Requests

LEMMA GrantDecide ==
    ASSUME RecordsOK, PathTypes, NEW r \in Requests, RequestOK(r),
           NEW b \in Backends,
           \E p \in Prompts, o \in Estimates : Decide(r, p, o)
    PROVE  r \notin Granted(b)'
<1>1. lease'[r].kv = FALSE
    BY NoKvYet DEF Decide, RequestOK, PhaseOK, Picking
<1>2. pc'[r] = "gateKv" /\ decision'[r].eligible = {}
    BY DEF Decide, PathTypes, NoDecision, GoTo
<1> QED
    BY <1>1, <1>2 DEF Granted

\* The request passes the KV half of the gate of b only if its need fits.
LEMMA GrantGateKv ==
    ASSUME RecordsOK, PathTypes, NEW r \in Requests, RequestOK(r),
           NEW b \in Backends, GateKv(r)
    PROVE  \/ GrantKept(r, b)
           \/ /\ kvProjected[b] + NeedOf(r)' =< KvLimit(b)
              /\ UNCHANGED <<kvProjected, lease>>
<1> DEFINE e == decision[r]
<1>1. e \in Decisions /\ lease[r].kv = FALSE
    BY NoKvYet DEF PathTypes, GateKv, RequestOK, PhaseOK, Picking
<1>2. /\ pc[r] = "gateKv" /\ pc'[r] = "gateSlot"
      /\ UNCHANGED <<kvProjected, lease>>
    BY DEF GateKv, PathTypes, GoTo
<1>3. decision'[r] = [e EXCEPT !.kvOk = KvOk(Healthy[e.at], Need(e))]
    BY DEF GateKv, PathTypes
<1>4. /\ decision'[r].eligible = e.eligible /\ decision'[r].at = e.at
      /\ decision'[r].prompt = e.prompt /\ decision'[r].est = e.est
      /\ decision'[r].kvOk = KvOk(Healthy[e.at], Need(e))
    BY <1>1, <1>3 DEF Decisions
<1>5. NeedOf(r)' = Need(e) /\ NeedOf(r) = Need(e)
    BY <1>2, <1>4 DEF NeedOf, Need, Picking
<1>6. CASE b \in e.eligible
    <2>1. r \in Granted(b)
        BY <1>2, <1>6 DEF Granted, Picking
    <2> QED
        BY <1>5, <2>1 DEF GrantKept
<1>7. CASE KvOk(Healthy[e.at], Need(e)) /\ Healthy[e.at] = b
    BY <1>2, <1>5, <1>7 DEF KvOk
<1>8. CASE b \notin e.eligible /\ ~(KvOk(Healthy[e.at], Need(e)) /\ Healthy[e.at] = b)
    <2>1. r \notin Granted(b)'
        BY <1>1, <1>2, <1>4, <1>8 DEF Granted, Picking
    <2> QED
        BY <2>1 DEF GrantKept
<1> QED
    BY <1>6, <1>7, <1>8

LEMMA GrantGateSlot ==
    ASSUME RecordsOK, PathTypes, NEW r \in Requests, RequestOK(r),
           NEW b \in Backends, GateSlot(r)
    PROVE  GrantKept(r, b)
<1> DEFINE e == decision[r]
           h == Healthy[e.at]
           el == IF e.kvOk /\ SlotOk(h) THEN e.eligible \cup {h}
                                        ELSE e.eligible
<1>1. e \in Decisions /\ lease[r].kv = FALSE /\ UNCHANGED lease
    BY NoKvYet DEF PathTypes, GateSlot, RequestOK, PhaseOK, Picking
<1>2. /\ decision'[r].eligible = el
      /\ decision'[r].prompt = e.prompt /\ decision'[r].est = e.est
    <2> DEFINE gated == [e EXCEPT !.eligible = el, !.kvOk = FALSE,
                                  !.fellThrough = el = {}]
               at == ScoreFrom(gated, 1).at
    <2>1. \/ decision' = [decision EXCEPT ![r] =
               [e EXCEPT !.eligible = el, !.kvOk = FALSE, !.at = @ + 1]]
          \/ decision' = [decision EXCEPT ![r] = [gated EXCEPT !.at = at]]
        BY DEF GateSlot
    <2> HIDE DEF el, at
    <2>2. CASE decision' = [decision EXCEPT ![r] =
              [e EXCEPT !.eligible = el, !.kvOk = FALSE, !.at = @ + 1]]
        BY <1>1, <2>2 DEF PathTypes, Decisions
    <2>3. CASE decision' = [decision EXCEPT ![r] = [gated EXCEPT !.at = at]]
        BY <1>1, <2>3 DEF PathTypes, Decisions
    <2> QED
        BY <2>1, <2>2, <2>3
<1>3. pc[r] = "gateSlot" /\ pc'[r] \in Picking \ {"gateSlot"}
    BY DEF GateSlot, PathTypes, GoTo, ScoreFrom, Picking
<1>4. NeedOf(r)' = NeedOf(r)
    BY <1>2, <1>3 DEF NeedOf, Need, Picking
<1>5. r \in Granted(b)' => b \in el
    BY <1>1, <1>2, <1>3 DEF Granted, Picking
<1>6. b \in el => r \in Granted(b)
    BY <1>3 DEF Granted, Picking
<1> QED
    BY <1>4, <1>5, <1>6 DEF GrantKept

LEMMA GrantScore ==
    ASSUME RecordsOK, PathTypes, NEW r \in Requests, RequestOK(r),
           NEW b \in Backends, ScoreSlot(r) \/ ScoreKv(r)
    PROVE  GrantKept(r, b)
<1> DEFINE e == decision[r]
<1>1. e \in Decisions /\ lease[r].kv = FALSE /\ UNCHANGED lease
    BY NoKvYet DEF PathTypes, ScoreSlot, ScoreKv, RequestOK, PhaseOK, Picking
<1>2. /\ decision'[r].eligible = e.eligible
      /\ decision'[r].prompt = e.prompt /\ decision'[r].est = e.est
    <2>1. CASE ScoreSlot(r)
        BY <1>1, <2>1 DEF ScoreSlot, PathTypes, Decisions
    <2>2. CASE ScoreKv(r)
        <3> DEFINE u == PressureScore(
                            Occupancy(Healthy[e.at], e.n, kvProjected[Healthy[e.at]]))
                   s == Scored(e, Healthy[e.at], u)
                   next == ScoreFrom(e, e.at + 1)
        <3>1. /\ s.eligible = e.eligible
              /\ s.prompt = e.prompt /\ s.est = e.est
            BY <1>1 DEF Scored, Decisions
        <3>2. decision'[r] = [s EXCEPT !.at = next.at, !.n = 0,
                     !.minScore = IF next.pc = "pick" THEN Infinity ELSE @]
            BY <2>2 DEF ScoreKv, PathTypes
        <3> HIDE DEF s
        <3> QED
            BY <3>1, <3>2
    <2> QED
        BY <2>1, <2>2
<1>3. pc[r] \in Picking /\ pc'[r] \in Picking \ {"gateSlot"}
    BY DEF ScoreSlot, ScoreKv, PathTypes, GoTo, ScoreFrom, Picking
<1>4. NeedOf(r)' = NeedOf(r)
    BY <1>2, <1>3 DEF NeedOf, Need
<1>5. r \in Granted(b)' => r \in Granted(b)
    BY <1>1, <1>2, <1>3 DEF Granted, Picking
<1> QED
    BY <1>4, <1>5 DEF GrantKept

\* The lease is opened on a backend that the request is granted its need on,
\* or it fell through.
LEMMA GrantPick ==
    ASSUME RecordsOK, PathTypes, NEW r \in Requests, RequestOK(r),
           NEW b \in Backends, Pick(r)
    PROVE  GrantKept(r, b) /\ ChargeOK(r)'
<1> DEFINE d == decision[r]
<1>1. PICK c \in d.ties : BeginOpen(r, c, d.prompt, d.est)
    BY DEF Pick
<1>2. lease'[r] = NewLease(c, d.prompt, d.est)
    BY <1>1 DEF BeginOpen, RecordsOK, Requests
<1>3. /\ pc[r] = "pick" /\ pc'[r] = "opening"
      /\ decision'[r].fellThrough = d.fellThrough
    BY DEF Pick, PathTypes, GoTo, NoDecision
<1>4. c \in Pool(d) /\ d.prompt \in Prompts /\ d.est \in Estimates
    BY <1>1, <1>3 DEF RequestOK, DecisionOK, Picking
<1>5. /\ lease'[r].backend = c /\ lease'[r].kv = FALSE
      /\ lease'[r].prompt = d.prompt /\ lease'[r].est = d.est
      /\ lease'[r].oHat = d.est
    BY <1>2 DEF NewLease
<1>6. NeedOf(r)' = NeedOf(r)
    BY <1>3, <1>5 DEF NeedOf, Need, Picking
<1>7. r \in Granted(b)' => r \in Granted(b)
    BY <1>3, <1>4, <1>5 DEF Granted, Picking, Pool
<1>8. d.est >= d.est
    <2>1. d.est \in Nat
        BY <1>4, LeaseAssumption
    <2> HIDE DEF d
    <2> QED
        BY <2>1
<1> QED
    BY <1>3, <1>4, <1>5, <1>6, <1>7, <1>8 DEF GrantKept, ChargeOK

LEMMA GrantOpen ==
    ASSUME RecordsOK, PathTypes, NEW r \in Requests, RequestOK(r), ChargeOK(r),
           NEW b \in Backends, Open(r)
    PROVE  GrantKept(r, b) /\ ChargeOK(r)'
<1> DEFINE ls == lease[r]
<1>1. ls \in LeaseRecord /\ lease \in [Requests -> LeaseRecord] /\ LeaseShape(ls)
    BY DEF RecordsOK, Requests
<1>2. /\ UNCHANGED decision /\ pc[r] = "opening" /\ ls.phase = "opening"
      /\ pc'[r] \in {"opening", "build"}
    BY DEF Open, GoTo, PathTypes, OpenAddInflight, OpenAddKv
<1>3. /\ lease'[r].backend = ls.backend /\ lease'[r].prompt = ls.prompt
      /\ lease'[r].est = ls.est /\ lease'[r].oHat = ls.oHat
      /\ lease'[r].charged = ls.charged
      /\ lease'[r].kv = ls.kv \/ OpenAddKv(r)
    <2>1. CASE OpenAddInflight(r)
        BY <1>1, <2>1 DEF OpenAddInflight, LeaseRecord
    <2>2. CASE OpenAddKv(r)
        BY <1>1, <2>2 DEF OpenAddKv, LeaseRecord
    <2> QED
        BY <2>1, <2>2 DEF Open
<1>4. NeedOf(r)' = NeedOf(r)
    BY <1>2, <1>3 DEF NeedOf, Picking
<1>5. r \in Granted(b)' => r \in Granted(b)
    BY <1>2, <1>3 DEF Granted, Picking
<1>6. ls.charged >= Project(ls.prompt, ls.est)
    <2>1. ls.charged = Project(ls.prompt, ls.oHat) /\ ls.oHat >= ls.est
        BY <1>1, <1>2 DEF LeaseShape, ChargeOK
    <2>2. ls.prompt \in Nat /\ ls.est \in Nat /\ ls.oHat \in Nat
        BY <1>1 DEF LeaseRecord
    <2> HIDE DEF ls
    <2> QED
        BY <2>1, <2>2 DEF Project
<1>7. ChargeOK(r)'
    BY <1>2, <1>3, <1>6 DEF ChargeOK
<1> QED
    BY <1>4, <1>5, <1>7 DEF GrantKept

\* A recharge changes neither the need nor the backend, and adds to the charge.
LEMMA GrantContent ==
    ASSUME RecordsOK, PathTypes, NEW r \in Requests, RequestOK(r), ChargeOK(r),
           NEW b \in Backends, Content(r)
    PROVE  GrantKept(r, b) /\ ChargeOK(r)'
<1> DEFINE ls == lease[r]
           recharge == ls.seen + 1 > ls.oHat
           oHat == IF recharge THEN ls.oHat + RechargeStep ELSE ls.oHat
           charge == IF recharge THEN Project(ls.prompt, oHat) ELSE ls.charged
           new == [ls EXCEPT !.seen = @ + 1, !.oHat = oHat, !.charged = charge]
<1>1. ls \in LeaseRecord /\ lease \in [Requests -> LeaseRecord] /\ LeaseShape(ls)
    BY DEF RecordsOK, Requests
<1>2. /\ UNCHANGED <<decision, pc>> /\ pc[r] = "streaming" /\ ls.phase = "open"
      /\ lease' = [lease EXCEPT ![r] = new]
    BY DEF Content, ObserveTokens, Observed
<1>3. ls.kv /\ ls.oHat >= ls.est /\ ls.charged >= Project(ls.prompt, ls.est)
    BY <1>1, <1>2 DEF LeaseShape, ChargeOK
<1>4. /\ ls.prompt \in Nat /\ ls.est \in Nat /\ ls.oHat \in Nat
      /\ ls.charged \in Nat /\ RechargeStep \in Nat
    BY <1>1, LeaseAssumption DEF LeaseRecord
<1>5. lease'[r] = new
    BY <1>1, <1>2
<1> HIDE DEF ls, recharge
<1>6. oHat >= ls.est /\ charge >= Project(ls.prompt, ls.est)
    BY <1>3, <1>4 DEF Project
<1> HIDE DEF oHat, charge
<1>7. /\ lease'[r].backend = ls.backend /\ lease'[r].prompt = ls.prompt
      /\ lease'[r].est = ls.est /\ lease'[r].oHat = oHat
      /\ lease'[r].charged = charge /\ lease'[r].kv = ls.kv
    BY <1>1, <1>5 DEF LeaseRecord
<1>8. NeedOf(r)' = NeedOf(r)
    BY <1>2, <1>7 DEF NeedOf, Picking, ls
<1>9. r \in Granted(b)' => r \in Granted(b)
    BY <1>2, <1>7 DEF Granted, Picking, ls
<1>10. ChargeOK(r)'
    BY <1>2, <1>6, <1>7 DEF ChargeOK
<1> QED
    BY <1>8, <1>9, <1>10 DEF GrantKept

LEMMA GrantServe ==
    ASSUME RecordsOK, PathTypes, NEW r \in Requests, RequestOK(r), ChargeOK(r),
           NEW b \in Backends,
           \/ Accept(r) \/ RejectBody(r) \/ StartDispatch(r)
           \/ BuildFails(r) \/ DispatchFails(r) \/ Respond(r)
           \/ EndBody(r) \/ ClientLeaves(r) \/ Reuse(r)
    PROVE  GrantKept(r, b) /\ ChargeOK(r)'
<1>1. lease[r] \in LeaseRecord /\ lease \in [Requests -> LeaseRecord]
    BY DEF RecordsOK, Requests
<1>2. /\ UNCHANGED decision /\ pc'[r] \notin Picking \cup {"opening"}
      /\ pc[r] \notin Picking \cup {"opening"}
    BY DEF PathTypes, GoTo, Picking, Accept, RejectBody, StartDispatch, BuildFails,
           DispatchFails, Respond, EndBody, ClientLeaves, Reuse
<1>3. /\ lease'[r].backend = lease[r].backend /\ lease'[r].prompt = lease[r].prompt
      /\ lease'[r].est = lease[r].est /\ lease'[r].oHat = lease[r].oHat
      /\ lease'[r].charged = lease[r].charged /\ lease'[r].kv = lease[r].kv
      /\ lease'[r].phase \in {lease[r].phase, "releasing"}
    <2>1. CASE UNCHANGED lease
        BY <2>1
    <2>2. CASE BeginRelease(r)
        BY <1>1, <2>2 DEF BeginRelease, LeaseRecord
    <2> QED
        BY <2>1, <2>2
        DEF leaseVars, Accept, RejectBody, StartDispatch, BuildFails,
            DispatchFails, Respond, EndBody, ClientLeaves, Reuse
<1>4. NeedOf(r)' = NeedOf(r)
    BY <1>2, <1>3 DEF NeedOf
<1>5. r \in Granted(b)' => r \in Granted(b)
    BY <1>2, <1>3 DEF Granted
<1>6. ChargeOK(r)'
    BY <1>2, <1>3 DEF ChargeOK
<1> QED
    BY <1>4, <1>5, <1>6 DEF GrantKept

LEMMA GrantRelease ==
    ASSUME RecordsOK, PathTypes, NEW r \in Requests, RequestOK(r), ChargeOK(r),
           NEW b \in Backends, Release(r) \/ Finish(r)
    PROVE  GrantKept(r, b) /\ ChargeOK(r)'
<1>1. lease[r] \in LeaseRecord /\ lease \in [Requests -> LeaseRecord]
    BY DEF RecordsOK, Requests
<1>2. /\ pc[r] \notin Picking \cup {"opening"}
      /\ pc'[r] \notin Picking \cup {"opening"}
    BY DEF Release, Finish, PathTypes, GoTo, Picking
<1>3. \/ lease'[r].kv = FALSE /\ lease'[r].phase \in {"releasing", "free"}
      \/ /\ UNCHANGED decision
         /\ lease'[r].backend = lease[r].backend /\ lease'[r].prompt = lease[r].prompt
         /\ lease'[r].est = lease[r].est /\ lease'[r].charged = lease[r].charged
         /\ lease'[r].kv = lease[r].kv /\ lease'[r].phase = "releasing"
    <2>1. CASE ReleaseSubInflight(r) /\ Release(r)
        BY <1>1, <2>1 DEF ReleaseSubInflight, Release, LeaseRecord, NoLease
    <2>2. CASE ReleaseSubKv(r)
        BY <1>1, <2>2 DEF ReleaseSubKv, LeaseRecord, NoLease
    <2>3. CASE Finish(r)
        BY <2>3, NoKvYet DEF Finish
    <2> QED
        BY <2>1, <2>2, <2>3 DEF Release
<1>4. r \in Granted(b)' => r \in Granted(b) /\ NeedOf(r)' = NeedOf(r)
    BY <1>2, <1>3 DEF Granted, NeedOf
<1>5. ChargeOK(r)'
    BY <1>2, <1>3 DEF ChargeOK
<1> QED
    BY <1>4, <1>5 DEF GrantKept

LEMMA GrantRefuse ==
    ASSUME RecordsOK, PathTypes, NEW r \in Requests, RequestOK(r), ChargeOK(r),
           NEW b \in Backends, Refuse(r)
    PROVE  GrantKept(r, b) /\ ChargeOK(r)'
<1>1. /\ UNCHANGED lease /\ lease[r].phase = "free" /\ lease[r].kv = FALSE
      /\ pc'[r] = "finished"
    BY NoKvYet DEF Refuse, RequestOK, PhaseOK, Picking, PathTypes, GoTo
<1>2. r \notin Granted(b)'
    BY <1>1 DEF Granted, Picking
<1>3. ChargeOK(r)'
    BY <1>1 DEF ChargeOK
<1> QED
    BY <1>2, <1>3 DEF GrantKept

\* Before the pick there is nothing to say of the charge.
LEMMA ChargeBefore ==
    ASSUME RecordsOK, PathTypes, NEW r \in Requests, RequestOK(r),
           \/ \E p \in Prompts, o \in Estimates : Decide(r, p, o)
           \/ GateKv(r) \/ GateSlot(r) \/ ScoreSlot(r) \/ ScoreKv(r)
    PROVE  ChargeOK(r)'
<1>1. UNCHANGED lease /\ lease[r].phase = "free"
    BY DEF Decide, GateKv, GateSlot, ScoreSlot, ScoreKv, RequestOK, PhaseOK, Picking
<1>2. pc'[r] # "opening"
    BY DEF Decide, GateKv, GateSlot, ScoreSlot, ScoreKv, PathTypes, GoTo, ScoreFrom
<1> QED
    BY <1>1, <1>2, NoKvYet DEF ChargeOK

LEMMA StepGrant ==
    ASSUME RecordsOK, PathTypes, NEW r \in Requests, RequestOK(r), ChargeOK(r),
           NEW b \in Backends, PathStep(r)
    PROVE  /\ ChargeOK(r)'
           /\ \/ GrantKept(r, b)
              \/ /\ kvProjected[b] + NeedOf(r)' =< KvLimit(b)
                 /\ UNCHANGED <<kvProjected, lease>>
                 /\ pc[r] = "gateKv"
<1>1. CASE \E p \in Prompts, o \in Estimates : Decide(r, p, o)
    BY <1>1, GrantDecide, ChargeBefore DEF GrantKept
<1>2. CASE GateKv(r)
    <2>1. pc[r] = "gateKv"
        BY <1>2 DEF GateKv
    <2> QED
        BY <1>2, <2>1, GrantGateKv, ChargeBefore
<1>3. CASE GateSlot(r) \/ ScoreSlot(r) \/ ScoreKv(r)
    BY <1>3, GrantGateSlot, GrantScore, ChargeBefore
<1>4. CASE ~(\E p \in Prompts, o \in Estimates : Decide(r, p, o))
           /\ ~(GateKv(r) \/ GateSlot(r) \/ ScoreSlot(r) \/ ScoreKv(r))
    BY <1>4, GrantPick, GrantRefuse, GrantOpen, GrantContent, GrantServe,
       GrantRelease
    DEF PathStep, Compute, EndReading, EndConnecting
<1> QED
    BY <1>1, <1>2, <1>3, <1>4

LEMMA NeedTypeNext ==
    ASSUME RecordsOK', NEW r \in Requests, RequestOK(r)'
    PROVE  NeedOf(r)' \in Nat
<1>1. CASE pc'[r] \in Picking
    <2>1. decision'[r].prompt \in Nat /\ decision'[r].est \in Nat
        BY <1>1, LeaseAssumption DEF RequestOK, DecisionOK
    <2> QED
        BY <1>1, <2>1, ProjectType DEF NeedOf, Need
<1>2. CASE pc'[r] \notin Picking
    <2>1. lease'[r].prompt \in Nat /\ lease'[r].est \in Nat
        BY DEF RecordsOK, LeaseRecord, Requests
    <2> QED
        BY <1>2, <2>1, ProjectType DEF NeedOf
<1> QED
    BY <1>1, <1>2

\* The ledger's proofs count with the same operators.
LEMMA SameCounting ==
    ASSUME NEW S
    PROVE  /\ KvProofs!IsFiniteSet(S) <=> IsFiniteSet(S)
           /\ KvProofs!Cardinality(S) = Cardinality(S)
<1>1. KvProofs!IsFiniteSet(S) <=> IsFiniteSet(S)
    BY DEF KvProofs!IsFiniteSet, IsFiniteSet
<1>2. KvProofs!Cardinality(S) = Cardinality(S)
    BY DEF KvProofs!Cardinality, Cardinality
<1> QED
    BY <1>1, <1>2

LEMMA UnionAtMost ==
    ASSUME NEW S, NEW T, IsFiniteSet(S), IsFiniteSet(T)
    PROVE  /\ IsFiniteSet(S \cup T)
           /\ Cardinality(S \cup T) =< Cardinality(S) + Cardinality(T)
<1>1. /\ IsFiniteSet(S \cup T)
      /\ Cardinality(S \cup T) = Cardinality(S) + Cardinality(T) - Cardinality(S \cap T)
    BY FS_Union
<1>2. IsFiniteSet(S \cap T)
    BY FS_Subset
<1>3. /\ Cardinality(S) \in Nat /\ Cardinality(T) \in Nat
      /\ Cardinality(S \cap T) \in Nat
    BY <1>2, FS_CardinalityType
<1> QED
    BY <1>1, <1>3

LEMMA TimesAtMost ==
    ASSUME NEW m \in Nat, NEW n \in Nat, m =< n, NEW k \in Nat
    PROVE  m * k =< n * k
<1>1. PICK d \in Nat : n = m + d
    <2>1. n - m \in Nat /\ n = m + (n - m)
        OBVIOUS
    <2> QED
        BY <2>1
<1>2. n * k = m * k + d * k /\ d * k \in Nat /\ m * k \in Nat
    BY <1>1
<1> QED
    BY <1>2

\* A step keeps GrantsOK: at the gate everybody else either has its charge in
\* the projection that was loaded, or is on another worker.
LEMMA StepGrantsOK ==
    ASSUME PathIInv, KvIInv, KvProofs!IInv, NEW r \in Requests, PathStep(r)
    PROVE  GrantsOK'
<1> SUFFICES ASSUME NEW b \in Backends
             PROVE  /\ IsFiniteSet(GrantedUnits(b)')
                    /\ Cardinality(GrantedUnits(b)') =<
                         KvLimit(b) + (Workers - 1) * LargestNeed
    BY DEF GrantsOK
<1>1. /\ RecordsOK /\ PathTypes
      /\ \A x \in Requests : RequestOK(x) /\ ChargeOK(x)
    BY DEF PathIInv, KvIInv
<1>2. \A x \in Requests \ {r} :
          /\ x \in Granted(b)' => x \in Granted(b)
          /\ NeedOf(x)' = NeedOf(x)
    BY <1>1, OtherRequests DEF Granted, NeedOf
<1>3. /\ IsFiniteSet(GrantedUnits(b))
      /\ Cardinality(GrantedUnits(b)) \in Nat
      /\ Cardinality(GrantedUnits(b)) =< KvLimit(b) + (Workers - 1) * LargestNeed
    BY FS_CardinalityType DEF KvIInv, GrantsOK
<1>4. KvLimit(b) \in Nat /\ (Workers - 1) * LargestNeed \in Nat /\ Workers \in Nat
    BY LimitsAreNumbers
<1>5. CASE GrantKept(r, b)
    <2>1. GrantedUnits(b)' \subseteq GrantedUnits(b)
        <3>1. \A x \in Granted(b)' : x \in Granted(b) /\ NeedOf(x)' = NeedOf(x)
            BY <1>2, <1>5 DEF GrantKept, Granted
        <3> QED
            BY <3>1 DEF GrantedUnits
    <2>2. /\ IsFiniteSet(GrantedUnits(b)')
          /\ Cardinality(GrantedUnits(b)') =< Cardinality(GrantedUnits(b))
        BY <1>3, <2>1, FS_Subset
    <2>3. Cardinality(GrantedUnits(b)') \in Nat
        BY <2>2, FS_CardinalityType
    <2> QED
        BY <1>3, <1>4, <2>2, <2>3
<1>6. ASSUME kvProjected[b] + NeedOf(r)' =< KvLimit(b), pc[r] = "gateKv"
      PROVE  /\ IsFiniteSet(GrantedUnits(b)')
             /\ Cardinality(GrantedUnits(b)') =<
                  KvLimit(b) + (Workers - 1) * LargestNeed
    <2>1. PICK n : n = NeedOf(r)'
        OBVIOUS
    <2>2. PathTypes' /\ RecordsOK' /\ RequestOK(r)' /\ ChargeOK(r)'
        BY <1>1, StepRecordsOK, StepRequest, StepGrant
    <2>3. n \in Nat
        BY <2>1, <2>2, NeedTypeNext
    <2> DEFINE H == KvProofs!Units(KvsHeld, b)
               M == {r} \X (1 .. n)
               W == (Busy \ {r}) \X (1 .. LargestNeed)
    <2>4. IsFiniteSet(H) /\ Cardinality(H) = kvProjected[b] /\ kvProjected[b] \in Nat
        BY SameCounting DEF KvProofs!IInv, KvProofs!Balanced, KvProofs!TypeOK
    <2>5. IsFiniteSet(M) /\ Cardinality(M) = n
        BY <2>3, SameCounting, KvProofs!UnitsOfOne
    <2>6. IsFiniteSet(W) /\ Cardinality(W) =< (Workers - 1) * LargestNeed
        <3>1. IsFiniteSet(Busy) /\ r \in Busy
            BY <1>6, PathAssumption, FS_Subset DEF Busy, OnWorker, Requests
        <3>2. /\ IsFiniteSet(Busy \ {r})
              /\ Cardinality(Busy \ {r}) = Cardinality(Busy) - 1
            BY <3>1, FS_RemoveElement
        <3>3. Cardinality(Busy) \in Nat /\ Cardinality(Busy \ {r}) \in Nat
            BY <3>1, <3>2, FS_CardinalityType
        <3>4. Cardinality(Busy \ {r}) =< Workers - 1
            BY <1>4, <3>2, <3>3 DEF PathIInv
        <3>5. IsFiniteSet(1 .. LargestNeed) /\ Cardinality(1 .. LargestNeed) = LargestNeed
            BY Largest, FS_Interval
        <3>6. /\ IsFiniteSet(W)
              /\ Cardinality(W) = Cardinality(Busy \ {r}) * LargestNeed
            <4>1. /\ IsFiniteSet(W)
                  /\ Cardinality(W) = Cardinality(Busy \ {r}) * Cardinality(1 .. LargestNeed)
                BY <3>2, <3>5, FS_Product, Zenon
            <4> QED
                BY <3>5, <4>1, Zenon
        <3>7. Workers - 1 \in Nat
            BY LimitsAreNumbers
        <3> QED
            BY <3>3, <3>4, <3>6, <3>7, Largest, TimesAtMost, Zenon
    <2>7. GrantedUnits(b)' \subseteq (H \cup M) \cup W
        <3> SUFFICES ASSUME NEW x \in Granted(b)', NEW i \in 1 .. NeedOf(x)'
                     PROVE  <<x, i>> \in (H \cup M) \cup W
            BY DEF GrantedUnits
        <3>1. CASE x = r
            BY <2>1, <3>1
        <3>2. CASE x # r
            <4>1. x \in Requests /\ x \in Granted(b) /\ i \in 1 .. NeedOf(x)
                BY <1>2, <3>2 DEF Granted
            <4>2. NeedOf(x) \in Nat
                BY <1>1, <4>1, NeedKnown
            <4>3. CASE pc[x] \in Picking \cup {"opening"}
                <5>1. NeedOf(x) =< LargestNeed /\ LargestNeed \in Nat
                    BY <1>1, <4>1, <4>3, NeedKnown, Largest
                <5>2. i \in 1 .. LargestNeed
                    BY <4>1, <4>2, <5>1
                <5>3. x \in Busy \ {r}
                    BY <3>2, <4>1, <4>3 DEF Busy, Picking, OnWorker
                <5> QED
                    BY <5>2, <5>3
            <4>4. CASE pc[x] \notin Picking \cup {"opening"}
                <5>1. lease[x].kv /\ lease[x].backend = b
                    BY <4>1, <4>4 DEF Granted
                <5>2. NeedOf(x) =< lease[x].charged
                    BY <1>1, <4>1, <4>4, <5>1 DEF NeedOf, ChargeOK
                <5>3. KvsHeld[x][b] = lease[x].charged
                    BY <4>1, <5>1 DEF KvsHeld, KvHeld, Requests
                <5>4. lease[x].charged \in Nat
                    BY <1>1, <4>1 DEF RecordsOK, LeaseRecord, Requests
                <5>5. i \in 1 .. KvsHeld[x][b]
                    BY <4>1, <4>2, <5>2, <5>3, <5>4
                <5>6. <<x, i>> \in {x} \X (1 .. KvsHeld[x][b])
                    BY <5>5
                <5> QED
                    BY <4>1, <5>6, Zenon DEF KvProofs!Units, Requests
            <4> QED
                BY <4>3, <4>4
        <3> QED
            BY <3>1, <3>2
    <2> HIDE DEF H, M, W
    <2>8. /\ IsFiniteSet(H \cup M)
          /\ Cardinality(H \cup M) =< Cardinality(H) + Cardinality(M)
        BY <2>4, <2>5, UnionAtMost
    <2>9. /\ IsFiniteSet((H \cup M) \cup W)
          /\ Cardinality((H \cup M) \cup W) =< Cardinality(H \cup M) + Cardinality(W)
        BY <2>6, <2>8, UnionAtMost
    <2>10. /\ IsFiniteSet(GrantedUnits(b)')
           /\ Cardinality(GrantedUnits(b)') =< Cardinality((H \cup M) \cup W)
        BY <2>7, <2>9, FS_Subset
    <2>11. /\ Cardinality(GrantedUnits(b)') \in Nat
           /\ Cardinality((H \cup M) \cup W) \in Nat
           /\ Cardinality(H \cup M) \in Nat /\ Cardinality(W) \in Nat
        BY <2>6, <2>8, <2>9, <2>10, FS_CardinalityType
    <2>12. kvProjected[b] + n =< KvLimit(b)
        BY <1>6, <2>1
    <2> QED
        BY <1>4, <2>3, <2>4, <2>5, <2>6, <2>8, <2>9, <2>10, <2>11, <2>12
<1> QED
    BY <1>1, <1>5, <1>6, StepGrant

LEMMA InitKvIInv == PathInit => KvIInv
<1> SUFFICES ASSUME PathInit PROVE KvIInv
    OBVIOUS
<1>1. \A r \in Requests : ChargeOK(r)
    BY DEF PathInit, LeaseInit, NoLease, ChargeOK, Requests
<1>2. ASSUME NEW b \in Backends PROVE GrantedUnits(b) = {}
    <2>1. Granted(b) = {}
        BY DEF PathInit, LeaseInit, NoLease, Granted, Picking, Requests
    <2> QED
        BY <2>1 DEF GrantedUnits
<1>3. IsFiniteSet({}) /\ Cardinality({}) = 0
    BY FS_EmptySet
<1>4. GrantsOK
    <2> SUFFICES ASSUME NEW b \in Backends
                 PROVE  /\ IsFiniteSet(GrantedUnits(b))
                        /\ Cardinality(GrantedUnits(b)) =<
                             KvLimit(b) + (Workers - 1) * LargestNeed
        BY DEF GrantsOK
    <2>1. KvLimit(b) \in Nat /\ (Workers - 1) * LargestNeed \in Nat
        BY LimitsAreNumbers
    <2>2. IsFiniteSet(GrantedUnits(b)) /\ Cardinality(GrantedUnits(b)) = 0
        BY <1>2, <1>3, Zenon
    <2> QED
        BY <2>1, <2>2
<1> QED
    BY <1>1, <1>4 DEF KvIInv

LEMMA NextKvIInv ==
    PathIInv /\ KvProofs!IInv /\ KvIInv /\ [PathNext]_pathVars => KvIInv'
<1>1. ASSUME PathIInv, KvProofs!IInv, KvIInv, NEW r \in Requests, PathStep(r)
      PROVE  KvIInv'
    <2>1. GrantsOK'
        BY <1>1, StepGrantsOK
    <2>2. /\ RecordsOK /\ PathTypes /\ RequestOK(r)
          /\ \A x \in Requests : ChargeOK(x)
        BY <1>1 DEF PathIInv, KvIInv
    <2>3. ChargeOK(r)'
        <3>1. PICK b \in Backends : TRUE
            BY HealthyType
        <3> QED
            BY <1>1, <2>2, <3>1, StepGrant
    <2>4. \A x \in Requests \ {r} : ChargeOK(x)'
        BY <1>1, <2>2, OtherRequests DEF ChargeOK
    <2> QED
        BY <2>1, <2>3, <2>4 DEF KvIInv
<1>2. ASSUME KvIInv, UNCHANGED pathVars
      PROVE  KvIInv'
    <2>1. \A r \in Requests : ChargeOK(r)'
        BY <1>2 DEF pathVars, KvIInv, ChargeOK
    <2>2. ASSUME NEW b \in Backends PROVE GrantedUnits(b)' = GrantedUnits(b)
        BY <1>2 DEF pathVars, GrantedUnits, Granted, NeedOf
    <2>3. GrantsOK'
        BY <1>2, <2>2 DEF KvIInv, GrantsOK
    <2> QED
        BY <2>1, <2>3 DEF KvIInv
<1> QED
    BY <1>1, <1>2 DEF PathNext

\* However many requests, workers and backends there are, what the requests that
\* the gate admitted to a backend were charged at the start exceeds the
\* backend's ceiling by no more than one request for every other worker.
THEOREM PathKvOvershoot == PathSpec => []KvOvershoot
<1>1. PathSpec => []KvProofs!IInv
    BY PathImplementsLease, CountersAreSums, PTL DEF ImplementsLease
<1>2. PathSpec => []KvIInv
    BY <1>1, PathInvariant, InitKvIInv, NextKvIInv, PTL DEF PathSpec
<1>3. ASSUME KvIInv, PathIInv, NEW b \in Backends
      PROVE  AdmittedKv(b) =< KvLimit(b) + (Workers - 1) * LargestNeed
    <2>1. \A r \in AdmittedOn(b) :
              r \in Granted(b) /\ NeedOf(r) = Project(lease[r].prompt, lease[r].est)
        <3> TAKE r \in AdmittedOn(b)
        <3>1. r \in Requests /\ lease[r].kv
            BY DEF AdmittedOn
        <3>2. lease[r].phase # "free"
            BY <1>3, <3>1, NoKvYet DEF PathIInv
        <3>3. pc[r] \notin Picking
            BY <1>3, <3>1, <3>2 DEF PathIInv, RequestOK, PhaseOK
        <3> QED
            BY <3>1, <3>3 DEF AdmittedOn, Granted, NeedOf
    <2>2. AdmittedUnits(b) \subseteq GrantedUnits(b)
        BY <2>1 DEF AdmittedUnits, GrantedUnits
    <2>3. /\ IsFiniteSet(GrantedUnits(b))
          /\ Cardinality(GrantedUnits(b)) =< KvLimit(b) + (Workers - 1) * LargestNeed
        BY <1>3 DEF KvIInv, GrantsOK
    <2>4. /\ IsFiniteSet(AdmittedUnits(b))
          /\ Cardinality(AdmittedUnits(b)) =< Cardinality(GrantedUnits(b))
        BY <2>2, <2>3, FS_Subset
    <2>5. Cardinality(AdmittedUnits(b)) \in Nat /\ Cardinality(GrantedUnits(b)) \in Nat
        BY <2>3, <2>4, FS_CardinalityType
    <2>6. KvLimit(b) \in Nat /\ (Workers - 1) * LargestNeed \in Nat
        BY LimitsAreNumbers
    <2> QED
        BY <2>3, <2>4, <2>5, <2>6 DEF AdmittedKv
<1>4. KvIInv /\ PathIInv => KvOvershoot
    BY <1>3 DEF KvOvershoot
<1> QED
    BY <1>2, <1>4, PathInvariant, PTL

-----------------------------------------------------------------------------
(***************************************************************************)
(* The trace of a decision.  What a decision has found out about a backend *)
(* is what the counters say, and so is what its trace then tells of it, as *)
(* long as the counters of that backend do not move.                       *)
(***************************************************************************)

OccupancyNow(b) == Occupancy(b, inflight[b], kvProjected[b])
ScoreNow(b) == PressureScore(OccupancyNow(b))
Fits(d, b) == KvOk(b, Need(d)) /\ SlotOk(b)

GateSoFar(d, S) ==
    \A b \in S :
        b \in d.eligible <=> \E i \in 1 .. d.at - 1 : b = Healthy[i] /\ Fits(d, b)
GateDone(d, S) ==
    /\ \A b \in S : b \in AllHealthy => (b \in d.eligible <=> Fits(d, b))
    /\ d.fellThrough <=> d.eligible = {}
ScoreSoFar(d, S) ==
    /\ \A i \in 1 .. d.at - 1 :
           Healthy[i] \in Pool(d) /\ Healthy[i] \in S =>
               /\ ~Less(ScoreNow(Healthy[i]), d.minScore)
               /\ d.ties = {} => ScoreNow(Healthy[i]) = NaN
    /\ \A b \in S : b \in d.ties => Same(ScoreNow(b), d.minScore)
ScoreDone(d, S) ==
    /\ \A b \in S : b \in d.ties =>
           /\ ScoreNow(b) # NaN
           /\ \A c \in S : c \in Pool(d) => ~Less(ScoreNow(c), ScoreNow(b))
    /\ d.ties = {} => \A c \in S : c \in Pool(d) => ScoreNow(c) = NaN

\* What a decision that has come to this place has found out about the
\* backends S still holds.
Still(d, place, S) ==
    /\ place \in {"gateKv", "gateSlot"} => GateSoFar(d, S)
    /\ place = "gateSlot" /\ Healthy[d.at] \in S => d.kvOk = KvOk(Healthy[d.at], Need(d))
    /\ place \in Scoring \cup {"pick"} => GateDone(d, S)
    /\ place \in Scoring => ScoreSoFar(d, S)
    /\ place = "scoreKv" /\ Healthy[d.at] \in S => d.n = inflight[Healthy[d.at]]
    /\ place = "pick" => ScoreDone(d, S)

FieldNow(b, i) == IF Fields[i] = "kv" THEN kvProjected[b] ELSE inflight[b]
CandidateNow(d, b) ==
    [backend |-> b, occupancy |-> OccupancyNow(b), score |-> ScoreNow(b),
     gated_by |-> GatedBy(d, b, kvProjected[b]),
     inflight |-> inflight[b], kv_projected |-> kvProjected[b]]

Reasons == {"None", "SlotLimit", "KvHeadroom"}
CandidateScores ==
    [backend : Backends, occupancy : Scores, score : Scores, gated_by : Reasons,
     inflight : Int, kv_projected : Int]
Traces ==
    [begun : BOOLEAN, chosen : Backends \cup {NoBackend}, loads : Seq(Int),
     candidates : Seq(CandidateScores)]

\* And so does what its trace tells so far.
Traced(t, d, place, S) ==
    /\ t \in Traces
    /\ (place # "pick" \/ ~t.begun) => t = NoTrace
    /\ t.begun => t.chosen \in d.ties \/ (t.chosen = NoBackend /\ d.ties = {})
    /\ Len(t.loads) < Len(Fields) /\ Len(t.candidates) =< Len(Healthy)
    /\ Len(t.loads) # 0 => Len(t.candidates) < Len(Healthy)
    /\ Healthy[Len(t.candidates) + 1] \in S =>
           \A i \in 1 .. Len(t.loads) :
               t.loads[i] = FieldNow(Healthy[Len(t.candidates) + 1], i)
    /\ \A i \in 1 .. Len(t.candidates) :
           /\ t.candidates[i].backend = Healthy[i]
           /\ Healthy[i] \in S => t.candidates[i] = CandidateNow(d, Healthy[i])

\* The backends whose counters have not changed since the pick of r began.
Settled(r) == Backends \ moved[r]

TraceIInv ==
    \A r \in Requests :
        /\ Still(decision[r], pc[r], Settled(r))
        /\ Traced(trace[r], decision[r], pc[r], Settled(r))

CountersTyped == inflight \in [Backends -> Int] /\ kvProjected \in [Backends -> Int]
TracesTyped == trace \in [Requests -> Traces]

-----------------------------------------------------------------------------
\* Comparing scores.
LEMMA ProductsKeepOrder ==
    ASSUME NEW x \in Int, NEW y \in Int, NEW k \in Nat
    PROVE  /\ x =< y => x * k =< y * k
           /\ x < y /\ k # 0 => x * k < y * k
           /\ x * k < y * k => x < y
<1>0. x * k \in Int /\ y * k \in Int
    OBVIOUS
<1>1. ASSUME x =< y PROVE x * k =< y * k
    <2>1. PICK d \in Nat : y = x + d
        <3>1. y - x \in Nat /\ y = x + (y - x)
            BY <1>1
        <3> QED
            BY <3>1
    <2>2. y * k = x * k + d * k /\ d * k \in Nat
        BY <2>1
    <2> QED
        BY <1>0, <2>2
<1>2. ASSUME x < y, k # 0 PROVE x * k < y * k
    <2>1. PICK d \in Nat : y = (x + 1) + d
        <3>1. y - (x + 1) \in Nat /\ y = (x + 1) + (y - (x + 1))
            BY <1>2
        <3> QED
            BY <3>1
    <2>2. y * k = (x * k + k) + d * k /\ d * k \in Nat
        BY <2>1
    <2> QED
        BY <1>0, <1>2, <2>2
<1>3. ASSUME x * k < y * k, ~(x < y) PROVE FALSE
    <2>1. PICK d \in Nat : x = y + d
        <3>1. x - y \in Nat /\ x = y + (x - y)
            BY <1>3
        <3> QED
            BY <3>1
    <2>2. x * k = y * k + d * k /\ d * k \in Nat
        BY <2>1
    <2> QED
        BY <1>0, <1>3, <2>2
<1> QED
    BY <1>1, <1>2, <1>3

LEMMA SignOfProduct ==
    ASSUME NEW x \in Int, NEW k \in Nat \ {0}
    PROVE  (x * k < 0 <=> x < 0) /\ (0 < x * k <=> 0 < x)
<1>1. 0 * k = 0 /\ x * k \in Int
    OBVIOUS
<1>2. (x < 0 => x * k < 0 * k) /\ (x * k < 0 * k => x < 0)
    BY ProductsKeepOrder
<1>3. (0 < x => 0 * k < x * k) /\ (0 * k < x * k => 0 < x)
    BY ProductsKeepOrder
<1> QED
    BY <1>1, <1>2, <1>3

LEMMA LessCases ==
    ASSUME NEW u \in Scores, NEW v \in Scores
    PROVE  /\ u[1] \in Int /\ u[2] \in Nat /\ v[1] \in Int /\ v[2] \in Nat
           /\ u[2] # 0 /\ v[2] # 0 => (Less(u, v) <=> u[1] * v[2] < v[1] * u[2])
           /\ u[2] = 0 /\ v[2] # 0 => (Less(u, v) <=> u[1] < 0)
           /\ u[2] # 0 /\ v[2] = 0 => (Less(u, v) <=> 0 < v[1])
           /\ u[2] = 0 /\ v[2] = 0 => (Less(u, v) <=> u[1] < 0 /\ 0 < v[1])
           /\ u = NaN <=> u[1] = 0 /\ u[2] = 0
           /\ v = NaN <=> v[1] = 0 /\ v[2] = 0
<1>1. /\ u = <<u[1], u[2]>> /\ v = <<v[1], v[2]>>
      /\ u[1] \in Int /\ u[2] \in Nat /\ v[1] \in Int /\ v[2] \in Nat
    BY DEF Scores
<1>2. u = NaN <=> u[1] = 0 /\ u[2] = 0
    BY <1>1 DEF NaN
<1>3. v = NaN <=> v[1] = 0 /\ v[2] = 0
    BY <1>1 DEF NaN
<1>4. ASSUME u[2] # 0, v[2] # 0
      PROVE  Less(u, v) <=> u[1] * v[2] < v[1] * u[2]
    BY <1>4 DEF Less
<1>5. ASSUME u[2] = 0, v[2] # 0 PROVE Less(u, v) <=> u[1] < 0
    <2>1. v[1] * u[2] = 0 /\ (u[1] * v[2] < 0 <=> u[1] < 0)
        BY <1>1, <1>5, SignOfProduct
    <2> QED
        BY <1>5, <2>1 DEF Less
<1>6. ASSUME u[2] # 0, v[2] = 0 PROVE Less(u, v) <=> 0 < v[1]
    <2>1. u[1] * v[2] = 0 /\ (0 < v[1] * u[2] <=> 0 < v[1])
        BY <1>1, <1>6, SignOfProduct
    <2> QED
        BY <1>6, <2>1 DEF Less
<1>7. ASSUME u[2] = 0, v[2] = 0 PROVE Less(u, v) <=> u[1] < 0 /\ 0 < v[1]
    <2>1. u[1] * v[2] = 0 /\ v[1] * u[2] = 0
        BY <1>1, <1>7
    <2> QED
        BY <1>7, <2>1 DEF Less
<1> QED
    BY <1>1, <1>2, <1>3, <1>4, <1>5, <1>6, <1>7

\* On fractions of positive denominators.
LEMMA FractionsTransitive ==
    ASSUME NEW a \in Int, NEW b \in Nat \ {0}, NEW c \in Int, NEW d \in Nat \ {0},
           NEW e \in Int, NEW f \in Nat \ {0}, a * d < c * b, c * f =< e * d
    PROVE  a * f < e * b
<1>1. /\ a * d \in Int /\ c * b \in Int /\ c * f \in Int /\ e * d \in Int
      /\ a * f \in Int /\ e * b \in Int
    OBVIOUS
<1>2. (a * d) * f < (c * b) * f
    BY <1>1, ProductsKeepOrder
<1>3. (c * f) * b =< (e * d) * b
    BY <1>1, ProductsKeepOrder
<1>4. (a * f) * d = (a * d) * f /\ (c * b) * f = (c * f) * b /\ (e * d) * b = (e * b) * d
    OBVIOUS
<1>5. (a * f) * d \in Int /\ (c * f) * b \in Int /\ (e * b) * d \in Int
    BY <1>1
<1>6. (a * f) * d < (e * b) * d
    BY <1>2, <1>3, <1>4, <1>5
<1> QED
    BY <1>1, <1>6, ProductsKeepOrder

LEMMA LessTransitive ==
    ASSUME NEW u \in Scores, NEW v \in Scores, NEW w \in Scores, Less(u, v), Less(v, w)
    PROVE  Less(u, w)
<1>1. CASE u[2] # 0 /\ v[2] # 0 /\ w[2] # 0
    <2>1. u[1] * v[2] < v[1] * u[2] /\ v[1] * w[2] < w[1] * v[2]
        BY <1>1, LessCases
    <2>2. v[1] * w[2] =< w[1] * v[2]
        BY <2>1, LessCases
    <2>3. u[1] * w[2] < w[1] * u[2]
        BY <1>1, <2>1, <2>2, LessCases, FractionsTransitive
    <2> QED
        BY <1>1, <2>3, LessCases
<1>2. CASE v[2] = 0
    BY <1>2, LessCases
<1>3. CASE v[2] # 0 /\ (u[2] = 0 \/ w[2] = 0)
    BY <1>3, LessCases
<1> QED
    BY <1>1, <1>2, <1>3

\* Whatever is less than one of two equal scores is less than the other.
LEMMA LessThanSame ==
    ASSUME NEW u \in Scores, NEW v \in Scores, NEW w \in Scores, Less(u, v), Same(v, w)
    PROVE  Less(u, w)
<1>0. v # NaN /\ w # NaN /\ ~Less(v, w) /\ ~Less(w, v)
    BY DEF Same
<1>1. CASE v[2] # 0 /\ w[2] # 0
    <2>1. v[1] * w[2] =< w[1] * v[2]
        <3>1. ~(w[1] * v[2] < v[1] * w[2])
            BY <1>0, <1>1, LessCases
        <3>2. v[1] * w[2] \in Int /\ w[1] * v[2] \in Int
            BY LessCases
        <3> QED
            BY <3>1, <3>2
    <2>2. CASE u[2] # 0
        <3>1. u[1] * v[2] < v[1] * u[2]
            BY <1>1, <2>2, LessCases
        <3>2. u[1] * w[2] < w[1] * u[2]
            BY <1>1, <2>1, <2>2, <3>1, LessCases, FractionsTransitive
        <3> QED
            BY <1>1, <2>2, <3>2, LessCases
    <2>3. CASE u[2] = 0
        BY <1>1, <2>3, LessCases
    <2> QED
        BY <2>2, <2>3
<1>2. CASE v[2] = 0 /\ w[2] # 0
    BY <1>0, <1>2, LessCases
<1>3. CASE v[2] # 0 /\ w[2] = 0
    BY <1>0, <1>3, LessCases
<1>4. CASE v[2] = 0 /\ w[2] = 0
    BY <1>0, <1>4, LessCases
<1> QED
    BY <1>1, <1>2, <1>3, <1>4

LEMMA NotLessThanItself ==
    ASSUME NEW u \in Scores
    PROVE  ~Less(u, u) /\ (u # NaN => Same(u, u))
<1>1. ~Less(u, u)
    <2>1. u[1] * u[2] \in Int
        BY LessCases
    <2> QED
        BY <2>1, LessCases
<1> QED
    BY <1>1 DEF Same

LEMMA LessIsNumber ==
    ASSUME NEW u \in Scores, NEW v \in Scores, Less(u, v)
    PROVE  u # NaN /\ v # NaN
BY LessCases

\* What is neither less than infinity nor equal to it compares with nothing.
LEMMA NoTieNoNumber ==
    ASSUME NEW u \in Scores, ~Less(u, Infinity), ~Same(u, Infinity)
    PROVE  u = NaN
<1>1. Infinity \in Scores /\ Infinity[1] = 1 /\ Infinity[2] = 0 /\ Infinity # NaN
    BY DEF Infinity, Scores, NaN
<1>2. ~Less(Infinity, u)
    BY <1>1, LessCases
<1> QED
    BY <1>1, <1>2 DEF Same

LEMMA ScoreNowType ==
    ASSUME CountersTyped, NEW b \in Backends
    PROVE  OccupancyNow(b) \in Scores /\ ScoreNow(b) \in Scores
<1>1. inflight[b] \in Int /\ kvProjected[b] \in Int
    BY DEF CountersTyped
<1>2. OccupancyNow(b) \in Int \X (Nat \ {0})
    BY <1>1, OccupancyType DEF OccupancyNow
<1>3. PressureScore(OccupancyNow(b)) \in Scores
    BY <1>2, PressureScoreType
<1> QED
    BY <1>2, <1>3 DEF ScoreNow, Scores

-----------------------------------------------------------------------------
\* The loop of the scores skips nobody of the pool.
LEMMA ScoreFromFirst ==
    ASSUME NEW d, NEW i \in Nat \ {0}
    PROVE  \A k \in 1 .. Len(Healthy) :
               k >= i /\ Healthy[k] \in Pool(d) =>
                   /\ ScoreFrom(d, i).pc = "scoreSlot"
                   /\ ScoreFrom(d, i).at =< k
<1> SUFFICES ASSUME NEW k \in 1 .. Len(Healthy), k >= i, Healthy[k] \in Pool(d)
             PROVE  ScoreFrom(d, i).pc = "scoreSlot" /\ ScoreFrom(d, i).at =< k
    OBVIOUS
<1>1. k \in Remaining(d, i) /\ Remaining(d, i) # {}
    BY HealthyType DEF Remaining
<1>2. Remaining(d, i) \in SUBSET Nat
    BY HealthyType DEF Remaining
<1> DEFINE j == CHOOSE j \in Remaining(d, i) : \A x \in Remaining(d, i) : j =< x
<1>3. j \in Remaining(d, i) /\ \A x \in Remaining(d, i) : j =< x
    BY <1>1, <1>2, FirstPosition
<1>4. ScoreFrom(d, i) = [at |-> j, pc |-> "scoreSlot"]
    BY <1>1 DEF ScoreFrom
<1> HIDE DEF j
<1> QED
    BY <1>1, <1>3, <1>4

LEMMA StillGateKv ==
    ASSUME NEW S, NEW d \in Decisions, Still(d, "gateKv", S)
    PROVE  Still([d EXCEPT !.kvOk = KvOk(Healthy[d.at], Need(d))], "gateSlot", S)
<1> DEFINE e == [d EXCEPT !.kvOk = KvOk(Healthy[d.at], Need(d))]
<1>1. /\ e.eligible = d.eligible /\ e.at = d.at /\ e.prompt = d.prompt /\ e.est = d.est
      /\ e.kvOk = KvOk(Healthy[d.at], Need(d))
    BY DEF Decisions
<1> HIDE DEF e
<1>2. Need(e) = Need(d)
    BY <1>1 DEF Need
<1>3. \A b : Fits(e, b) <=> Fits(d, b)
    BY <1>2 DEF Fits
<1>4. GateSoFar(e, S)
    BY <1>1, <1>3 DEF Still, GateSoFar
<1> QED
    BY <1>1, <1>2, <1>4 DEF Still, e, Scoring

\* The eligible backends after the two loads of the one at d.at.
LEMMA GateOneMore ==
    ASSUME NEW S, NEW d \in Decisions, Still(d, "gateSlot", S),
           NEW E, E = IF d.kvOk /\ SlotOk(Healthy[d.at]) THEN d.eligible \cup {Healthy[d.at]}
                                                         ELSE d.eligible,
           NEW b \in S
    PROVE  b \in E <=> \E i \in 1 .. d.at : b = Healthy[i] /\ Fits(d, b)
<1>1. d.at \in 1 .. Len(Healthy) /\ d.at \in Nat /\ d.at >= 1
    BY HealthyType DEF Decisions
<1>2. b \in d.eligible <=> \E i \in 1 .. d.at - 1 : b = Healthy[i] /\ Fits(d, b)
    BY DEF Still, GateSoFar
<1>3. b = Healthy[d.at] => (d.kvOk /\ SlotOk(Healthy[d.at]) <=> Fits(d, b))
    BY DEF Still, Fits
<1>4. \A i \in 1 .. d.at : i \in 1 .. d.at - 1 \/ i = d.at
    BY <1>1
<1>5. \A i \in 1 .. d.at - 1 : i \in 1 .. d.at
    BY <1>1
<1>6. d.at \in 1 .. d.at
    BY <1>1
<1>7. b \in E <=> b \in d.eligible \/ (b = Healthy[d.at] /\ Fits(d, b))
    BY <1>3
<1> HIDE DEF Fits
<1> QED
    BY <1>2, <1>4, <1>5, <1>6, <1>7, Zenon

LEMMA StillGateMore ==
    ASSUME NEW S, NEW d \in Decisions, Still(d, "gateSlot", S), d.at < Len(Healthy),
           NEW E, E = IF d.kvOk /\ SlotOk(Healthy[d.at]) THEN d.eligible \cup {Healthy[d.at]}
                                                         ELSE d.eligible
    PROVE  Still([d EXCEPT !.eligible = E, !.kvOk = FALSE, !.at = @ + 1], "gateKv", S)
<1> DEFINE e == [d EXCEPT !.eligible = E, !.kvOk = FALSE, !.at = @ + 1]
<1>1. /\ e.eligible = E /\ e.at = d.at + 1 /\ e.prompt = d.prompt /\ e.est = d.est
      /\ d.at \in Int
    BY HealthyType DEF Decisions
<1> HIDE DEF e
<1>2. Need(e) = Need(d)
    BY <1>1 DEF Need
<1>3. \A b : Fits(e, b) <=> Fits(d, b)
    BY <1>2 DEF Fits
<1>4. e.at - 1 = d.at
    BY <1>1
<1>5. \A b \in S : b \in E <=> \E i \in 1 .. d.at : b = Healthy[i] /\ Fits(d, b)
    BY GateOneMore
<1>6. GateSoFar(e, S)
    BY <1>1, <1>3, <1>4, <1>5 DEF GateSoFar
<1> QED
    BY <1>6 DEF Still, Scoring, e

LEMMA StillGateLast ==
    ASSUME NEW S, NEW d \in Decisions, Still(d, "gateSlot", S), ~(d.at < Len(Healthy)),
           d.ties = {}, d.minScore = Infinity, d.eligible \subseteq AllHealthy,
           NEW E, E = IF d.kvOk /\ SlotOk(Healthy[d.at]) THEN d.eligible \cup {Healthy[d.at]}
                                                         ELSE d.eligible,
           NEW gated, gated = [d EXCEPT !.eligible = E, !.kvOk = FALSE, !.fellThrough = E = {}],
           NEW next, next = ScoreFrom(gated, 1)
    PROVE  Still([gated EXCEPT !.at = next.at], next.pc, S)
<1> DEFINE e == [gated EXCEPT !.at = next.at]
<1>0. d.at = Len(Healthy) /\ Healthy[d.at] \in AllHealthy
    BY HealthyType DEF Decisions, AllHealthy
<1>1. /\ gated.eligible = E /\ gated.fellThrough = (E = {}) /\ gated.ties = {}
      /\ gated.minScore = Infinity /\ gated.prompt = d.prompt /\ gated.est = d.est
    BY DEF Decisions
<1>2. /\ e.eligible = E /\ e.fellThrough = (E = {}) /\ e.ties = {}
      /\ e.minScore = Infinity /\ e.prompt = d.prompt /\ e.est = d.est /\ e.at = next.at
    BY DEF Decisions
<1> HIDE DEF e
<1>3. Need(e) = Need(d) /\ Pool(e) = Pool(gated)
    BY <1>1, <1>2 DEF Need, Pool
<1>4. \A b : Fits(e, b) <=> Fits(d, b)
    BY <1>3 DEF Fits
<1>5. \A b \in S : b \in E <=> \E i \in 1 .. d.at : b = Healthy[i] /\ Fits(d, b)
    BY GateOneMore
<1>6. GateDone(e, S)
    <2>1. ASSUME NEW b \in S, b \in AllHealthy PROVE b \in e.eligible <=> Fits(e, b)
        <3>1. PICK i \in 1 .. d.at : b = Healthy[i]
            BY <2>1, <1>0 DEF AllHealthy
        <3> QED
            BY <3>1, <1>2, <1>4, <1>5
    <2> QED
        BY <2>1, <1>2 DEF GateDone
<1>7. next.at \in 1 .. Len(Healthy) /\ next.pc \in {"pick", "scoreSlot"}
    BY ScoreFromResult
<1>11. Pool(gated) # {} /\ Pool(gated) \subseteq AllHealthy
    <2>1. E \subseteq AllHealthy
        BY <1>0
    <2> QED
        BY <1>1, <2>1, HealthyType DEF Pool
<1>12. next.pc = "scoreSlot"
    <2>1. PICK b \in Pool(gated) : TRUE
        BY <1>11
    <2>2. PICK k \in 1 .. Len(Healthy) : b = Healthy[k]
        BY <1>11 DEF AllHealthy
    <2>3. k >= 1
        BY <2>2, HealthyType
    <2> QED
        BY <2>1, <2>2, <2>3, ScoreFromFirst
<1>8. ScoreSoFar(e, S)
    <2>1. ASSUME NEW i \in 1 .. e.at - 1, Healthy[i] \in Pool(e) PROVE FALSE
        <3>1. i \in 1 .. Len(Healthy) /\ i >= 1 /\ ~(next.at =< i)
            BY <1>2, <1>7, HealthyType
        <3>2. next.at =< i
            BY <2>1, <1>3, <3>1, ScoreFromFirst
        <3> QED
            BY <3>1, <3>2
    <2> QED
        BY <2>1, <1>2 DEF ScoreSoFar
<1>10. Still(e, next.pc, S)
    BY <1>6, <1>8, <1>12 DEF Still, Scoring
<1> QED
    BY <1>10 DEF e

LEMMA StillScoreSlot ==
    ASSUME NEW S, NEW d \in Decisions, Still(d, "scoreSlot", S)
    PROVE  Still([d EXCEPT !.n = inflight[Healthy[d.at]]], "scoreKv", S)
<1> DEFINE e == [d EXCEPT !.n = inflight[Healthy[d.at]]]
<1>1. /\ e.eligible = d.eligible /\ e.at = d.at /\ e.prompt = d.prompt /\ e.est = d.est
      /\ e.fellThrough = d.fellThrough /\ e.minScore = d.minScore /\ e.ties = d.ties
      /\ e.n = inflight[Healthy[d.at]]
    BY DEF Decisions
<1> HIDE DEF e
<1>2. Need(e) = Need(d) /\ Pool(e) = Pool(d)
    BY <1>1 DEF Need, Pool
<1>3. \A b : Fits(e, b) <=> Fits(d, b)
    BY <1>2 DEF Fits
<1>4. GateDone(d, S) /\ ScoreSoFar(d, S)
    BY DEF Still, Scoring
<1>5. GateDone(e, S)
    BY <1>1, <1>3, <1>4 DEF GateDone
<1>6. ScoreSoFar(e, S)
    BY <1>1, <1>2, <1>4 DEF ScoreSoFar
<1> QED
    BY <1>1, <1>5, <1>6 DEF Still, Scoring, e

\* s is what decision d becomes with the score of the backend at d.at.
ScoredUpTo(d, s, S) ==
    /\ s.minScore \in Scores
    /\ \A i \in 1 .. d.at :
           Healthy[i] \in Pool(d) /\ Healthy[i] \in S =>
               /\ ~Less(ScoreNow(Healthy[i]), s.minScore)
               /\ s.ties = {} => ScoreNow(Healthy[i]) = NaN
    /\ \A x \in S : x \in s.ties => Same(ScoreNow(x), s.minScore)

Unscored(d) == d.ties = {} => d.minScore = Infinity

\* Comparing the score of one more backend with the minimum.
LEMMA ScoredOneMore ==
    ASSUME CountersTyped, NEW S \in SUBSET Backends, NEW d \in Decisions,
           ScoreSoFar(d, S), Unscored(d),
           NEW b, b = Healthy[d.at], NEW u \in Scores, b \in S => u = ScoreNow(b),
           NEW s, s = Scored(d, b, u)
    PROVE  ScoredUpTo(d, s, S)
<1>0. d.minScore \in Scores /\ d.at \in 1 .. Len(Healthy) /\ d.at \in Nat
    BY HealthyType DEF Decisions
<1>1. /\ \A i \in 1 .. d.at - 1 :
             Healthy[i] \in Pool(d) /\ Healthy[i] \in S =>
                 /\ ~Less(ScoreNow(Healthy[i]), d.minScore)
                 /\ d.ties = {} => ScoreNow(Healthy[i]) = NaN
      /\ \A x \in S : x \in d.ties => Same(ScoreNow(x), d.minScore)
    BY DEF ScoreSoFar
<1>2. \A x \in S : ScoreNow(x) \in Scores
    BY ScoreNowType
<1>3. \A i \in 1 .. d.at : i \in 1 .. d.at - 1 \/ Healthy[i] = b
    BY <1>0
<1>4. ~Less(u, u)
    BY NotLessThanItself
<1>5. CASE Less(u, d.minScore)
    <2>1. s.ties = {b} /\ s.minScore = u
        BY <1>5 DEF Scored, Decisions
    <2>2. Same(u, u)
        BY <1>0, <1>5, NotLessThanItself, LessIsNumber
    <2>3. ASSUME NEW i \in 1 .. d.at, Healthy[i] \in Pool(d), Healthy[i] \in S
          PROVE  ~Less(ScoreNow(Healthy[i]), u)
        <3>1. PICK v \in Scores : v = ScoreNow(Healthy[i])
            BY <1>2, <2>3
        <3>2. CASE i \in 1 .. d.at - 1
            <4>1. ~Less(v, d.minScore)
                BY <1>1, <2>3, <3>1, <3>2
            <4> QED
                BY <1>0, <1>5, <3>1, <4>1, LessTransitive
        <3>3. CASE Healthy[i] = b
            BY <1>4, <2>3, <3>3
        <3> QED
            BY <1>3, <3>2, <3>3
    <2> QED
        BY <2>1, <2>2, <2>3 DEF ScoredUpTo
<1>6. CASE ~Less(u, d.minScore) /\ Same(u, d.minScore)
    <2>1. s.ties = d.ties \cup {b} /\ s.minScore = d.minScore
        BY <1>6 DEF Scored, Decisions
    <2>2. ASSUME NEW i \in 1 .. d.at, Healthy[i] \in Pool(d), Healthy[i] \in S
          PROVE  ~Less(ScoreNow(Healthy[i]), d.minScore)
        BY <1>1, <1>3, <1>6, <2>2
    <2>3. s.ties # {}
        BY <2>1
    <2>4. \A x \in S : x \in s.ties => Same(ScoreNow(x), d.minScore)
        BY <1>1, <1>6, <2>1
    <2> QED
        BY <1>0, <2>1, <2>2, <2>3, <2>4 DEF ScoredUpTo
<1>7. CASE ~Less(u, d.minScore) /\ ~Same(u, d.minScore)
    <2>1. s = d
        BY <1>7 DEF Scored
    <2>2. d.ties = {} => u = NaN
        BY <1>7, NoTieNoNumber DEF Unscored
    <2>3. ASSUME NEW i \in 1 .. d.at, Healthy[i] \in Pool(d), Healthy[i] \in S
          PROVE  /\ ~Less(ScoreNow(Healthy[i]), d.minScore)
                 /\ d.ties = {} => ScoreNow(Healthy[i]) = NaN
        BY <1>1, <1>3, <1>7, <2>2, <2>3
    <2> QED
        BY <1>0, <1>1, <2>1, <2>3 DEF ScoredUpTo
<1> QED
    BY <1>5, <1>6, <1>7

LEMMA StillScoreKv ==
    ASSUME CountersTyped, NEW S \in SUBSET Backends, NEW d \in Decisions,
           Still(d, "scoreKv", S), Unscored(d),
           d.ties \subseteq AllHealthy, d.eligible \subseteq AllHealthy,
           NEW b, b = Healthy[d.at],
           NEW u, u = PressureScore(Occupancy(b, d.n, kvProjected[b])),
           NEW s, s = Scored(d, b, u),
           NEW next, next = ScoreFrom(d, d.at + 1)
    PROVE  Still([s EXCEPT !.at = next.at, !.n = 0,
                           !.minScore = IF next.pc = "pick" THEN Infinity ELSE @],
                 next.pc, S)
<1> DEFINE e == [s EXCEPT !.at = next.at, !.n = 0,
                          !.minScore = IF next.pc = "pick" THEN Infinity ELSE @]
<1> HIDE DEF e
<1>0. d.at \in 1 .. Len(Healthy) /\ d.at + 1 \in Nat \ {0} /\ b \in Backends
    BY HealthyType DEF Decisions
<1>1. GateDone(d, S) /\ ScoreSoFar(d, S) /\ (b \in S => d.n = inflight[b])
    BY DEF Still, Scoring
<1>2. u \in Scores /\ (b \in S => u = ScoreNow(b))
    <2>1. d.n \in Int /\ kvProjected[b] \in Int
        BY <1>0 DEF Decisions, CountersTyped
    <2>2. u \in Scores
        BY <1>0, <2>1, OccupancyType, PressureScoreType
    <2> QED
        BY <1>1, <2>2 DEF ScoreNow, OccupancyNow
<1>13. ScoredUpTo(d, s, S)
    <2>1. ScoreSoFar(d, S) /\ u \in Scores /\ (b \in S => u = ScoreNow(b))
        BY <1>1, <1>2
    <2> QED
        BY <2>1, ScoredOneMore, Zenon
<1>3. /\ s.minScore \in Scores
      /\ \A i \in 1 .. d.at :
             Healthy[i] \in Pool(d) /\ Healthy[i] \in S =>
                 /\ ~Less(ScoreNow(Healthy[i]), s.minScore)
                 /\ s.ties = {} => ScoreNow(Healthy[i]) = NaN
      /\ \A x \in S : x \in s.ties => Same(ScoreNow(x), s.minScore)
    BY <1>13 DEF ScoredUpTo
<1>4. /\ e.eligible = d.eligible /\ e.fellThrough = d.fellThrough
      /\ e.prompt = d.prompt /\ e.est = d.est
      /\ e.at = next.at /\ e.ties = s.ties
      /\ e.minScore = IF next.pc = "pick" THEN Infinity ELSE s.minScore
    BY DEF Scored, Decisions, e
<1>5. Need(e) = Need(d) /\ Pool(e) = Pool(d)
    BY <1>4 DEF Need, Pool
<1>6. GateDone(e, S)
    BY <1>1, <1>4, <1>5 DEF GateDone, Fits
<1>7. next.at \in 1 .. Len(Healthy) /\ next.pc \in {"pick", "scoreSlot"}
    BY <1>0, ScoreFromResult
<1>8. ASSUME next.pc = "scoreSlot" PROVE ScoreSoFar(e, S)
    <2>1. ASSUME NEW i \in 1 .. e.at - 1, Healthy[i] \in Pool(e), Healthy[i] \in S
          PROVE  /\ ~Less(ScoreNow(Healthy[i]), e.minScore)
                 /\ e.ties = {} => ScoreNow(Healthy[i]) = NaN
        <3>1. i \in 1 .. Len(Healthy) /\ ~(next.at =< i)
            BY <1>4, <1>7, HealthyType
        <3>2. i =< d.at
            BY <2>1, <1>0, <1>5, <3>1, ScoreFromFirst
        <3>3. i \in 1 .. d.at /\ Healthy[i] \in Pool(d)
            BY <2>1, <3>1, <3>2, <1>5, <1>0
        <3> QED
            BY <2>1, <3>3, <1>3, <1>4, <1>8
    <2> QED
        BY <2>1, <1>3, <1>4, <1>8 DEF ScoreSoFar
<1>9. ASSUME next.pc = "pick" PROVE ScoreDone(e, S)
    <2>1. ASSUME NEW c \in S, c \in Pool(e)
          PROVE  ~Less(ScoreNow(c), s.minScore) /\ (s.ties = {} => ScoreNow(c) = NaN)
        <3>1. c \in AllHealthy
            BY <2>1, <1>5 DEF Pool
        <3>2. PICK i \in 1 .. Len(Healthy) : c = Healthy[i]
            BY <3>1 DEF AllHealthy
        <3>3. i =< d.at
            BY <2>1, <1>0, <1>5, <1>9, <3>2, ScoreFromFirst
        <3>4. i \in 1 .. d.at
            BY <3>2, <3>3, <1>0
        <3> QED
            BY <1>3, <1>5, <2>1, <3>2, <3>4
    <2>2. ASSUME NEW x \in S, x \in e.ties
          PROVE  /\ ScoreNow(x) # NaN
                 /\ \A c \in S : c \in Pool(e) => ~Less(ScoreNow(c), ScoreNow(x))
        <3>1. Same(ScoreNow(x), s.minScore)
            BY <2>2, <1>3, <1>4
        <3>2. ASSUME NEW c \in S, c \in Pool(e), Less(ScoreNow(c), ScoreNow(x)) PROVE FALSE
            <4>1. ScoreNow(c) \in Scores /\ ScoreNow(x) \in Scores
                BY ScoreNowType
            <4>2. Less(ScoreNow(c), s.minScore)
                BY <1>3, <3>1, <3>2, <4>1, LessThanSame
            <4> QED
                BY <2>1, <3>2, <4>2
        <3>3. ScoreNow(x) # NaN
            BY <3>1 DEF Same
        <3> QED
            BY <3>2, <3>3
    <2> QED
        BY <2>1, <2>2, <1>4 DEF ScoreDone
<1>10. Still(e, next.pc, S)
    BY <1>6, <1>7, <1>8, <1>9 DEF Still, Scoring
<1> QED
    BY <1>10 DEF e

-----------------------------------------------------------------------------
\* What is known of a backend is known as long as its counters stay the same.
Kept(T) == \A b \in T : inflight'[b] = inflight[b] /\ kvProjected'[b] = kvProjected[b]

LEMMA KeptTells ==
    ASSUME NEW T, Kept(T), NEW b \in T
    PROVE  /\ OccupancyNow(b)' = OccupancyNow(b) /\ ScoreNow(b)' = ScoreNow(b)
           /\ \A d : Fits(d, b)' <=> Fits(d, b)
           /\ \A need : KvOk(b, need)' = KvOk(b, need)
           /\ \A i : FieldNow(b, i)' = FieldNow(b, i)
           /\ \A d : CandidateNow(d, b)' = CandidateNow(d, b)
<1>1. inflight'[b] = inflight[b] /\ kvProjected'[b] = kvProjected[b]
    BY DEF Kept
<1>2. OccupancyNow(b)' = OccupancyNow(b)
    BY <1>1 DEF OccupancyNow, Occupancy
<1>3. ScoreNow(b)' = ScoreNow(b)
    BY <1>2 DEF ScoreNow, PressureScore
<1>4. \A need : KvOk(b, need)' = KvOk(b, need)
    BY <1>1 DEF KvOk
<1>5. \A d : Fits(d, b)' <=> Fits(d, b)
    BY <1>1 DEF Fits, KvOk, SlotOk
<1>6. \A i : FieldNow(b, i)' = FieldNow(b, i)
    BY <1>1 DEF FieldNow
<1>7. \A d : CandidateNow(d, b)' = CandidateNow(d, b)
    BY <1>1, <1>2, <1>3 DEF CandidateNow, GatedBy
<1> QED
    BY <1>2, <1>3, <1>4, <1>5, <1>6, <1>7

LEMMA StillStays ==
    ASSUME NEW d, NEW place, NEW S, NEW T \in SUBSET S, Still(d, place, S), Kept(T)
    PROVE  Still(d, place, T)'
<1>1. GateSoFar(d, S) => GateSoFar(d, T)'
    BY KeptTells DEF GateSoFar
<1>2. GateDone(d, S) => GateDone(d, T)'
    BY KeptTells DEF GateDone
<1>3. ScoreSoFar(d, S) => ScoreSoFar(d, T)'
    BY KeptTells DEF ScoreSoFar
<1>4. ScoreDone(d, S) => ScoreDone(d, T)'
    BY KeptTells DEF ScoreDone
<1>5. Healthy[d.at] \in T =>
          /\ Healthy[d.at] \in S
          /\ KvOk(Healthy[d.at], Need(d))' = KvOk(Healthy[d.at], Need(d))
          /\ inflight'[Healthy[d.at]] = inflight[Healthy[d.at]]
    BY KeptTells DEF Kept
<1> QED
    BY <1>1, <1>2, <1>3, <1>4, <1>5 DEF Still

LEMMA TracedStays ==
    ASSUME NEW t, NEW d, NEW place, NEW S, NEW T \in SUBSET S,
           Traced(t, d, place, S), Kept(T)
    PROVE  Traced(t, d, place, T)'
<1> DEFINE b == Healthy[Len(t.candidates) + 1]
<1>1. b \in T => \A i \in 1 .. Len(t.loads) : t.loads[i] = FieldNow(b, i)'
    <2>1. b \in T => \A i \in 1 .. Len(t.loads) : t.loads[i] = FieldNow(b, i)
        BY DEF Traced
    <2> HIDE DEF b
    <2> QED
        BY <2>1, KeptTells
<1>2. ASSUME NEW i \in 1 .. Len(t.candidates)
      PROVE  /\ t.candidates[i].backend = Healthy[i]
             /\ Healthy[i] \in T => t.candidates[i] = CandidateNow(d, Healthy[i])'
    <2>1. /\ t.candidates[i].backend = Healthy[i]
          /\ Healthy[i] \in S => t.candidates[i] = CandidateNow(d, Healthy[i])
        BY DEF Traced
    <2> QED
        BY <2>1, KeptTells
<1> QED
    BY <1>1, <1>2 DEF Traced

LEMMA StillElsewhere ==
    ASSUME NEW d, NEW place, NEW S, place \notin Picking
    PROVE  Still(d, place, S) /\ Still(d, place, S)'
BY DEF Still, Picking, Scoring

LEMMA TracedNothing ==
    ASSUME NEW d, NEW place, NEW S
    PROVE  Traced(NoTrace, d, place, S) /\ Traced(NoTrace, d, place, S)'
<1>1. /\ NoTrace \in Traces /\ NoTrace.begun = FALSE
      /\ Len(NoTrace.loads) = 0 /\ Len(NoTrace.candidates) = 0
    BY DEF NoTrace, Traces
<1>2. Len(Fields) = 5
    BY DEF Fields
<1> QED
    BY <1>1, <1>2, HealthyType DEF Traced

\* The steps of a trace.
LEMMA TraceCases ==
    ASSUME TraceNext
    PROVE  \E r \in Requests :
               /\ \/ Choose(r)
                  \/ TraceLoad(r)
                  \/ PickTraced(r)
                  \/ PathStep(r) /\ pc[r] # "pick" /\ UNCHANGED trace
               /\ moved' = [x \in Requests |->
                     IF pc'[x] \in Picking THEN moved[x] \cup Changed ELSE {}]
<1>1. PICK r \in Requests :
          \/ Noted(ComputeTraced(r))
          \/ Noted(Untraced(Accept(r) \/ EndReading(r) \/ EndConnecting(r) \/ Content(r)
                            \/ EndBody(r) \/ Reuse(r)))
    BY DEF TraceNext
<1>2. moved' = [x \in Requests |->
                   IF pc'[x] \in Picking THEN moved[x] \cup Changed ELSE {}]
    BY <1>1 DEF Noted
<1>3. \/ ComputeTraced(r)
      \/ Untraced(Accept(r) \/ EndReading(r) \/ EndConnecting(r) \/ Content(r)
                  \/ EndBody(r) \/ Reuse(r))
    BY <1>1 DEF Noted
<1>4. \/ Choose(r) \/ TraceLoad(r) \/ PickTraced(r)
      \/ PathStep(r) /\ pc[r] # "pick" /\ UNCHANGED trace
    BY <1>3 DEF ComputeTraced, Untraced, PathStep, Compute, EndReading, EndConnecting,
       Decide, GateKv, GateSlot, ScoreSlot, ScoreKv, Open, Accept, RejectBody,
       StartDispatch, BuildFails, DispatchFails, Respond, Content, EndBody,
       ClientLeaves, Release, Finish, Reuse
<1> QED
    BY <1>2, <1>4

\* Recording the trace changes nothing of the request path.
LEMMA TraceRefines == TraceSpec => PathSpec
<1>1. TraceInit => PathInit
    BY DEF TraceInit
<1>2. [TraceNext]_traceVars => [PathNext]_pathVars
    <2>1. ASSUME TraceNext PROVE [PathNext]_pathVars
        <3>1. PICK r \in Requests :
                  \/ Choose(r) \/ TraceLoad(r) \/ PickTraced(r) \/ PathStep(r)
            BY <2>1, TraceCases
        <3>2. CASE Choose(r)
            BY <3>2 DEF Choose
        <3>3. CASE TraceLoad(r)
            BY <3>3 DEF TraceLoad
        <3>4. CASE PickTraced(r)
            BY <3>4 DEF PickTraced, PathNext, PathStep, Compute
        <3>5. CASE PathStep(r)
            BY <3>5 DEF PathNext
        <3> QED
            BY <3>1, <3>2, <3>3, <3>4, <3>5
    <2> QED
        BY <2>1 DEF traceVars, pathVars
<1> QED
    BY <1>1, <1>2, PTL DEF TraceSpec, PathSpec

\* One step of the decision.
LEMMA DecidingStep ==
    ASSUME PathIInv, CountersTyped, NEW r \in Requests, PathStep(r), pc[r] # "pick",
           NEW S \in SUBSET Backends, Still(decision[r], pc[r], S),
           NEW e, e = decision'[r], NEW q, q = pc'[r]
    PROVE  Still(e, q, S)
<1>1. pc \in [Requests -> Places] /\ decision \in [Requests -> Decisions]
    BY DEF PathIInv, PathTypes
<1>2. PICK d \in Decisions, p \in Places : d = decision[r] /\ p = pc[r]
    BY <1>1
<1>4. Still(d, p, S) /\ DecisionOK(r)
    BY <1>2 DEF PathIInv, RequestOK
<1>5. d.ties \subseteq AllHealthy /\ d.eligible \subseteq AllHealthy
    BY <1>2, <1>4 DEF DecisionOK, Pool
<1>7. CASE \E x \in Prompts, o \in Estimates : Decide(r, x, o)
    <2>1. q = "gateKv" /\ e.at = 1 /\ e.eligible = {}
        BY <1>1, <1>7 DEF Decide, GoTo, NoDecision
    <2>2. GateSoFar(e, S)
        BY <2>1 DEF GateSoFar
    <2> QED
        BY <2>1, <2>2 DEF Still, Scoring
<1>8. CASE GateKv(r)
    <2>1. /\ e = [d EXCEPT !.kvOk = KvOk(Healthy[d.at], Need(d))]
          /\ p = "gateKv" /\ q = "gateSlot"
        BY <1>1, <1>2, <1>8 DEF GateKv, GoTo
    <2> QED
        BY <1>4, <2>1, StillGateKv
<1>9. CASE GateSlot(r)
    <2> DEFINE E == IF d.kvOk /\ SlotOk(Healthy[d.at]) THEN d.eligible \cup {Healthy[d.at]}
                                                       ELSE d.eligible
               gated == [d EXCEPT !.eligible = E, !.kvOk = FALSE, !.fellThrough = E = {}]
               next == ScoreFrom(gated, 1)
    <2>1. /\ p = "gateSlot"
          /\ IF d.at < Len(Healthy)
             THEN e = [d EXCEPT !.eligible = E, !.kvOk = FALSE, !.at = @ + 1] /\ q = "gateKv"
             ELSE e = [gated EXCEPT !.at = next.at] /\ q = next.pc
        BY <1>1, <1>2, <1>9 DEF GateSlot, GoTo
    <2>2. d.ties = {} /\ d.minScore = Infinity
        BY <1>2, <1>4, <2>1 DEF DecisionOK
    <2> HIDE DEF E, gated, next
    <2>5. E = IF d.kvOk /\ SlotOk(Healthy[d.at]) THEN d.eligible \cup {Healthy[d.at]}
                                                 ELSE d.eligible
        BY DEF E
    <2>6. Still(d, "gateSlot", S)
        BY <1>4, <2>1
    <2>3. CASE d.at < Len(Healthy)
        <3>1. Still([d EXCEPT !.eligible = E, !.kvOk = FALSE, !.at = @ + 1], "gateKv", S)
            BY <2>3, <2>5, <2>6, StillGateMore
        <3> QED
            BY <2>1, <2>3, <3>1
    <2>4. CASE ~(d.at < Len(Healthy))
        <3>1. Still([gated EXCEPT !.at = next.at], next.pc, S)
            <4>2. gated = [d EXCEPT !.eligible = E, !.kvOk = FALSE, !.fellThrough = E = {}]
                BY DEF gated
            <4>3. next = ScoreFrom(gated, 1)
                BY DEF next
            <4> QED
                BY <1>5, <2>2, <2>4, <2>5, <2>6, <4>2, <4>3, StillGateLast
        <3> QED
            BY <2>1, <2>4, <3>1
    <2> QED
        BY <2>3, <2>4
<1>10. CASE ScoreSlot(r)
    <2>1. /\ e = [d EXCEPT !.n = inflight[Healthy[d.at]]]
          /\ p = "scoreSlot" /\ q = "scoreKv"
        BY <1>1, <1>2, <1>10 DEF ScoreSlot, GoTo
    <2> QED
        BY <1>4, <2>1, StillScoreSlot
<1>11. CASE ScoreKv(r)
    <2> DEFINE b == Healthy[d.at]
               u == PressureScore(Occupancy(b, d.n, kvProjected[b]))
               s == Scored(d, b, u)
               next == ScoreFrom(d, d.at + 1)
    <2>1. /\ e = [s EXCEPT !.at = next.at, !.n = 0,
                           !.minScore = IF next.pc = "pick" THEN Infinity ELSE @]
          /\ p = "scoreKv" /\ q = next.pc
        BY <1>1, <1>2, <1>11 DEF ScoreKv, GoTo
    <2>2. Unscored(d)
        BY <1>2, <1>4, <2>1 DEF DecisionOK, Scoring, Unscored
    <2>3. b = Healthy[d.at] /\ u = PressureScore(Occupancy(b, d.n, kvProjected[b]))
          /\ s = Scored(d, b, u) /\ next = ScoreFrom(d, d.at + 1)
        OBVIOUS
    <2>4. b = Healthy[d.at]
        OBVIOUS
    <2>5. Still(d, "scoreKv", S)
        BY <1>4, <2>1
    <2> HIDE DEF b, u, s, next
    <2>6. Still([s EXCEPT !.at = next.at, !.n = 0,
                          !.minScore = IF next.pc = "pick" THEN Infinity ELSE @],
                next.pc, S)
        BY <1>5, <2>2, <2>3, <2>4, <2>5, StillScoreKv, Zenon
    <2> QED
        BY <2>1, <2>6
<1>12. CASE /\ ~ \E x \in Prompts, o \in Estimates : Decide(r, x, o)
            /\ ~GateKv(r) /\ ~GateSlot(r) /\ ~ScoreSlot(r) /\ ~ScoreKv(r)
    <2>1. q \notin Picking
        <3>1. \/ Accept(r) \/ RejectBody(r) \/ Open(r) \/ StartDispatch(r) \/ BuildFails(r)
              \/ Release(r) \/ Finish(r) \/ EndConnecting(r) \/ Content(r) \/ EndBody(r)
              \/ Reuse(r)
            BY <1>12 DEF PathStep, Compute, EndReading, Pick, Refuse
        <3> QED
            BY <1>1, <3>1 DEF Picking, GoTo, EndConnecting, Open, Accept, RejectBody,
               StartDispatch, BuildFails, DispatchFails, Respond, Content, EndBody,
               ClientLeaves, Release, Finish, Reuse
    <2> QED
        BY <2>1, StillElsewhere
<1> QED
    BY <1>7, <1>8, <1>9, <1>10, <1>11, <1>12

LEMMA CandidateNowType ==
    ASSUME CountersTyped, NEW d, NEW b \in Backends
    PROVE  CandidateNow(d, b) \in CandidateScores
<1>1. inflight[b] \in Int /\ kvProjected[b] \in Int
    BY DEF CountersTyped
<1>2. OccupancyNow(b) \in Scores /\ ScoreNow(b) \in Scores
    BY ScoreNowType
<1>3. GatedBy(d, b, kvProjected[b]) \in Reasons
    BY DEF GatedBy, Reasons
<1> QED
    BY <1>1, <1>2, <1>3 DEF CandidateNow, CandidateScores

\* What is written of backend b from these loads, ...
Written(d, b, loads) ==
    [backend |-> b, occupancy |-> Occupancy(b, loads[1], loads[2]),
     score |-> PressureScore(Occupancy(b, loads[1], loads[2])),
     gated_by |-> GatedBy(d, b, loads[3]),
     inflight |-> loads[4], kv_projected |-> loads[5]]

LEMMA WrittenType ==
    ASSUME NEW d, NEW b \in Backends, NEW loads, \A i \in 1 .. 5 : loads[i] \in Int
    PROVE  Written(d, b, loads) \in CandidateScores /\ Written(d, b, loads).backend = b
<1>1. /\ loads[1] \in Int /\ loads[2] \in Int /\ loads[3] \in Int
      /\ loads[4] \in Int /\ loads[5] \in Int
    OBVIOUS
<1>2. Occupancy(b, loads[1], loads[2]) \in Int \X (Nat \ {0})
    BY <1>1, OccupancyType
<1>3. PressureScore(Occupancy(b, loads[1], loads[2])) \in Scores
    BY <1>2, PressureScoreType
<1>4. Occupancy(b, loads[1], loads[2]) \in Scores
    BY <1>2 DEF Scores
<1>5. GatedBy(d, b, loads[3]) \in Reasons
    BY DEF GatedBy, Reasons
<1> QED
    BY <1>1, <1>3, <1>4, <1>5 DEF Written, CandidateScores

\* ... and after one load more.
LEMMA LoadStep ==
    ASSUME CountersTyped, NEW S \in SUBSET Backends, NEW d, NEW t, NEW u,
           Traced(t, d, "pick", S), t.begun, Len(t.candidates) < Len(Healthy),
           NEW b, b = Healthy[Len(t.candidates) + 1],
           NEW loads, loads = Append(t.loads, FieldNow(b, Len(t.loads) + 1)),
           u = IF Len(loads) < Len(Fields) THEN [t EXCEPT !.loads = loads]
               ELSE [t EXCEPT !.loads = << >>,
                              !.candidates = Append(@, Written(d, b, loads))]
    PROVE  Traced(u, d, "pick", S)
<1> DEFINE n == Len(t.loads)
           k == Len(t.candidates)
<1>1. /\ t \in Traces
      /\ t.chosen \in d.ties \/ (t.chosen = NoBackend /\ d.ties = {})
      /\ n \in Nat /\ k \in Nat /\ n < 5 /\ Len(Fields) = 5
      /\ b \in S => \A i \in 1 .. n : t.loads[i] = FieldNow(b, i)
      /\ \A i \in 1 .. k :
             /\ t.candidates[i].backend = Healthy[i]
             /\ Healthy[i] \in S => t.candidates[i] = CandidateNow(d, Healthy[i])
    BY DEF Traced, Traces, Fields
<1>2. /\ t.loads \in Seq(Int) /\ t.candidates \in Seq(CandidateScores)
      /\ t.chosen \in Backends \cup {NoBackend}
    BY <1>1 DEF Traces
<1>3. k + 1 \in 1 .. Len(Healthy) /\ b \in Backends
    BY <1>1, HealthyType
<1>4. \A i : FieldNow(b, i) \in Int
    BY <1>3 DEF FieldNow, CountersTyped
<1>5. /\ loads \in Seq(Int) /\ Len(loads) = n + 1
      /\ b \in S => \A i \in 1 .. n + 1 : loads[i] = FieldNow(b, i)
    <2>1. loads \in Seq(Int) /\ Len(loads) = n + 1 /\ loads[n + 1] = FieldNow(b, n + 1)
        BY <1>2, <1>4
    <2>2. ASSUME b \in S, NEW i \in 1 .. n PROVE loads[i] = FieldNow(b, i)
        <3>1. loads[i] = t.loads[i]
            BY <1>2
        <3> QED
            BY <2>2, <3>1, <1>1
    <2>3. \A i \in 1 .. n + 1 : i \in 1 .. n \/ i = n + 1
        BY <1>1
    <2> QED
        BY <2>1, <2>2, <2>3
<1>6. CASE n + 1 < 5
    <2>1. u = [t EXCEPT !.loads = loads]
        BY <1>1, <1>5, <1>6
    <2>2. /\ u \in Traces /\ u.begun = t.begun /\ u.chosen = t.chosen
          /\ u.loads = loads /\ u.candidates = t.candidates
        BY <2>1, <1>1, <1>5 DEF Traces
    <2> QED
        BY <2>2, <1>1, <1>5, <1>6 DEF Traced
<1>7. CASE ~(n + 1 < 5)
    <2>1. n = 4 /\ Len(loads) = 5
        <3>1. n \in Nat /\ n < 5 /\ Len(loads) = n + 1
            BY <1>1, <1>5
        <3> HIDE DEF n
        <3> QED
            BY <3>1, <1>7
    <2> DEFINE c == Written(d, b, loads)
    <2>2. b \in S => c = CandidateNow(d, b)
        <3>1. ASSUME b \in S
              PROVE  /\ loads[1] = inflight[b] /\ loads[2] = kvProjected[b]
                     /\ loads[3] = kvProjected[b] /\ loads[4] = inflight[b]
                     /\ loads[5] = kvProjected[b]
            BY <2>1, <3>1, <1>5 DEF FieldNow, Fields
        <3> QED
            BY <3>1 DEF CandidateNow, Written, OccupancyNow, ScoreNow
    <2>4. c \in CandidateScores /\ c.backend = b
        <3>1. \A i \in 1 .. 5 : loads[i] \in Int
            BY <2>1, <1>5
        <3> QED
            BY <1>3, <3>1, WrittenType
    <2>5. u = [t EXCEPT !.loads = << >>, !.candidates = Append(@, c)]
        BY <2>1, <1>1
    <2> HIDE DEF c
    <2> DEFINE cs == Append(t.candidates, c)
    <2>6. cs \in Seq(CandidateScores) /\ Len(cs) = k + 1 /\ cs[k + 1] = c
        BY <1>2, <2>4
    <2>7. \A i \in 1 .. k : cs[i] = t.candidates[i]
        BY <1>2, <2>4
    <2>11. u = [t EXCEPT !.loads = << >>, !.candidates = cs]
        BY <2>5
    <2> HIDE DEF cs
    <2>8. /\ u \in Traces /\ u.begun = t.begun /\ u.chosen = t.chosen
          /\ u.loads = << >> /\ u.candidates = cs
        <3>1. << >> \in Seq(Int)
            OBVIOUS
        <3> QED
            BY <2>6, <2>11, <3>1, <1>1 DEF Traces
    <2>9. \A i \in 1 .. k + 1 :
              /\ cs[i].backend = Healthy[i]
              /\ Healthy[i] \in S => cs[i] = CandidateNow(d, Healthy[i])
        <3>1. \A i \in 1 .. k + 1 : i \in 1 .. k \/ i = k + 1
            BY <1>1
        <3> QED
            BY <3>1, <1>1, <2>2, <2>4, <2>6, <2>7
    <2> HIDE DEF k
    <2>10. Len(u.loads) = 0 /\ Len(u.candidates) = k + 1 /\ k + 1 =< Len(Healthy)
        <3>1. k + 1 =< Len(Healthy)
            BY <1>3
        <3>2. Len(u.loads) = 0
            BY <2>8
        <3> QED
            BY <2>6, <2>8, <3>1, <3>2
    <2> QED
        BY <1>1, <2>8, <2>9, <2>10 DEF Traced
<1> QED
    BY <1>6, <1>7

LEMMA TracingStep ==
    ASSUME PathIInv, CountersTyped, NEW r \in Requests,
           \/ Choose(r) \/ TraceLoad(r) \/ PickTraced(r)
           \/ PathStep(r) /\ pc[r] # "pick" /\ UNCHANGED trace,
           NEW S \in SUBSET Backends, Traced(trace[r], decision[r], pc[r], S),
           TracesTyped, NEW e, e = decision'[r], NEW q, q = pc'[r], NEW u, u = trace'[r]
    PROVE  Traced(u, e, q, S)
<1>1. pc \in [Requests -> Places] /\ decision \in [Requests -> Decisions]
      /\ trace \in [Requests -> Traces]
    BY DEF PathIInv, PathTypes, TracesTyped
<1>2. PICK d \in Decisions, t \in Traces : d = decision[r] /\ t = trace[r]
    BY <1>1
<1>4. Traced(t, d, pc[r], S)
    BY <1>2
<1>6. CASE Choose(r)
    <2>1. ~t.begun /\ pc[r] = "pick"
        BY <1>2, <1>6 DEF Choose
    <2>2. t = NoTrace
        BY <1>4, <2>1 DEF Traced
    <2>3. \/ \E b \in d.ties : u = [t EXCEPT !.begun = TRUE, !.chosen = b]
          \/ d.ties = {} /\ u = [t EXCEPT !.begun = TRUE]
        BY <1>1, <1>2, <1>6 DEF Choose
    <2>4. /\ u \in Traces /\ u.loads = << >> /\ u.candidates = << >> /\ u.begun
          /\ u.chosen \in d.ties \/ (u.chosen = NoBackend /\ d.ties = {})
        <3>1. CASE d.ties = {} /\ u = [t EXCEPT !.begun = TRUE]
            BY <2>2, <3>1 DEF NoTrace, Traces
        <3>2. ASSUME NEW b \in d.ties, u = [t EXCEPT !.begun = TRUE, !.chosen = b]
              PROVE  /\ u \in Traces /\ u.loads = << >> /\ u.candidates = << >> /\ u.begun
                     /\ u.chosen \in d.ties
            <4>1. b \in Backends
                BY <1>2 DEF Decisions
            <4> QED
                BY <2>2, <3>2, <4>1 DEF NoTrace, Traces
        <3> QED
            BY <2>3, <3>1, <3>2
    <2>6. e = d /\ q = "pick"
        BY <1>2, <1>6, <2>1 DEF Choose, pathVars
    <2>7. Len(u.loads) = 0 /\ Len(u.candidates) = 0 /\ Len(Fields) = 5
        BY <2>4 DEF Fields
    <2> QED
        BY <2>4, <2>6, <2>7, HealthyType DEF Traced
<1>7. CASE TraceLoad(r)
    <2>1. t.begun /\ Len(t.candidates) < Len(Healthy)
        BY <1>2, <1>7 DEF TraceLoad
    <2>2. pc[r] = "pick"
        BY <1>4, <2>1 DEF Traced, NoTrace
    <2>3. e = d /\ q = "pick"
        BY <1>2, <1>7, <2>2 DEF TraceLoad, pathVars
    <2> DEFINE b == Healthy[Len(t.candidates) + 1]
               loads == Append(t.loads, FieldNow(b, Len(t.loads) + 1))
    <2>4. b = Candidate(r)
        BY <1>2 DEF Candidate
    <2>6. CandidateScore(r, loads) = Written(d, b, loads)
        BY <1>2, <2>4 DEF CandidateScore, Written
    <2>5. u = IF Len(loads) < Len(Fields) THEN [t EXCEPT !.loads = loads]
              ELSE [t EXCEPT !.loads = << >>,
                             !.candidates = Append(@, Written(d, b, loads))]
        BY <1>1, <1>2, <1>7, <2>4, <2>6 DEF TraceLoad, FieldNow
    <2>8. b = Healthy[Len(t.candidates) + 1]
          /\ loads = Append(t.loads, FieldNow(b, Len(t.loads) + 1))
        OBVIOUS
    <2> HIDE DEF b, loads
    <2>7. Traced(u, d, "pick", S)
        BY <1>4, <2>1, <2>2, <2>5, <2>8, LoadStep
    <2> QED
        BY <2>3, <2>7
<1>8. CASE PickTraced(r)
    <2>1. u = NoTrace
        BY <1>1, <1>8 DEF PickTraced
    <2> QED
        BY <2>1, TracedNothing
<1>9. CASE PathStep(r) /\ pc[r] # "pick" /\ UNCHANGED trace
    <2>1. u = NoTrace
        BY <1>2, <1>4, <1>9 DEF Traced
    <2> QED
        BY <2>1, TracedNothing
<1> QED
    BY <1>6, <1>7, <1>8, <1>9

LEMMA LoadedType ==
    ASSUME CountersTyped, TracesTyped, NEW r \in Requests, TraceLoad(r)
    PROVE  trace'[r] \in Traces /\ trace' = [trace EXCEPT ![r] = trace'[r]]
<1> DEFINE t == trace[r]
           b == Candidate(r)
           value == IF Fields[Len(t.loads) + 1] = "kv" THEN kvProjected[b] ELSE inflight[b]
           loads == Append(t.loads, value)
           c == CandidateScore(r, loads)
           cs == Append(t.candidates, c)
           u == IF Len(loads) < Len(Fields) THEN [t EXCEPT !.loads = loads]
                ELSE [t EXCEPT !.loads = << >>, !.candidates = cs]
<1>1. t \in Traces /\ trace \in [Requests -> Traces]
    BY DEF TracesTyped
<1>2. trace' = [trace EXCEPT ![r] = u] /\ Len(t.candidates) < Len(Healthy)
    BY DEF TraceLoad
<1>3. b \in Backends
    <2>1. Len(t.candidates) \in Nat
        BY <1>1 DEF Traces
    <2> QED
        BY <1>2, <2>1, HealthyType DEF Candidate
<1>4. value \in Int
    BY <1>3 DEF CountersTyped
<1>5. loads \in Seq(Int) /\ Len(loads) = Len(t.loads) + 1 /\ Len(t.loads) \in Nat
    <2> HIDE DEF value
    <2> QED
        BY <1>1, <1>4 DEF Traces
<1>6. c = Written(decision[r], b, loads)
    BY DEF CandidateScore, Written
<1> HIDE DEF loads, c, b
<1>7. u \in Traces
    <2>1. CASE Len(loads) < Len(Fields)
        BY <1>1, <1>5, <2>1 DEF Traces
    <2>2. CASE ~(Len(loads) < Len(Fields))
        <3>1. Len(loads) >= 5
            <4>1. Len(Fields) = 5
                BY DEF Fields
            <4> QED
                BY <1>5, <2>2, <4>1
        <3>2. \A i \in 1 .. 5 : loads[i] \in Int
            BY <1>5, <3>1
        <3>3. c \in CandidateScores
            BY <1>3, <1>6, <3>2, WrittenType
        <3>4. cs \in Seq(CandidateScores) /\ << >> \in Seq(Int)
            BY <1>1, <3>3 DEF Traces
        <3> HIDE DEF cs
        <3>5. [t EXCEPT !.loads = << >>, !.candidates = cs] \in Traces
            BY <1>1, <3>4 DEF Traces
        <3> QED
            BY <2>2, <3>5
    <2> QED
        BY <2>1, <2>2
<1> HIDE DEF u, t
<1>8. trace'[r] = u
    BY <1>1, <1>2
<1> QED
    BY <1>2, <1>7, <1>8

LEMMA NextTyped ==
    ASSUME PathIInv, CountersTyped, TracesTyped, NEW r \in Requests,
           \/ Choose(r) \/ TraceLoad(r) \/ PickTraced(r) \/ UNCHANGED trace
    PROVE  TracesTyped' /\ \A x \in Requests \ {r} : trace'[x] = trace[x]
<1>1. trace[r] \in Traces /\ NoTrace \in Traces /\ trace \in [Requests -> Traces]
    BY DEF TracesTyped, NoTrace, Traces
<1>2. ASSUME NEW u \in Traces, trace' = [trace EXCEPT ![r] = u]
      PROVE  TracesTyped' /\ \A x \in Requests \ {r} : trace'[x] = trace[x]
    BY <1>1, <1>2 DEF TracesTyped
<1>3. CASE Choose(r)
    <2>1. ASSUME NEW b \in decision[r].ties,
                 trace' = [trace EXCEPT ![r].begun = TRUE, ![r].chosen = b]
          PROVE  TracesTyped' /\ \A x \in Requests \ {r} : trace'[x] = trace[x]
        <3>1. b \in Backends
            BY DEF PathIInv, PathTypes, Decisions
        <3>2. [trace[r] EXCEPT !.begun = TRUE, !.chosen = b] \in Traces
            BY <1>1, <3>1 DEF Traces
        <3>3. trace' = [trace EXCEPT ![r] = [trace[r] EXCEPT !.begun = TRUE, !.chosen = b]]
            BY <1>1, <2>1
        <3> QED
            BY <1>2, <3>2, <3>3
    <2>2. ASSUME trace' = [trace EXCEPT ![r].begun = TRUE]
          PROVE  TracesTyped' /\ \A x \in Requests \ {r} : trace'[x] = trace[x]
        <3>1. [trace[r] EXCEPT !.begun = TRUE] \in Traces
            BY <1>1 DEF Traces
        <3>2. trace' = [trace EXCEPT ![r] = [trace[r] EXCEPT !.begun = TRUE]]
            BY <2>2
        <3> QED
            BY <1>2, <3>1, <3>2
    <2> QED
        BY <1>3, <2>1, <2>2 DEF Choose
<1>4. CASE TraceLoad(r)
    BY <1>2, <1>4, LoadedType
<1>5. CASE PickTraced(r)
    BY <1>1, <1>2, <1>5 DEF PickTraced
<1>6. CASE UNCHANGED trace
    BY <1>6 DEF TracesTyped
<1> QED
    BY <1>3, <1>4, <1>5, <1>6

\* Whoever is still picking knows about the backends that did not change.
LEMMA NextTrace ==
    ASSUME PathIInv, TracesTyped, TraceIInv, TraceNext
    PROVE  TracesTyped' /\ TraceIInv'
<1>1. PICK r \in Requests :
          /\ \/ Choose(r) \/ TraceLoad(r) \/ PickTraced(r)
             \/ PathStep(r) /\ pc[r] # "pick" /\ UNCHANGED trace
          /\ moved' = [x \in Requests |->
                IF pc'[x] \in Picking THEN moved[x] \cup Changed ELSE {}]
    BY TraceCases
<1>3. CountersTyped
    BY DEF PathIInv, RecordsOK, CountersTyped
<1>4. RecordsOK /\ PathTypes /\ \A x \in Requests : RequestOK(x)
    BY DEF PathIInv
<1>5. \/ PathStep(r)
      \/ UNCHANGED pathVars /\ (Choose(r) \/ TraceLoad(r))
    BY <1>1 DEF Choose, TraceLoad, PickTraced, PathStep, Compute
<1>9. TracesTyped' /\ \A x \in Requests \ {r} : trace'[x] = trace[x]
    BY <1>1, <1>3, NextTyped
<1>6. ASSUME NEW x \in Requests \ {r}
      PROVE  pc'[x] = pc[x] /\ decision'[x] = decision[x] /\ trace'[x] = trace[x]
    <2>2. CASE PathStep(r)
        BY <1>4, <1>9, <2>2, OtherRequests
    <2>3. CASE UNCHANGED pathVars
        BY <1>9, <2>3 DEF pathVars
    <2> QED
        BY <1>5, <2>2, <2>3
<1>7. ASSUME NEW x \in Requests
      PROVE  /\ Still(decision[x], pc[x], Settled(x))'
             /\ Traced(trace[x], decision[x], pc[x], Settled(x))'
    <2>1. PICK e, q, u, S, T :
              /\ e = decision'[x] /\ q = pc'[x] /\ u = trace'[x]
              /\ S = Settled(x) /\ T = Settled(x)'
        OBVIOUS
    <2>2. Still(decision[x], pc[x], S) /\ Traced(trace[x], decision[x], pc[x], S)
        BY <2>1 DEF TraceIInv
    <2>3. S \in SUBSET Backends /\ T \in SUBSET Backends
        BY <2>1 DEF Settled
    <2>4. Traced(u, e, q, S) /\ (q \in Picking => Still(e, q, S))
        <3>1. CASE x = r
            <4>1. Traced(u, e, q, S)
                BY <1>1, <1>3, <2>1, <2>2, <2>3, <3>1, TracingStep
            <4>2. CASE UNCHANGED pathVars
                BY <2>1, <2>2, <4>1, <4>2 DEF pathVars
            <4>3. CASE PathStep(r) /\ pc[r] # "pick"
                BY <1>3, <2>1, <2>2, <2>3, <3>1, <4>1, <4>3, DecidingStep
            <4>4. CASE PickTraced(r)
                <5>1. q \notin Picking
                    BY <1>4, <2>1, <3>1, <4>4
                    DEF PickTraced, Pick, Refuse, GoTo, PathTypes, Picking
                <5> QED
                    BY <4>1, <5>1
            <4> QED
                BY <1>1, <4>2, <4>3, <4>4 DEF Choose, TraceLoad
        <3>2. CASE x # r
            BY <1>6, <2>1, <2>2, <3>2
        <3> QED
            BY <3>1, <3>2
    <2>5. CASE q \in Picking
        <3>1. moved'[x] = moved[x] \cup Changed
            BY <1>1, <2>1, <2>5
        <3>2. T \in SUBSET S /\ Kept(T)
            BY <2>1, <3>1 DEF Settled, Changed, Kept
        <3>3. Still(e, q, T)' /\ Traced(u, e, q, T)'
            BY <2>4, <2>5, <3>2, StillStays, TracedStays
        <3> QED
            BY <2>1, <3>3
    <2>6. CASE q \notin Picking
        <3>1. u = NoTrace
            BY <2>4, <2>6 DEF Traced, Picking
        <3>2. Still(e, q, T)' /\ Traced(u, e, q, T)'
            BY <2>6, <3>1, StillElsewhere, TracedNothing
        <3> QED
            BY <2>1, <3>2
    <2> QED
        BY <2>5, <2>6
<1> QED
    BY <1>7, <1>9 DEF TraceIInv

LEMMA InitTrace == TraceInit => TracesTyped /\ TraceIInv
<1> SUFFICES ASSUME TraceInit PROVE TracesTyped /\ TraceIInv
    OBVIOUS
<1>1. TracesTyped
    BY DEF TraceInit, TracesTyped, NoTrace, Traces
<1>2. ASSUME NEW r \in Requests
      PROVE  /\ Still(decision[r], pc[r], Settled(r))
             /\ Traced(trace[r], decision[r], pc[r], Settled(r))
    <2>1. pc[r] = "idle" /\ trace[r] = NoTrace
        BY DEF TraceInit, PathInit
    <2> QED
        BY <2>1, StillElsewhere, TracedNothing DEF Picking
<1> QED
    BY <1>1, <1>2 DEF TraceIInv

\* Of a backend that did not change, the trace tells whether the gate kept it
\* out, and by which limit.
LEMMA ReasonIsTrue ==
    ASSUME CountersTyped, NEW S \in SUBSET Backends, NEW d \in Decisions, GateDone(d, S),
           NEW b \in S, b \in AllHealthy
    PROVE  /\ Explained(d, CandidateNow(d, b))
           /\ GatedBy(d, b, kvProjected[b]) = "None" <=> b \in Pool(d)
<1>1. b \in d.eligible <=> Fits(d, b)
    BY DEF GateDone
<1>2. d.fellThrough \in BOOLEAN
    BY DEF Decisions
<1>3. /\ CandidateNow(d, b).gated_by = GatedBy(d, b, kvProjected[b])
      /\ CandidateNow(d, b).kv_projected = kvProjected[b]
      /\ CandidateNow(d, b).inflight = inflight[b] /\ CandidateNow(d, b).backend = b
    BY DEF CandidateNow
<1>5. /\ kvProjected[b] \in Int /\ inflight[b] \in Int /\ MaxSeqs[b] \in Nat
      /\ KvLimit(b) \in Int /\ Need(d) \in Int
    <2>1. Sigma[1] \in Nat /\ Sigma[2] \in Nat \ {0} /\ KvCapacity[b] \in Nat
        BY PathAssumption
    <2>2. Sigma[1] * KvCapacity[b] \in Nat
        BY <2>1
    <2>3. KvLimit(b) \in Int
        BY <2>1, <2>2 DEF KvLimit
    <2>4. Need(d) \in Int
        BY DEF Need, Project, Decisions
    <2>5. MaxSeqs[b] \in Nat
        BY PathAssumption
    <2> QED
        BY <2>3, <2>4, <2>5 DEF CountersTyped
<1>6. Fits(d, b) <=> /\ ~(kvProjected[b] + Need(d) > KvLimit(b))
                     /\ ~(inflight[b] >= MaxSeqs[b])
    BY <1>5 DEF Fits, KvOk, SlotOk
<1>7. kvProjected[b] + Need(d) =< KvLimit(b) <=> ~(kvProjected[b] + Need(d) > KvLimit(b))
    BY <1>5
<1>8. CASE d.fellThrough
    <2>1. GatedBy(d, b, kvProjected[b]) = "None" /\ Pool(d) = AllHealthy
        BY <1>8 DEF GatedBy, WasGated, Pool
    <2> QED
        BY <1>3, <1>8, <2>1 DEF Explained
<1>9. CASE ~d.fellThrough /\ b \in d.eligible
    <2>1. GatedBy(d, b, kvProjected[b]) = "None" /\ b \in Pool(d)
        BY <1>9 DEF GatedBy, WasGated, Pool
    <2> QED
        BY <1>1, <1>3, <1>6, <1>9, <2>1 DEF Explained
<1>10. CASE ~d.fellThrough /\ b \notin d.eligible
    <2>1. GatedBy(d, b, kvProjected[b]) = IF kvProjected[b] + Need(d) > KvLimit(b)
                                           THEN "KvHeadroom" ELSE "SlotLimit"
        BY <1>7, <1>10 DEF GatedBy, WasGated
    <2>2. b \notin Pool(d)
        BY <1>10 DEF Pool
    <2> QED
        BY <1>1, <1>3, <1>6, <1>10, <2>1, <2>2 DEF Explained
<1> QED
    BY <1>8, <1>9, <1>10

\* What is known when the trace is complete explains the decision.
LEMMA TraceTells ==
    ASSUME CountersTyped, TraceIInv, PathTypes, NEW r \in Requests,
           DecisionOK(r), Len(trace[r].candidates) = Len(Healthy)
    PROVE  LET t == trace[r]
               Score(i) == t.candidates[i].score
           IN  /\ \A i \in DOMAIN t.candidates :
                      t.candidates[i].backend \notin moved[r] =>
                          Explained(decision[r], t.candidates[i])
               /\ \A i \in Comparable(r) : t.candidates[i].backend = t.chosen =>
                      Score(i) # NaN /\ \A j \in Comparable(r) : ~Less(Score(j), Score(i))
               /\ t.chosen = NoBackend => \A i \in Comparable(r) : Score(i) = NaN
<1> DEFINE t == trace[r]
           d == decision[r]
           S == Settled(r)
           N == Len(Healthy)
           Score(i) == t.candidates[i].score
<1>1. Still(d, pc[r], S) /\ Traced(t, d, pc[r], S) /\ S \in SUBSET Backends
    BY DEF TraceIInv, Settled
<1>2. d \in Decisions /\ d.eligible \subseteq AllHealthy /\ d.ties \subseteq Pool(d)
    BY DEF PathTypes, DecisionOK
<1>12. Comparable(r) = {i \in DOMAIN t.candidates :
           t.candidates[i].gated_by = "None" /\ t.candidates[i].backend \notin moved[r]}
    BY DEF Comparable
<1>13. \A b \in Backends : b \notin moved[r] <=> b \in S
    BY DEF Settled
<1>14. Len(t.candidates) = N
    OBVIOUS
<1>15. d.ties \in SUBSET Backends
    BY <1>2 DEF Decisions
<1> HIDE DEF t, d, S
<1>3. t # NoTrace
    <2>1. Len(NoTrace.candidates) = 0
        BY DEF NoTrace
    <2> QED
        BY <1>14, <2>1, HealthyType
<1>4. /\ pc[r] = "pick"
      /\ t.chosen \in d.ties \/ (t.chosen = NoBackend /\ d.ties = {})
    BY <1>1, <1>3 DEF Traced
<1>5. GateDone(d, S) /\ ScoreDone(d, S)
    BY <1>1, <1>4 DEF Still, Scoring
<1>7. /\ DOMAIN t.candidates = 1 .. N
      /\ \A i \in 1 .. N : /\ t.candidates[i].backend = Healthy[i]
                           /\ Healthy[i] \in S => t.candidates[i] = CandidateNow(d, Healthy[i])
    BY <1>1, <1>14 DEF Traced, Traces
<1>8. \A i \in 1 .. N : Healthy[i] \in AllHealthy /\ Healthy[i] \in Backends
    BY HealthyType DEF AllHealthy
<1>9. ASSUME NEW i \in DOMAIN t.candidates, t.candidates[i].backend \notin moved[r]
      PROVE  /\ Healthy[i] \in S /\ t.candidates[i].backend = Healthy[i]
             /\ t.candidates[i] = CandidateNow(d, Healthy[i])
             /\ Explained(d, t.candidates[i])
             /\ t.candidates[i].gated_by = "None" <=> Healthy[i] \in Pool(d)
             /\ Score(i) = ScoreNow(Healthy[i])
    <2>1. i \in 1 .. N /\ t.candidates[i].backend = Healthy[i]
        BY <1>7
    <2>2. Healthy[i] \in S /\ Healthy[i] \in AllHealthy
        BY <1>8, <1>9, <1>13, <2>1
    <2>3. t.candidates[i] = CandidateNow(d, Healthy[i])
        BY <1>7, <2>1, <2>2
    <2>4. /\ Explained(d, CandidateNow(d, Healthy[i]))
          /\ GatedBy(d, Healthy[i], kvProjected[Healthy[i]]) = "None" <=> Healthy[i] \in Pool(d)
        BY <1>1, <1>2, <1>5, <2>2, ReasonIsTrue
    <2>5. /\ CandidateNow(d, Healthy[i]).gated_by
               = GatedBy(d, Healthy[i], kvProjected[Healthy[i]])
          /\ CandidateNow(d, Healthy[i]).score = ScoreNow(Healthy[i])
        BY DEF CandidateNow
    <2> QED
        BY <2>1, <2>2, <2>3, <2>4, <2>5
<1>10. ASSUME NEW i \in Comparable(r)
       PROVE  Healthy[i] \in S /\ Healthy[i] \in Pool(d) /\ Score(i) = ScoreNow(Healthy[i])
              /\ t.candidates[i].backend = Healthy[i]
    BY <1>9, <1>12
<1> HIDE DEF Score
<1>16. ASSUME NEW i \in Comparable(r), t.candidates[i].backend = t.chosen
       PROVE  Score(i) # NaN /\ \A j \in Comparable(r) : ~Less(Score(j), Score(i))
    <2>1. Healthy[i] \in Backends /\ Healthy[i] = t.chosen
        BY <1>1, <1>10, <1>16
    <2>2. Healthy[i] \in d.ties
        BY <1>4, <2>1, LeaseAssumption
    <2>3. /\ ScoreNow(Healthy[i]) # NaN
          /\ \A c \in S : c \in Pool(d) => ~Less(ScoreNow(c), ScoreNow(Healthy[i]))
        BY <1>5, <1>10, <2>2 DEF ScoreDone
    <2> QED
        BY <1>10, <2>3
<1>17. ASSUME t.chosen = NoBackend, NEW i \in Comparable(r)
       PROVE  Score(i) = NaN
    <2>1. d.ties = {}
        BY <1>4, <1>15, <1>17, LeaseAssumption
    <2> QED
        BY <1>5, <1>10, <2>1 DEF ScoreDone
<1>18. \A i \in DOMAIN t.candidates :
           t.candidates[i].backend \notin moved[r] => Explained(d, t.candidates[i])
    BY <1>9
<1> QED
    BY <1>16, <1>17, <1>18 DEF t, d, Score

\* For any backends, limits, penalty, requests and workers, and however the
\* counters move meanwhile, the trace explains a decision out of its own
\* numbers, but for the backends whose counters did move (Pressure::pick).
THEOREM TraceExplainsDecision == TraceSpec => []TraceExplains
<1> DEFINE I == TracesTyped /\ TraceIInv
<1>1. TraceInit => I
    BY InitTrace
<1>2. PathIInv /\ I /\ [TraceNext]_traceVars => I'
    <2>1. ASSUME PathIInv, I, TraceNext PROVE I'
        BY <2>1, NextTrace
    <2>2. ASSUME I, UNCHANGED traceVars PROVE I'
        <3>1. TracesTyped'
            BY <2>2 DEF traceVars, TracesTyped
        <3>2. ASSUME NEW r \in Requests
              PROVE  /\ Still(decision[r], pc[r], Settled(r))'
                     /\ Traced(trace[r], decision[r], pc[r], Settled(r))'
            <4>1. PICK d, p, t, S :
                      d = decision[r] /\ p = pc[r] /\ t = trace[r] /\ S = Settled(r)
                OBVIOUS
            <4>2. /\ decision'[r] = d /\ pc'[r] = p /\ trace'[r] = t
                  /\ Settled(r)' = S /\ Kept(S) /\ S \in SUBSET S
                BY <2>2, <4>1 DEF traceVars, Settled, Kept
            <4>3. Still(d, p, S) /\ Traced(t, d, p, S)
                BY <2>2, <4>1 DEF TraceIInv
            <4> QED
                BY <4>2, <4>3, StillStays, TracedStays
        <3> QED
            BY <3>1, <3>2 DEF TraceIInv
    <2> QED
        BY <2>1, <2>2
<1>3. PathIInv /\ I => TraceExplains
    <2> SUFFICES ASSUME PathIInv, I PROVE TraceExplains
        OBVIOUS
    <2>1. CountersTyped /\ TraceIInv /\ PathTypes
        BY DEF PathIInv, RecordsOK, CountersTyped
    <2>2. \A r \in Requests : DecisionOK(r)
        BY DEF PathIInv, RequestOK
    <2> QED
        BY <2>1, <2>2, TraceTells DEF TraceExplains
<1> HIDE DEF I
<1>4. TraceSpec => []PathIInv
    BY TraceRefines, PathInvariant, PTL
<1> QED
    BY <1>1, <1>2, <1>3, <1>4, PTL DEF TraceSpec
=============================================================================
