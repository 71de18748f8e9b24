----------------------------- MODULE MCBalancing -----------------------------
(***************************************************************************)
(* Strategies.tla and Sampler.tla for TLC, in one run.  The two are not    *)
(* composed: a behaviour is one of the one or one of the other.            *)
(***************************************************************************)
EXTENDS Strategies, Sampler, TLC

CONSTANTS b1, b2, b3

VARIABLE part

ThreeBackends == << b1, b2, b3 >>
OneBackend == << b1 >>

\* Capacities that differ, so that the least loaded backend is not always the
\* one with most left, and small enough to be exceeded.
UnequalKv == [b \in Backends |-> IF b = b1 THEN 3 ELSE 4]
TwoSlots == [b \in Backends |-> [max_num_seqs |-> 2, kv_capacity_tokens |-> 5]]
Ceiling == << 9, 10 >>

strategiesOnly == <<strategy, next, pick, turns>>
samplerOnly == <<publish, gauge, reached, wrongTicks>>

BalancingInit ==
    /\ part \in {"strategies", "sampler"}
    /\ StrategiesInit /\ SamplerInit
    /\ part = "sampler" => strategy = CHOOSE s \in Strategies : TRUE

BalancingNext ==
    \/ part = "strategies" /\ StrategiesNext /\ UNCHANGED <<samplerOnly, part>>
    \/ part = "sampler" /\ SamplerNext /\ UNCHANGED <<strategiesOnly, part>>

BalancingSpec ==
    /\ BalancingInit /\ [][BalancingNext]_<<strategiesVars, samplerOnly, part>>
    /\ WF_<<samplerVars, part>>(part = "sampler" /\ SamplerStep
                                /\ UNCHANGED <<strategiesOnly, part>>)

\* The sampler's promise, where there is a sampler.
GaugesCatchUpInPart == part = "sampler" => GaugesCatchUp
=============================================================================
