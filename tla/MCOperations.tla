---------------------------- MODULE MCOperations ----------------------------
(***************************************************************************)
(* Startup, Health, Collector, Readings and WarnOnce for TLC, in one run.  *)
(* They share no state, so a behaviour is one of one of them: the states   *)
(* of the run are the sum of theirs, not the product.                      *)
(***************************************************************************)
EXTENDS Startup, Health, Collector, WarnOnce, MCReadings

CONSTANTS b1, b2

VARIABLE part

TwoBackends == << b1, b2 >>

Backend(url, kv, seqs) == [url |-> url, kv_tokens |-> kv, max_num_seqs |-> seqs]
Sound == << Backend("u1", 6, 2), Backend("u2", 4, 1) >>

\* Every key but the required one set to a value around the limits ...
Settings ==
    {"theta" :> v : v \in {0, 50, 100, NaN, Inf}}
    \cup {"sigma" :> v : v \in {0, 50, 100, 101, NaN, Inf}}
    \cup {"penalty" :> v : v \in {-1000, NaN}}
    \cup {"route_p50_halflife_s" :> v : v \in {0, NaN}}
    \cup {"strategy" :> v : v \in {"p2c", "least_conn", "Pressure"}}
    \cup {"chars_per_token" :> v : v \in {0, 100, NaN, Inf}}
    \cup {"occupancy_sample_interval_ms" :> 0}
    \cup {"scrape_timeout_ms" :> v : v \in {0, 1000}}
    \cup {"scrape_interval_ms" :> v : v \in {0, 500, 501, 5001}}
    \cup {"max_signal_age_ms" :> v : v \in {999, 1000}}
    \cup {"drift_warn_ratio" :> v : v \in {100, 101, NaN}}
    \cup {"enabled" :> FALSE, "validate_capacity_at_startup" :> FALSE}

\* ... alone, those that are compared or decide what runs in pairs; and the lists
\* of backends.
Compared ==
    {"scrape_interval_ms", "scrape_timeout_ms", "max_signal_age_ms", "enabled",
     "validate_capacity_at_startup"}
Paired == {t \in Settings : DOMAIN t \subseteq Compared}
SomeFiles ==
    {("backends" :> Sound) @@ s : s \in Settings}
    \cup {("backends" :> Sound) @@ s @@ t : s, t \in Paired}
    \cup {"backends" :> bs : bs \in
            {Sound, << >>, << Backend("u1", 6, 2) >>,
             << Backend("u1", 6, 2), Backend("u1", 4, 1) >>,
             << Backend("u1", 6, 2), Backend("u2", 0, 1) >>,
             << Backend("u1", 6, 0), Backend("u2", 4, 1) >>,
             << Backend("u1", 6, 2), Backend("u2", 4, 0) >>}}

Capacity(size, blocks) == [block_size |-> size, num_gpu_blocks |-> blocks]
SomeCapacities == {Capacity(2, 3), Capacity(2, 2), Capacity(3, 5)}

\* Modulo 16, 20 is the capacity of the second backend.
WrappingCapacities == {Capacity(2, 3), Capacity(4, 5)}

operationsVars ==
    <<startupVars, healthVars, collectorVars, readingsVars, warnVars, part>>

OperationsInit ==
    /\ part \in {"startup", "health", "collector", "readings", "warn"}
    /\ StartupInit /\ HealthInit /\ CollectorInit /\ ReadingsInit /\ WarnInit
    /\ part # "startup" => file = CHOOSE f \in Files : TRUE

StartupPart(A) ==
    /\ part = "startup" /\ A
    /\ UNCHANGED <<healthVars, collectorVars, readingsVars, warnVars, part>>

OperationsNext ==
    \/ StartupPart(StartupNext)
    \/ /\ part = "health" /\ HealthNext
       /\ UNCHANGED <<startupVars, collectorVars, readingsVars, warnVars, part>>
    \/ /\ part = "collector" /\ CollectorNext
       /\ UNCHANGED <<startupVars, healthVars, readingsVars, warnVars, part>>
    \/ /\ part = "readings" /\ ReadingsNext
       /\ UNCHANGED <<startupVars, healthVars, collectorVars, warnVars, part>>
    \/ /\ part = "warn" /\ WarnNext
       /\ UNCHANGED <<startupVars, healthVars, collectorVars, readingsVars, part>>

OperationsSpec ==
    /\ OperationsInit /\ [][OperationsNext]_operationsVars
    /\ WF_operationsVars(StartupPart(StartupStep))

\* StartupDecides, where there is a startup.
StartupDecidesInPart == part = "startup" => StartupDecides
=============================================================================
