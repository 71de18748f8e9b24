------------------------------- MODULE Startup --------------------------------
(***************************************************************************)
(* From the configuration file to the accept loop: config.rs, main.rs and  *)
(* listener.rs.                                                            *)
(*                                                                         *)
(* A file is a function on the keys it sets; serde fills in the others.    *)
(* An f64 is a number of hundredths, NaN or Inf.  The main thread does one *)
(* thing after the other; what it waits for is nondeterministic.           *)
(***************************************************************************)
EXTENDS Integers, SequencesExt

CONSTANTS
    Files,          \* the files to start with
    Capacities,     \* the block sizes and counts /metrics can report
    Connections,    \* the clients that connect
    Width,          \* 2^32, the range of a u32
    NaN, Inf, None

\* What serde accepts: a key has a value of its type, and no other is there
\* but backends, which has no default.
Float == Int \cup {NaN, Inf}
FloatKeys ==
    {"theta", "sigma", "penalty", "chars_per_token", "route_p50_halflife_s",
     "decision_trace_sample_rate", "drift_warn_ratio"}
MillisecondKeys ==
    {"occupancy_sample_interval_ms", "scrape_interval_ms", "scrape_timeout_ms",
     "max_signal_age_ms"}
BackendEntry == [url : STRING, kv_tokens : Nat, max_num_seqs : Nat]

Parses(f) ==
    /\ "backends" \in DOMAIN f /\ f.backends \in Seq(BackendEntry)
    /\ \A k \in DOMAIN f :
           /\ k \in FloatKeys => f[k] \in Float
           /\ k \in MillisecondKeys => f[k] \in Nat
           /\ k \in {"enabled", "validate_capacity_at_startup"} => f[k] \in BOOLEAN

ASSUME StartupAssumption ==
    /\ Width \in Nat
    /\ NaN \notin Int /\ Inf \notin Int
    /\ \A f \in Files : Parses(f)
    /\ Capacities \subseteq [block_size : 0 .. Width - 1, num_gpu_blocks : 0 .. Width - 1]

VARIABLES
    phase,          \* where the main thread is
    file,           \* the file it was given
    error,          \* what validate returned, None if it has not
    router,         \* RouterState, from the moment main has built it
    at,             \* index of the backend whose capacity is asserted
    any_mismatch,
    reports,        \* history: what the backends answered
    tasks,          \* what has been spawned on the runtime
    connections     \* the connections being served

startupVars ==
    <<phase, file, error, router, at, any_mismatch, reports, tasks, connections>>

-----------------------------------------------------------------------------
(***************************************************************************)
(* config.rs.                                                              *)
(***************************************************************************)

\* Comparison of f64: false if one side is NaN.
Lt(a, b) == /\ a \notin {NaN, Inf} /\ b # NaN
            /\ b = Inf \/ a < b
Le(a, b) == Lt(a, b) \/ (a = b /\ a # NaN)

\* The serde defaults of RawRouting ...
RoutingDefaults ==
    [strategy |-> "pressure", theta |-> 55, penalty |-> 1000, kv_model |-> "PromptOnly",
     decision_trace_sample_rate |-> 1, route_p50_halflife_s |-> 30000,
     token_counter |-> "Whitespace", chars_per_token |-> 400, sigma |-> 95]

\* ... of the sampler ...
SamplerDefaults == [occupancy_sample_interval_ms |-> 100]

\* Mutant: a timeout as long as the interval.
SignalDefaultsSlow ==
    [enabled |-> TRUE, scrape_interval_ms |-> 1000, scrape_timeout_ms |-> 1000,
     max_signal_age_ms |-> 5000, drift_warn_ratio |-> 200,
     validate_capacity_at_startup |-> TRUE]

\* ... and of RawSignal.
SignalDefaults ==
    [enabled |-> TRUE, scrape_interval_ms |-> 1000, scrape_timeout_ms |-> 500,
     max_signal_age_ms |-> 5000, drift_warn_ratio |-> 200,
     validate_capacity_at_startup |-> TRUE]

Sections == {RoutingDefaults, SamplerDefaults, SignalDefaults}
Default(k) == (CHOOSE d \in Sections : k \in DOMAIN d)[k]

\* The configuration that a file stands for.
Raw(f) ==
    [k \in DOMAIN f \cup UNION {DOMAIN d : d \in Sections} |->
       IF k \in DOMAIN f THEN f[k] ELSE Default(k)]

Strategies ==
    {"pressure", "p2c", "least_requests", "least_conn", "round_robin", "least_kvts"}

\* What the loop of validate checks of backend i.
ErrorsOf(bs, i) ==
    << <<"ZeroKvCapacity", {"backends"}, bs[i].kv_tokens = 0>>,
       <<"ZeroMaxNumSeqs", {"backends"}, bs[i].max_num_seqs = 0>>,
       <<"DuplicateBackend", {"backends"}, \E j \in 1 .. i - 1 : bs[j].url = bs[i].url>> >>

\* Mutant: the loop ends with the first backend.
BackendErrorsOfFirst(bs) == IF bs = <<>> THEN <<>> ELSE ErrorsOf(bs, 1)

\* The loop of validate over the backends, three checks of each.
BackendErrors(bs) ==
    [k \in 1 .. 3 * Len(bs) |-> ErrorsOf(bs, (k + 2) \div 3)[((k + 2) % 3) + 1]]

\* The checks of validate before the loop, in their order: the error, the keys
\* it is about, and when it is returned.
ScalarChecks(c) ==
    << <<"NoBackends", {"backends"}, c.backends = <<>> >>,
       <<"ThetaOutOfRange", {"theta"}, ~(Lt(0, c.theta) /\ Lt(c.theta, 100))>>,
       <<"SigmaOutOfRange", {"sigma"}, ~(Lt(0, c.sigma) /\ Le(c.sigma, 100))>>,
       <<"ZeroSampleInterval", {"occupancy_sample_interval_ms"},
         c.occupancy_sample_interval_ms = 0>>,
       <<"BadCharsPerToken", {"chars_per_token"},
         ~(c.chars_per_token # Inf /\ Lt(0, c.chars_per_token))>>,
       <<"UnknownStrategy", {"strategy"}, c.strategy \notin Strategies>>,
       <<"SignalTimeoutsNotPositive", {"scrape_timeout_ms", "scrape_interval_ms"},
         c.scrape_timeout_ms = 0 \/ c.scrape_interval_ms = 0>>,
       <<"SignalTimeoutNotLessThanInterval", {"scrape_timeout_ms", "scrape_interval_ms"},
         c.scrape_timeout_ms >= c.scrape_interval_ms>>,
       <<"SignalAgeBeforeInterval", {"max_signal_age_ms", "scrape_interval_ms"},
         c.max_signal_age_ms < c.scrape_interval_ms>>,
       <<"SignalDriftRatioTooLow", {"drift_warn_ratio"}, Le(c.drift_warn_ratio, 100)>> >>

Checks(c) == ScalarChecks(c) \o BackendErrors(c.backends)

Failing(c) == {i \in DOMAIN Checks(c) : Checks(c)[i][3]}
FirstFailing(c) == CHOOSE i \in Failing(c) : \A j \in Failing(c) : i =< j

\* RawConfig::validate: the first check that fails.
Validate(c) == IF Failing(c) = {} THEN "ok" ELSE Checks(c)[FirstFailing(c)][1]

-----------------------------------------------------------------------------
(***************************************************************************)
(* main.rs.                                                                *)
(***************************************************************************)

\* main reads, parses and validates the configuration.
Load ==
    /\ phase = "load"
    /\ \E c \in {Raw(file)} : error' = Validate(c)
    /\ phase' = IF error' = "ok" THEN "bind admin" ELSE "refused"
    /\ UNCHANGED <<file, router, at, any_mismatch, reports, tasks, connections>>

\* The match of main on config.strategy; anything else would be refused.
StrategyOf(name) == IF name = "least_conn" THEN "least_requests" ELSE name

\* The backends, the snapshot, the strategy and the rest of RouterState.
Wire(c) ==
    [backends |-> [i \in DOMAIN c.backends |->
                     [id |-> i, key |-> c.backends[i].url,
                      kv_capacity_tokens |-> c.backends[i].kv_tokens,
                      max_num_seqs |-> c.backends[i].max_num_seqs]],
     healthy |-> [i \in DOMAIN c.backends |-> i],
     strategy |-> StrategyOf(c.strategy),
     theta |-> c.theta, penalty |-> c.penalty, sigma |-> c.sigma,
     kv_model |-> c.kv_model, halflife |-> c.route_p50_halflife_s,
     decision_trace_sample_rate |-> c.decision_trace_sample_rate,
     token_counter |-> <<c.token_counter, c.chars_per_token>>]

\* The admin listener is bound, or main ends because it is taken.
BindAdmin ==
    /\ phase = "bind admin"
    /\ \/ /\ router' = Wire(Raw(file))
          /\ phase' = IF Raw(file).validate_capacity_at_startup THEN "assert" ELSE "spawn"
       \/ phase' = "refused" /\ UNCHANGED router
    /\ UNCHANGED <<file, error, at, any_mismatch, reports, tasks, connections>>

\* Mutant: only the last backend decides.
MismatchOfLast(b, report) ==
    report # None /\
    (report.block_size * report.num_gpu_blocks) % Width # b.kv_capacity_tokens

\* Whether a mismatch is known after the answer of b.  The product is a u32,
\* and wraps in a release build.
Mismatch(b, report) ==
    \/ any_mismatch
    \/ /\ report # None
       /\ (report.block_size * report.num_gpu_blocks) % Width # b.kv_capacity_tokens

\* One iteration of validate_backend_capacities, when fetch_metrics is over;
\* None is an error, a timeout or a text without the metric.
AssertCapacity(report) ==
    /\ phase = "assert"
    /\ any_mismatch' = Mismatch(router.backends[at], report)
    /\ reports' = Append(reports, report)
    /\ IF at < Len(router.backends)
       THEN at' = at + 1 /\ UNCHANGED phase
       ELSE phase' = (IF any_mismatch' THEN "refused" ELSE "spawn") /\ UNCHANGED at
    /\ UNCHANGED <<file, error, router, tasks, connections>>

\* Mutant: fetch_metrics is given no timeout.
CapacityTimesOutNever == FALSE /\ AssertCapacity(None)

\* The timeout around the fetch bounds the wait for a backend that hangs.
CapacityTimesOut == AssertCapacity(None)

\* The sampler, the collectors if the signal plane is enabled, and the bind of
\* the listener, which ends main if it fails.
Spawn ==
    /\ phase = "spawn"
    /\ tasks' = {"sampler"} \cup IF Raw(file).enabled
                                 THEN {router.backends[i].key : i \in DOMAIN router.backends}
                                 ELSE {}
    /\ phase' \in {"serve", "refused"}
    /\ UNCHANGED <<file, error, router, at, any_mismatch, reports, connections>>

\* The accept loop spawns a task for every connection ...
Accept(c) ==
    /\ phase = "serve" /\ c \notin connections
    /\ connections' = connections \cup {c}
    /\ UNCHANGED <<phase, file, error, router, at, any_mismatch, reports, tasks>>

\* ... which ends with the connection, with or without an error.
Disconnect(c) ==
    /\ c \in connections
    /\ connections' = connections \ {c}
    /\ UNCHANGED <<phase, file, error, router, at, any_mismatch, reports, tasks>>

\* accept fails: serve returns, main returns, and the runtime is dropped with
\* every task in it.
AcceptFails ==
    /\ phase = "serve"
    /\ phase' = "ended"
    /\ tasks' = {} /\ connections' = {}
    /\ UNCHANGED <<file, error, router, at, any_mismatch, reports>>

StartupInit ==
    /\ phase = "load"
    /\ file \in Files
    /\ error = None /\ router = None
    /\ at = 1 /\ any_mismatch = FALSE /\ reports = <<>>
    /\ tasks = {} /\ connections = {}

StartupNext ==
    \/ Load \/ BindAdmin \/ CapacityTimesOut \/ Spawn \/ AcceptFails
    \/ \E r \in Capacities \cup {None} : AssertCapacity(r)
    \/ \E c \in Connections : Accept(c) \/ Disconnect(c)

StartupSpec == StartupInit /\ [][StartupNext]_startupVars

\* The main thread goes on, and tokio's timer fires.  A backend owes nothing.
StartupStep == Load \/ BindAdmin \/ CapacityTimesOut \/ Spawn
FairStartupSpec == StartupSpec /\ WF_startupVars(StartupStep)

-----------------------------------------------------------------------------
(***************************************************************************)
(* Properties.                                                             *)
(***************************************************************************)

\* What validate establishes: a router that serves has its knee and its limit
\* strictly inside their range, divides by no capacity, slot count or
\* chars_per_token of zero, finds each backend under its own index and runs the
\* policy that was asked for (config.rs:254-308, main.rs:33-71).  penalty and
\* route_p50_halflife_s are not checked and may be anything, NaN included;
\* RequestPath and LengthEstimator say what follows.
ServesSoundState ==
    phase = "serve" =>
        /\ 0 < router.theta /\ router.theta < 100
        /\ 0 < router.sigma /\ router.sigma =< 100
        /\ router.token_counter[2] > 0 /\ router.token_counter[2] # Inf
        /\ router.backends # <<>>
        /\ \A i, j \in DOMAIN router.backends :
               /\ router.backends[i].kv_capacity_tokens > 0
               /\ router.backends[i].max_num_seqs > 0
               /\ i # j => router.backends[i].key # router.backends[j].key
               /\ router.backends[router.healthy[i]].id = i
        /\ "strategy" \in DOMAIN file =>
               <<file.strategy, router.strategy>> \in
                   {<<x, x>> : x \in Strategies} \cup {<<"least_conn", "least_requests">>}

\* A file is refused for something it says: the defaults of the keys it leaves
\* out pass every check, alone and with each other (config.rs:29-190).
RefusedForWhatItSays ==
    error \notin {None, "ok"} =>
        Checks(Raw(file))[FirstFailing(Raw(file))][2] \cap DOMAIN file # {}

\* No two numbers that a backend reports wrap around when multiplied.
CapacitiesFit == \A c \in Capacities : c.block_size * c.num_gpu_blocks < Width

\* Nothing is sampled, scraped or served before every backend was asked for
\* its capacity, and not at all if one of them gave another one, wherever it
\* stands in the list (main.rs:127-136, 154-211).  The capacity is the product
\* itself, not what is left of it in a u32.
MismatchRefused ==
    tasks # {} /\ Raw(file).validate_capacity_at_startup =>
        /\ Len(reports) = Len(router.backends)
        /\ \A i \in DOMAIN reports :
               reports[i] # None =>
                   reports[i].block_size * reports[i].num_gpu_blocks
                       = router.backends[i].kv_capacity_tokens

\* A backend that answers slowly, or never, does not keep the router from
\* starting or refusing (main.rs:94-97, signal/mod.rs:68-70).
StartupDecides == <>(phase \in {"serve", "refused", "ended"})

=============================================================================
