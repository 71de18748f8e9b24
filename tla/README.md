# A TLA+ development of keel, the LLM router

keel is a reverse proxy in front of several LLM inference backends. For every chat
completion it projects how much KV cache the request will need, picks the backend with
the lowest pressure among those that can admit it, charges the projection to that
backend for as long as the response streams, and corrects the charge while it streams.
This directory models the program, checks it with TLC on small instances and proves the
main facts with TLAPS for all instances.

Paths below are relative to `src/`; `core/` is `crates/router-core/src/` and `proxy/` is
`crates/router-proxy/src/`.

## 1. Inventory

| Component | State | Operations | Interacts with |
|---|---|---|---|
| Cost leases and counters (`core/lease.rs`, `backend.rs`, `cost.rs`) | per backend `inflight`, `kv_projected_tokens` (atomics); per lease `o_hat`, `tokens_seen`, `charged`, `released` | `open`, `observe_tokens`, `release`/`Drop`, `assert_invariant` | request path opens, body recharges and drops, gate and strategies load the counters |
| Request path (`proxy/router.rs`, `proxy/upstream.rs`, `core/gate.rs`, `core/strategy/pressure.rs`) | locals of one future per request; the result counter | `handle`, `admits`, `eligible`, `pick`, `rebuild_request`, `dispatch`, body drop, `error_response` | everything |
| SSE relay (`proxy/upstream.rs`, `proxy/sse.rs`) | `line_buf`, `content_tokens`, `saw_error_frame` | `poll_frame`, `parse_line`, `classify`, `drop` | the lease, the length estimator, the result counter |
| Other strategies (`core/strategy/`, `core/trace.rs`) | the cursor of round robin | `pick` of `least_requests`, `least_kvts`, `p2c`, `round_robin`; `record_pick` | counters |
| Length estimator (`proxy/length_estimator.rs`) | per route an estimate and the time of its last observation, behind a mutex | `estimate`, `observe` | request path reads, relay writes |
| Inbound (`proxy/inbound.rs`, `core/features.rs`, `core/tokens.rs`) | none | `read_body`, `build_features`, `count_prompt_tokens`, `ensure_usage_requested` | request path, length estimator |
| Signal plane (`proxy/signal/`) | per backend the last reading, per collector the last counters | `fetch_metrics`, `collect_loop`, `parse_reported`, `projection_drift` | gauges and logs only; startup reads the capacity |
| Sampler and metrics (`proxy/sampler.rs`, `proxy/observe.rs`) | gauges, histograms, warn-once flags and running sums | `spawn`, `record_*` | reads the counters |
| Health (`proxy/health.rs`) | `consecutive_failures`, `ejected`, `Snapshot` | `record_failure`, `record_success`, `next_snapshot` | nothing: no caller in the binary |
| Listener (`proxy/listener.rs`) | none | `serve` | spawns one task per connection |
| Configuration, startup (`core/config.rs`, `crates/router-bin/src/main.rs`) | none after startup | parse, validate, `validate_backend_capacities` | builds the state of all the others |
| Harness (`phase0/`, `bench/`) | outside the program | load generation and analysis | none |

Nearly all shared state is a handful of atomics accessed with `Relaxed`, on a
multi-threaded runtime. What is hard to test, and what the properties are for:

* **Two counters, two atomics.** Opening and releasing a lease each take two separate
  additions that other threads can see apart; so do a report of health and a sample of a
  running mean. Correct means: every open is undone by one release of the same size on the
  same backend, recharges included; no sample is lost; one warning.
* **Check, then act.** The gate loads the counters; the lease adds to them later. Correct
  means: a bound on what can be exceeded, since "never" does not hold, and a choice that is
  wrong by no more than the counters moved.
* **Many ways out.** Rejected body, failed rebuild, failed dispatch, client leaving before
  or after the response head, nothing to choose, upstream ending or breaking off. Correct
  means: the charge is returned and the result recorded once on all of them.
* **A loop over moving values.** The gate loop, the fall-through and the score loop read
  counters that change. Correct means: always a backend to return, and a trace that
  explains the choice wherever nothing moved.
* **Bytes in arbitrary chunks.** The relay reconstructs lines from chunks. Correct means:
  what it counts is a matter of the stream and not of the chunking.
* **Writers out of order.** Observations of lengths are stamped before a lock and applied
  after it; gauges are loaded and set apart by two writers. Correct means: an estimate stays
  within what was observed, and gauges catch up.
* **Time.** Scrapes have a timeout and an interval, requests to upstreams have none. Correct
  means: a reading is as fresh as it claims, one backend ages no other's reading, startup
  decides; and a lease is returned if the upstream ends its response.
* **Outside text.** Bodies, configuration files and `/metrics` may lack, cut or misspell
  anything. Correct means: absent is never zero, a prompt is never undercounted, and what
  validation looks at is sound. It does not look at the penalty and the half-life; what they may do
  is part of the models.

`PROJECT.json` lists each hazard at its line with the properties that cover it.

## 2. The modules

| Module | What it is |
|---|---|
| `Ledger` | abstract: holders deposit to and withdraw from accounts, and each account has a published total |
| `Lease` | `CostLease` over the live counters, one action per atomic operation |
| `RequestPath` | EXTENDS `Lease`; `handle_inner` with the gate and the pressure strategy, one action per load or await |
| `PickTrace` | EXTENDS `RequestPath`; the decision trace, with its own loads after the decision |
| `Strategies` | EXTENDS `Lease`; the four other strategies with `record_pick`, one action per load |
| `SseRelay` | `CountingSseBody::poll_frame` and `sse.rs`, one action per chunk and per line taken out of the buffer |
| `LengthEstimator` | `RouteHistograms`: `observe` in two steps, the clock and the lock, and `estimate` |
| `Inbound` | EXTENDS `LengthEstimator`; a request from its body to the request that would be sent |
| `Collector` | `collect_loop` and `fetch_metrics` of every backend under discrete time |
| `Readings` | what one collector makes of the text of `/metrics`: `scrape.rs`, `drift.rs`, the scraped gauges |
| `Sampler` | EXTENDS `Lease`; the gauges as set by the sampler and by requests |
| `WarnOnce` | the two running means of `observe.rs`, one action per atomic operation |
| `Health` | `health.rs`, one action per atomic operation |
| `Startup` | `config.rs` with its defaults and checks, `main.rs`, `listener.rs` |
| `LedgerProofs`, `LeaseProofs`, `RequestPathProofs`, `SseRelayProofs`, `InboundProofs`, `MonitoringProofs`, `OperationsProofs`, `BalancingProofs` | the theorems |
| `MCLease`, `MCRequestPath`, `MCPickTrace`, `MCSseRelay`, `MCInbound`, `MCReadings`, `MCBalancing`, `MCOperations` | the instances TLC checks |

`Ledger` is what counters like these promise. `Lease` implements it twice, once for slots
(`SlotLedger`: every lease holds one) and once for KV tokens (`KvLedger`: a lease holds its
current charge), by two refinement mappings. `RequestPath` implements `Lease`: the requests
are the leases, and every step of the handler is a step of the lease module or leaves the
leases alone. `SseRelay` stands beside them: it is the detail of `Content` and `EndBody` of
`RequestPath`, which take the tokens of a chunk as given, as `Inbound` is the detail of what
comes before a decision.

### Lease

`BeginOpen` fixes the fields, `OpenAddInflight` and `OpenAddKv` are lines 32 and 33 of
`lease.rs`; `BeginRelease`, `ReleaseSubInflight` and `ReleaseSubKv` are `release`, reached
through `Drop`. The operations are `Relaxed` on different locations, so both orders of the
two are allowed. `ObserveTokens` is one step: a lease is owned by one body, and its only
shared access is the one `fetch_add`. `charged`, `slot` and `kv` of a record say what of the lease
is in the counters; `est` is the estimate at open. The `released` flag of the code is the
phase. Counters are unbounded integers and the type invariant requires them to stay in Nat:
an underflow would be seen as a negative number; that the upper end of a `u32` is reached
by requests in flight or tokens is out of the question.

### RequestPath and PickTrace

`pc[r]` is where the future of request `r` is. A request in `OnWorker` occupies one of
`Workers` threads until its next await; the code between the end of `read_body` and the
first poll of `dispatch` has no await, so at most `Workers` requests decide at once, which
is what the bounds below depend on. `GateKv` and `GateSlot` are the two loads of `admits`,
`ScoreSlot` and `ScoreKv` the two of `occupancy`; `decision[r]` holds the locals of `pick`.
`PressureScore` is the score with its knee and penalty, and `Scored` the three arms of the
comparison: a score may be NaN, which compares with nothing. `Pick` chooses any tie, as the
random choice may, and begins the open; `Refuse` is a `pick` that returns `None`. `BuildFails`,
`DispatchFails`, `Respond`, `Content`, `EndBody`, `ClientLeaves` and `RejectBody` are the ways on and
out. A client that leaves while its body is read ends that body with an error, hyper polls the
handler on, and `error_response` records it: that is `RejectBody`. One that leaves while `dispatch`
is awaited drops the future, which is `ClientLeaves`, and after that it drops the body, `EndBody`.
`Release` and `Finish` are what the drop does afterwards. `Reuse` gives the identity of
a finished request to a new one.

`PickTrace` splits `Pick` where the code builds the trace: `Choose` draws the tie, `TraceLoad`
loads the five values of the next candidate one at a time, `PickTraced` returns. The trace is
thus made of loads later than those that decided. `moved` is a history variable: the backends whose
counters have changed since a pick began.

Abstractions: the loads of one `admits` or `occupancy` are made in program order; a float is an
exact fraction, an infinity or NaN; logs are left out; health is a constant (`Healthy`),
since nothing in the binary changes it.

### Strategies

A behaviour runs one strategy, drawn at the start. `StartPick` fixes what will be loaded
(`sample`: every backend, or the two that p2c draws); `LoadNext` is one load; `Choose` picks
among the least (any tie, or the first of two); `TakeTurn` is the `fetch_add` of round robin;
`RecordNext` is one load of `record_pick`, and `Dispatch` opens the lease. Meanwhile `Work`
moves the counters for the other requests. `moves` and `turns` are history variables: how
far the counters moved since a pick began, and who had how many turns. The remaining KV
tokens are compared as the code compares them, saturating at zero.

### SseRelay

A stream is a sequence of pieces of lines, and a chunk any run of pieces. `Chunk` is one
`poll_frame` up to the loop, with the test of `from_utf8`: it fails when the chunk starts or ends
inside a multi-byte character. `DrainLine` is one iteration of the loop. Nothing else can
happen between them, which the guards on `Newlines` say. A line put together from
the remains of several may parse as any frame or as none; the model allows all of these.
`undecoded` is a history variable.

### LengthEstimator and Inbound

`TakeTime` is `observe` up to the lock and `Observe` what it does under it, so two bodies can
apply their observations against the order of their times. The decaying blend is an exact
fraction, or NaN as 0/0; `Decay` is the decay as a function of the elapsed ticks. Nothing is
assumed of it that a half-life which is negative, 0 or NaN would not give, since the configuration
accepts these; `DecayIsShrinking` is what a positive one gives. `Rounded` is the cast, which makes 0
of NaN and of what is negative. `Estimate` has the cast of `max_tokens` to a `u32` of `Width` values.

`Inbound!Handle` is `handle_inner` from the body to the request that would be sent. A body is a
record of what the code looks up in the JSON, a text its number of words and of bytes, which are
no fewer; `SaturatingSum` adds message by message as `count_prompt_tokens` does. `Outcome` has
the three refusals, the `expect` of `ensure_usage_requested` (after which a release build
aborts, so nothing follows), and otherwise the features and the rebuilt request. Error wording
and status bodies are left out.

### Collector and Readings

`Collector` has one task per backend: waiting for its tick, connecting, or reading the body.
`Tick` lets time pass for all; `ResponseHead`, `Store` and `Fail` happen when the backend
likes, `Expire` when the timeout is reached. The timeout is around the whole fetch, and the
next tick is an interval after the start of this one (`MissedTickBehavior::Delay`). Time does
not pass a timer that is due: the runtime is taken not to stall, the backends may.

`Readings` is the `Ok` arm of one collector, and the capacity that startup reads. A line has a
name (base and suffix), labels and a value, each of which can be missing, cut or unquoted; the key
of a label may end in the one that is looked for, and a value may be NaN, negative, a fraction, or
beyond the range of what it is cast to (`Cast`). `Texts` is any function from the counters of a
backend to sets of texts; `MCReadings` gives those of the simulator, of vLLM, of a backend whose
lines are broken and of one whose names and values are odd. `MetricValue`, `CounterValue`,
`InfoLabel`, `ParseCapacity`, `HitRate` and `Drift` are the functions of `scrape.rs` and `drift.rs`,
and `Shown` has the casts of `parse_reported`. `Restart` sets a backend's counters back to zero.
`truth` is a history variable: what the texts said under each name.

### Sampler and WarnOnce

A publisher in `Sampler` is the sampler task or a request that has just opened its lease;
`publish[p].todo` is what it will set, `LoadInflight` and `LoadKv` its loads, `SetGauge` the store.
`reached` and `wrongTicks` are history variables about ticks at the ceiling.

`WarnOnce` stands for `record_prompt_token_ratio` and `record_projection_drift`, which have the
same shape: two `fetch_add`s (in either order, as `Relaxed` allows), a judgement by locals and
of the flag, and a `compare_exchange`. `began` and `warnings` are history variables.

### Health and Startup

`CountFailure`/`Eject` and `Forgive`/`Readmit` are the two halves of `record_failure` and
`record_success`; `ReadFlag` and `NextSnapshot` rebuild the list. No code calls them, so any
number of reporters may.

`Startup` starts from a file, a function on the keys it sets. `Raw` adds the defaults of each
section, `Checks` are those of `validate` in their order, with the comparisons of floats (`NaN`,
`Inf`): `ScalarChecks`, then `BackendErrors` for each backend;
`Wire` is what `main` builds; `AssertCapacity` is one iteration of the capacity assertion with
its `u32` product and `CapacityTimesOut` the same after a timeout; `Spawn`, `Accept`, `Disconnect` and
`AcceptFails` are the rest of the program's life.

## 3. The runs

| Run | Question | Properties |
|---|---|---|
| `lease` | Do the counters survive every interleaving of opens, recharges and releases? | `LeaseTypeOK`, `SettledCountersAgree`, `ChargeCoversOutput`, `RechargeIsBounded`, `ImplementsSlotLedger`, `ImplementsKvLedger` |
| `path` | Does the handler keep charges and results right on every way out? How far can the limits be exceeded, and can anybody be refused? | `PathTypeOK`, `ChargedWhileServed`, `RecordedOnce`, `ImplementsLease`, `SlotOvershoot`, `KvOvershoot`, `NeverRefuses` |
| `path_returned` | Is every charge returned in the end? | `CapacityReturned` |
| `path_trace` | Does the trace explain the decision while other requests move the counters? | `TraceExplains` |
| `relay` | Does chunking matter? What does a refused chunk cost? | `RelayTypeOK`, `ChunkingInvisible`, `VerdictFollowsStream`, `LossIsLocal` |
| `inbound` | Are estimates and prompt counts usable, and is the body sent the client's? | `EstimateWithinObserved`, `AnswersAreUsable`, `PromptNeverUndercounted`, `UsageAskedUnlessDeclined`, `LengthIsOfBodySent` |
| `operations` | What do startup, health, collectors, their readings and the warnings hold up? | `ServesSoundState`, `RefusedForWhatItSays`, `MismatchRefused`, `StartupDecidesInPart`, `EjectedWhenFailing`, `ReadingWithinTimeout`, `AgeIsOwnDoing`, `ReadingNeverLost`, `AbsentIsNotZero`, `HitRateIsRate`, `WarnsOnce`, `NoSampleLost` |
| `balancing` | How wrong can the other strategies choose, and do gauges catch up? | `StalenessIsAll`, `TurnsAreEven`, `CeilingWasReached`, `GaugesCatchUpInPart` |
| `path_refused` | Is nobody refused, whatever the penalty? | `NeverRefuses` (violated) |
| `relay_error` | Is an error frame cut inside a character noticed? | `ErrorFrameRecognised` (violated) |
| `inbound_panic` | Is `stream_options` always an object where one is expected? | `StreamOptionsIsObject` (violated) |
| `capacity_wraps` | Is a mismatch refused, whatever its size? | `MismatchRefused` (violated) |

`operations` and `balancing` explore several components that share no state, one per
behaviour: `part` says which, and the others stay at their initial state. The states are the
sum of the components' and not their product, and `...InPart` restates a component's liveness
property for the behaviours that are its own.

### Bounds

* `lease`: two leases show every pair of interleaved updates; steps of 2 with batches of 1 and
  2 and outputs of up to 5 tokens make a lease recharge and not recharge, more than once.
* `path`: a race for the last slot needs two workers; a third request can fall through while
  two race. One backend is limited by its one slot and the other by its KV cache, with requests
  of two sizes, so each limit is the one that binds. The penalty is negative, which reverses the
  order of the scores above the knee.
* `path_returned`, `path_refused`: one backend of two slots and a penalty of NaN. Its score is a
  number for the first request and none for the second, so a pick may have nothing to return. In
  `path_returned` there are three requests and one worker, so that one has to wait for it.
* `path_trace`: two workers, so that one request opens, recharges or releases at any point of the
  other's decision and trace; the prompts fit both backends, one or none.
* `relay`: four streams of 6 to 16 pieces with wide lines next to each other, next to narrow
  ones and at the end, cut in all ways.
* `inbound`, `inbound_panic`: a half-life of one tick; a
  width of 8 makes counts saturate and `max_tokens` wrap; one body has a blank
  message among others, which counts as nothing and not as one token; two bodies and three
  moments make every order of two observations and a third after.
* `balancing`: two requests on three backends, so that p2c leaves one out; the counter of
  round robin wraps at 4, which is no multiple of 3; moves are told apart up to 6, several
  times what one request does to a counter. The sampler looks at one backend: gauges of different
  backends have nothing in common.
* `operations`: capacities of 2 x 3, 2 x 2 and 3 x 5 tokens agree with one backend each or with none;
  files set every key around its limits alone, and those that are compared or decide what runs in
  pairs; an interval of 3 and a
  timeout of 2 leave room for a tick between them, and two misses in a row are told from one;
  two reporters, ejection at 2 of up to 3 failures; two callers with 2 of 4 samples to judge;
  four texts and up to two queries between restarts, which give every order of texts that differ
  in what they lack, with casts that saturate at 4 and 6.
* `capacity_wraps`: at a width of 16, 4 x 5 tokens look like 4.

Requests, leases and bodies are interchangeable, and the runs that check safety of them use that as a
symmetry; runs with a liveness property do not, since a symmetry can hide a cycle.

`CHECK_DEADLOCK FALSE` is said where the system stops: a body that was dropped (`relay`,
`relay_error`), a process that refused to start, ended or aborted, and calls that the bound
exhausts (`operations`, `capacity_wraps`, `inbound`).

### Fairness

* `CapacityReturned`: weak fairness of what a worker does in a synchronous section. The
  awaits have strong fairness because a request that becomes ready may find all workers busy
  over and over and the runtime's queue is first in, first out, so it is run in the end. That an
  await ends at all is an assumption about the environment, not about the code: the code sets
  no timeout, so the property holds only for upstreams that answer and end their responses, or
  clients that give up. Without `SF` of `EndBody` a hung upstream holds its charge
  forever. Nothing is assumed of clients that send their bodies: a request being read has no charge.
* `GaugesCatchUp`: weak fairness of the sampler alone, whose loop does not await between two
  ticks. Nothing is assumed of requests, which may stop between a load and a store for ever;
  the gauge they would set is set again.
* `StartupDecides`: weak fairness of the main thread and of tokio's timer. A backend owes
  nothing, not even an end of its response.

### Findings

* `path_refused`: the description of `router_requests_total` says that admission control never sheds
  requests, and the README that the gate never refuses. `validate` does not look at the penalty; with `nan` the
  score of a backend at or above the knee compares with nothing, no tie is left, and the answer is
  503. What holds is `NeverRefuses` for a penalty that is a number, of either sign.
* `relay_error`: `tests/frame_boundary.rs` says that an error frame that straddles byte
  boundaries must still be recognised. With ASCII it is; with a multi-byte character on the
  boundary both chunks are skipped and the request is recorded as `ok`. What holds is
  `ChunkingInvisible` for chunks that decode and `LossIsLocal` for others.
* `inbound_panic`: the message of the `expect` in `ensure_usage_requested` says that
  `stream_options` is an object by then. A streamed request that has `null` or a string there
  keeps it, and the release profile aborts on a panic.
* `capacity_wraps`: a comment of `main.rs` says that a mismatch of capacities is a hard error. The
  product of the two reported numbers is a `u32`, which wraps in a release build (and panics in a
  debug build), so a mismatch by a multiple of the width passes. What holds is `MismatchRefused`
  for products that fit.

Documents say more than holds in seven more places, which the properties state as it is:

* The repository's README says "`in_flight == 0` implies `kv_projected == 0`, asserted continuously".
  Between the two atomics it does not hold; `SettledCountersAgree` does.
* It says that the error of a charge "decays to zero as the request runs". A recharge adds a
  whole step for one token; what holds is `RechargeIsBounded` and `ChargeCoversOutput`.
* `gate.rs` and `router.rs` say that the gate keeps within its limits and that concurrent
  decisions observe committed capacity. Decisions that have already read do not; what holds
  is `SlotOvershoot` and `KvOvershoot`.
* `observe.rs` describes `router_requests_total` as the total traffic. A client that leaves while
  `dispatch` is awaited is counted nowhere; what holds is `RecordedOnce`.
* A test of the estimator requires that what it says is within what was observed. `validate` does
  not look at the half-life; with 0, two observations of one moment make the estimate 0/0, which
  it stays. What holds is `EstimateWithinObserved` for positive half-lives (`DecayIsShrinking`), and
  for all of them that an answer is at least 1 and in range.
* `scrape.rs` says that names are matched with their delimiter. `info_label` takes every line that
  begins with the name, and the label by the end of its key; what holds is the last part of
  `AbsentIsNotZero`.
* `observe.rs` says that one odd prompt cannot cause the warning. A ratio has no upper limit, and
  the mean of the first 50 is out of tolerance if one of them is 7. What holds is `WarnsOnce`.

## 4. The theorems

All are for any values of the constants that satisfy the module's named assumption, and the
condition that three of them state (`PenaltyIsFinite`, `DecayIsShrinking`, `CapacitiesFit`). None
bounds the size of an instance; the bounds of the model that the code does not have
(`MaxSeen`, `MaxTime`, `MaxMisses`, `MaxFailures`, `MaxSamples`, `MaxQueries`) are any natural
number, or any positive one. Every invariant that a passing run checks is stated by a theorem.

**Leases** (`LeaseProofs`; `LeaseAssumption`: token counts and estimates are at least 1, a call
of `observe_tokens` brings no more than a recharge step).

* `LedgerBalanced` (`LedgerProofs`): the total of an account is the sum of the holders'
  deposits in it.
* `LeaseImplementsSlotLedger`, `LeaseImplementsKvLedger`: the refinements. The invariant
  needed is `RecordsOK`, the shape of a lease in each phase (what is charged, what is in the
  counters); it says nothing of the counters, so that a step of `Lease` is a deposit, a
  withdrawal or a stutter of the ledger.
* `LeaseTypeCorrect`, `LeaseCountersAgree`: the counters are in Nat and agree when settled.
  Neither is inductive by itself. Both come from `LedgerBalanced` through the refinements:
  a total is a sum of holdings, which are not negative, and is zero only if all of them are.
* `LeaseChargeCovers`, `LeaseRechargeBounded`: from `RecordsOK`.

**The request path** (`RequestPathProofs`; `PathAssumption`: there is a worker and a healthy
backend, the requests and the prompts and estimates they can have are finite sets, the two latter
are not empty, and theta and sigma are what `validate` lets pass; the penalty is anything).

* `PathImplementsLease`: every step of the handler is a step of `Lease` or none, which carries
  the theorems above over to the whole request path.
* `PathSlotOvershoot`: the invariant counts, for every backend, the requests that were
  admitted and have not yet added their slot (`Pending`). Loading `inflight` below the limit
  makes one pending; only requests on a worker are pending, and there are at most `Workers`.
  `SlotBound` says that the slots held by admitted requests and the pending ones together
  exceed the limit by less than the number of workers.
* `PathKvOvershoot`: the same for amounts. `Granted` are the requests that the gate has let past
  the KV limit of a backend, from the load on, and `GrantedUnits` what they need, as units so that a
  sum is a cardinality. `GrantsOK` bounds the units by the ceiling and the largest need for each
  worker but one. A new grant is made on a load that shows what the leases of the backend are
  charged, and that is no less than what they were granted (`ChargeOK`, since a recharge only
  adds), by the balance of the KV ledger; every other grant belongs to a request on another worker.
* `PathChargedWhileServed`, `PathRecordedOnce`, `PathTypeCorrect`: from `PathIInv`, which says for
  every place of `pc` what the lease, the locals of `pick` and the counter of results are.
* `PathNeverRefuses`: assumes `PenaltyIsFinite`. No score is then NaN, so the first backend of the
  pool is a tie, and from then on the minimum is a number and has one.
* `TraceExplainsDecision` (of `PickTrace`): for any number of workers and any penalty.
  `TraceSpec` refines `PathSpec`, so `PathIInv` holds. A decision is right about the backends whose
  counters have not moved since it began (`Settled`): `TraceIInv` says that what has been found out
  of these so far, by the gate, by the scores and by the trace, still holds of the counters. A step of
  another request moves counters and takes their backends out of `Settled`; a step of the request
  itself adds what it has just loaded. The rest is the order of fractions with infinities and NaN.

**The relay** (`SseRelayProofs`; `RelayAssumption`: streams are made of lines).

* `RelayChunkingInvisible`, `RelayVerdictFollowsStream`: the invariant `RelayIInv` says that
  the buffer holds the last pieces relayed, from the last newline taken out (`Drained`) on,
  and that the counts are those of the lines up to it.
* `RelayLossIsLocal`, `RelayTypeCorrect`: `RelayIInv` says nothing once a chunk did not decode. `LossOK`
  does: the buffer is a subsequence of the stream from some newline on with all that is missing
  undecoded (`Place`), and up to that newline what is counted and the lines that ended differ by no
  more than two for each line damaged (`Tally`): a damaged line may be lost, and with its
  newline lost it may swallow the next.

**The estimator and requests** (`InboundProofs`; `EstimatorAssumption`: lengths are positive and
fit the width, a decay is a fraction that is not negative, or NaN; `InboundAssumption`: a body has
the shape of a body, the limit and the divisors are positive).

* `EstimatorWithinObserved`, `EstimatorAnswersAreUsable`: of `EstimatorSpec`. The first assumes
  `DecayIsShrinking`, a positive half-life. The second does not: at least 1 and in range come from the
  cast, and only what it says of the lengths observed is conditional on it. `EstimatorIInv` adds
  the types and what is known of the last answer. The blend of a fraction between two lengths with a
  length is between the least and the greatest of the three, by lemmas on products of naturals;
  rounding a fraction to the nearest number does not leave an interval with whole ends.
* `RequestsAreCounted`: what saturates step by step is the saturated total
  (`SaturatingAtTheEnd`), and a total of parts rounded up exceeds the rounded total by less than the
  number of parts (`AllTexts`). Both are about totals that run over all the texts; where an
  induction would be made, the proofs take the least text at which the claim fails.
* `UsageIsAskedFor`, `LengthIsTrue`: from the shape of a body and of the rebuilt request.

**The other strategies and the sampler** (`BalancingProofs`; `StrategiesAssumption`: a healthy
backend, and none twice; `SamplerAssumption`: positive capacities and ceiling).

* `StalenessIsBounded`, `RotationIsEven`: `StrategiesIInv` is `RecordsOK` with `PicksOK`, the locals of
  a pick in each place, `RotationOK`, by which the backends before the next one of round
  robin have had one turn more than the others, and `StalenessOK`, by which each value loaded is
  within `moves` of the counter. One step of another request moves a counter by what it adds to
  `moves`.
* `TicksAreTrue`: the two values that an occupancy is computed from are loaded at different moments.
  `SamplerIInv` says of each of them that, if it alone puts the backend at its ceiling, the backend was
  there while the sampler looked.

**The collectors, readings and warnings** (`MonitoringProofs`; `CollectorAssumption`: the timeout is
positive and shorter than the interval, which `validate` enforces, as `Startup` has it;
`ReadingsAssumption`: a text is a sequence of lines, the counters it reports are the backend's or NaN,
and absent and NaN are no numbers;
`WarnOnceAssumption`: finitely many callers).

* `CollectorReadingWithinTimeout`: needs `TasksOK`, by which a fetch is never older than the
  timeout, and what the backend sampled never older than the fetch.
* `CollectorAgeIsOwnDoing`: not inductive. `AgesOK` bounds the age by the countdown of the
  collector's own timer: an interval for each miss, plus what has passed of the current one,
  plus an interval while a fetch is under way that may become a miss.
* `CollectorReadingNeverLost`: an action property, from the invariant.
* `AbsentStaysAbsent`: for any texts. The first of the lines that tell a value is one of them, so a
  field is absent exactly if no line tells it, and what it shows is the cast of what a line said; the
  history of what was said only grows.
* `HitRateIsARate`: `SampleOK` compares the sample kept with the counters of the backend: as long as it was
  not restarted both have grown, the hits by no more than the queries.
* `WarnNoSampleLost`: what the statics lack is what the calls under way owe them, and that is
  a ledger: the proof instantiates `LedgerProofs` with callers for holders, the two statics for
  accounts and `Owed` for the deposits.
* `WarnWarnsOnce`: inductive as it stands.

**Health and startup** (`OperationsProofs`; `HealthAssumption`: ejection takes at least one failure;
`StartupAssumption`: the files are files that parse (`Parses`), and the two numbers of a capacity
reported fit the width).

* `HealthEjectedWhenFailing`: `BackendOK` adds what holds in the middle of a call that nobody
  overlaps: the count is already that of the reports, the flag is one report behind.
* `RouterIsSound`, `RefusalIsAboutTheFile`, `NothingRunsOnAMismatch`: `StartupIInv` says that what
  `main` has decided so far follows from the file (`DecidedOK`), that every report
  agrees while no mismatch is known (`ReportsOK`), that there is one report for each backend asked
  (`AskedOK`), and that what is spawned comes after all of them (`SpawnedOK`). What passes every
  check satisfies the assumptions of the modules above, which assume nothing of the penalty and the
  half-life, and the first check that fails is true of the file. `NothingRunsOnAMismatch` assumes
  `CapacitiesFit`: no product reaches the width.

Only model-checked: liveness, which is out of the prover's reach (`CapacityReturned`,
`StartupDecides`, `GaugesCatchUp`), and what the runs that expect a violation show.

## 5. Not modelled

* Bytes, JSON and TOML syntax, command line arguments, the parsing of floats and the wording of
  errors and logs. Parsers appear by their results.
* Histograms, counters and descriptions handed to the metrics exporter other than those above,
  and the sampling of which decisions are logged: nothing reads them back.
* `first_token_at` and other times that are only recorded.
* hyper, tokio and the rest of what the program links, beyond what the actions assume of them.
* The measurement harness (`phase0/`) and the benchmark configurations (`bench/`): scripts that
  run the router from outside.
* Four hazards without a property, since the repository promises nothing about them: a body that
  breaks off is recorded as one that ends (`proxy/upstream.rs:89`), a huge `max_tokens` becomes a small
  estimate (`proxy/inbound.rs:53`), a failed `accept` ends the program (`proxy/listener.rs:14`), and
  the drift is always computed from a fresh reading, so its staleness guard is never reached (`proxy/signal/mod.rs:178`).

What could follow: a composition of `SseRelay` with `Lease`, where one chunk recharges several
times.
