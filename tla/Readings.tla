------------------------------- MODULE Readings -------------------------------
(***************************************************************************)
(* What the collector of one backend makes of the text of /metrics:        *)
(* scrape.rs, drift.rs and record_scraped_metrics of observe.rs.           *)
(*                                                                         *)
(* A text is a sequence of lines.  The name of a line is a base and a      *)
(* suffix ("bare" for none), since the code looks for both and for lines   *)
(* that merely begin with a name; the key of a label is what it is looked  *)
(* for by and what stands before that, since the code looks for its end.   *)
(* A value is a number of hundredths or NaN, a ratio is in thousandths.    *)
(* An infinite value acts like one too large for any cast.                 *)
(***************************************************************************)
EXTENDS Integers, Sequences

CONSTANTS
    Texts(_),       \* the texts a backend with these counters may send
    Projections,    \* kv_projected_tokens, in percent of the capacity
    MaxQueries,     \* bound of the model: prefix cache queries between restarts
    U32, U64,       \* 2^32 and 2^64, the ranges of the casts
    NotANumber,     \* NaN
    Absent          \* None; as a value, text that is no number

VARIABLES
    counters,       \* the prefix cache counters of the backend process
    restarted,      \* history: it was restarted since it was last scraped
    prev_sample,
    load,           \* the ReportedLoad stored last
    gauges,         \* the gauges of the backend, Absent before they are set
    capacity,       \* what main read of the capacity before all that
    truth           \* history: what the texts said, see Truth

readingsVars == <<counters, restarted, prev_sample, load, gauges, capacity,
                  truth>>

Gauges == {"kv_usage", "running", "waiting", "hit_rate", "preemptions", "drift"}

-----------------------------------------------------------------------------
Labels == [before : STRING, key : STRING, quoted : BOOLEAN, value : Nat \cup {Absent}]
Lines ==
    [base : STRING, suffix : STRING, closed : BOOLEAN, labels : Seq(Labels),
     value : Int \cup {NotANumber, Absent}]

\* The value of the first of these lines.
First(positions) == CHOOSE i \in positions : \A j \in positions : i =< j
ValueAt(text, positions) == IF positions = {} THEN Absent ELSE text[First(positions)].value

\* Mutant: the name is not anchored.
MetricValueUnanchored(text, base, suffix) ==
    ValueAt(text, {i \in 1 .. Len(text) : /\ text[i].base = base
                                          /\ text[i].closed /\ text[i].value # Absent})

\* The lines of this very name whose value can be parsed.
Tells(line, base, suffix) ==
    line.base = base /\ line.suffix = suffix /\ line.closed /\ line.value # Absent

\* metric_value: the first of them.
MetricValue(text, base, suffix) ==
    ValueAt(text, {i \in 1 .. Len(text) : Tells(text[i], base, suffix)})

\* counter_value: the bare name, then the one with _total.
CounterValue(text, base) ==
    IF MetricValue(text, base, "bare") # Absent THEN MetricValue(text, base, "bare")
                                          ELSE MetricValue(text, base, "_total")

\* The first label of a line that ends in this key.
Keyed(line, key) == {k \in 1 .. Len(line.labels) : line.labels[k].key = key}
LabelOf(line, key) == line.labels[First(Keyed(line, key))]

\* info_label: on the lines that begin with this name, the first label that
\* ends in this key, if its value is quoted.
InfoLabel(text, base, key) ==
    LET lines == {i \in 1 .. Len(text) : /\ text[i].base = base /\ text[i].closed
                                         /\ Keyed(text[i], key) # {}
                                         /\ LabelOf(text[i], key).quoted}
    IN  IF lines = {} THEN Absent ELSE LabelOf(text[First(lines)], key).value

\* parse_capacity; Absent is also a value that is no u32.
ParseCapacity(text) ==
    LET size == InfoLabel(text, "cache_config_info", "block_size")
        blocks == InfoLabel(text, "cache_config_info", "num_gpu_blocks")
    IN  IF Absent \in {size, blocks} THEN Absent
        ELSE [block_size |-> size, num_gpu_blocks |-> blocks]

\* Mutant: the hits since the start over the queries since the last sample.
HitRateOfTotals(prev, cur) ==
    IF prev = Absent \/ Absent \in {prev.hits, prev.queries, cur.hits, cur.queries} THEN Absent
    ELSE IF NotANumber \in {prev.queries, cur.queries} THEN Absent
    ELSE IF cur.queries =< prev.queries THEN Absent
    ELSE IF NotANumber \in {prev.hits, cur.hits} THEN NotANumber
    ELSE [num |-> cur.hits, den |-> cur.queries - prev.queries]

\* The windowed rate, as a fraction.  A difference with NaN is NaN, and no
\* more than 0.
HitRate(prev, cur) ==
    IF prev = Absent \/ Absent \in {prev.hits, prev.queries, cur.hits, cur.queries} THEN Absent
    ELSE IF NotANumber \in {prev.queries, cur.queries} THEN Absent
    ELSE IF cur.queries =< prev.queries THEN Absent
    ELSE IF NotANumber \in {prev.hits, cur.hits} THEN NotANumber
    ELSE [num |-> cur.hits - prev.hits, den |-> cur.queries - prev.queries]

CounterSample(text) ==
    [hits |-> CounterValue(text, "prefix_cache_hits"),
     queries |-> CounterValue(text, "prefix_cache_queries")]

\* A cast of an f64: what is negative or NaN becomes 0, a fraction is cut off,
\* and what is too large becomes the largest of the type.
Cast(value, width) ==
    IF value = NotANumber THEN 0
    ELSE IF value < 0 THEN 0
    ELSE IF value \div 100 < width THEN value \div 100
    ELSE width - 1

\* What a gauge shows of a value: the casts of parse_reported.
Shown(gauge, value) ==
    CASE value = Absent -> Absent
      [] value # Absent /\ gauge = "kv_usage" -> value
      [] value # Absent /\ gauge \in {"running", "waiting"} -> Cast(value, U32)
      [] value # Absent /\ gauge = "preemptions" -> Cast(value, U64)

\* parse_reported, without the time.
ParseReported(text, prev) ==
    [kv_usage |-> Shown("kv_usage", MetricValue(text, "kv_cache_usage_perc", "bare")),
     running |-> Shown("running", MetricValue(text, "num_requests_running", "bare")),
     waiting |-> Shown("waiting", MetricValue(text, "num_requests_waiting", "bare")),
     preemptions |-> Shown("preemptions", CounterValue(text, "num_preemptions")),
     hit_rate |-> HitRate(prev, CounterSample(text))]

\* projection_drift of a fresh reading: nothing when either side is below 5 %,
\* which NaN is not.
Drift(r, projected) ==
    IF r = Absent THEN Absent
    ELSE IF r # NotANumber /\ r < 5 THEN Absent
    ELSE IF projected < 5 THEN Absent
    ELSE IF r = NotANumber THEN NotANumber
    ELSE (1000 * projected) \div r

\* record_scraped_metrics: a gauge is set when there is a value.
Set(gauge, value) == IF value = Absent THEN gauge ELSE value

-----------------------------------------------------------------------------
\* The name a gauge is read under.
Base(gauge) ==
    CASE gauge = "kv_usage" -> "kv_cache_usage_perc"
      [] gauge = "running" -> "num_requests_running"
      [] gauge = "waiting" -> "num_requests_waiting"
      [] gauge = "preemptions" -> "num_preemptions"

ReadGauges == {"kv_usage", "running", "waiting", "preemptions"}
Spellings(gauge) == IF gauge = "preemptions" THEN {"bare", "_total"} ELSE {"bare"}

\* All that a text says under the name of a gauge.
Said(text, gauge) ==
    {text[i].value : i \in {j \in 1 .. Len(text) :
                               \E s \in Spellings(gauge) : Tells(text[j], Base(gauge), s)}}

\* The quoted labels of the lines that begin with the name of the capacity.
QuotedOn(line) ==
    {[key |-> line.labels[k].key, value |-> line.labels[k].value] :
       k \in {j \in 1 .. Len(line.labels) : line.labels[j].quoted}}

Quoted(text) ==
    UNION {QuotedOn(text[i]) : i \in {j \in 1 .. Len(text) :
             text[j].base = "cache_config_info" /\ text[j].closed}}

\* history: what has been said under the name of each gauge, the gauges the
\* last text said nothing for, whether a counter was NaN in the last two texts
\* or the backend restarted between them, and what main read the capacity from.
Truth ==
    [said : [ReadGauges -> SUBSET (Int \cup {NotANumber})], silent : SUBSET ReadGauges,
     nan : BOOLEAN, restarted : BOOLEAN,
     info : SUBSET [key : STRING, value : Nat \cup {Absent}]]

\* A text reports the counters as they are, or NaN, or not at all.
Reports(text, base, count) ==
    \A i \in 1 .. Len(text) : \A s \in {"bare", "_total"} :
        Tells(text[i], base, s) => text[i].value \in {NotANumber, 100 * count}

ASSUME ReadingsAssumption ==
    /\ Projections \subseteq Int /\ MaxQueries \in Nat
    /\ U32 \in Nat \ {0} /\ U64 \in Nat \ {0}
    /\ Absent # NotANumber
    /\ {Absent, NotANumber} \cap (Int \cup [num : Int, den : Int]) = {}
    /\ \A c \in [hits : 0 .. MaxQueries, queries : 0 .. MaxQueries] :
           \A text \in Texts(c) :
               /\ text \in Seq(Lines)
               /\ Reports(text, "prefix_cache_hits", c.hits)
               /\ Reports(text, "prefix_cache_queries", c.queries)

-----------------------------------------------------------------------------
\* The backend serves requests, or starts again.
Queried(hit) ==
    /\ counters.queries < MaxQueries
    /\ counters' = [hits |-> counters.hits + hit, queries |-> counters.queries + 1]
    /\ UNCHANGED <<restarted, prev_sample, load, gauges, capacity, truth>>

Restart ==
    /\ counters' = [hits |-> 0, queries |-> 0]
    /\ restarted' = TRUE
    /\ UNCHANGED <<prev_sample, load, gauges, capacity, truth>>

HasNaN(sample) == NotANumber \in {sample.hits, sample.queries}

\* The Ok arm of collect_loop.
ScrapeOk(text, projected) ==
    LET new == ParseReported(text, prev_sample)
        drift == Drift(new.kv_usage, projected)
    IN  /\ load' = new
        /\ prev_sample' = CounterSample(text)
        /\ gauges' = [g \in Gauges |-> Set(gauges[g], IF g = "drift" THEN drift ELSE new[g])]
        /\ truth' = [said |-> [g \in ReadGauges |-> truth.said[g] \cup Said(text, g)],
                     silent |-> {g \in ReadGauges : Said(text, g) = {}},
                     nan |-> \/ prev_sample # Absent /\ HasNaN(prev_sample)
                            \/ HasNaN(prev_sample'),
                     restarted |-> restarted, info |-> truth.info]
        /\ restarted' = FALSE
        /\ UNCHANGED <<counters, capacity>>

\* validate_backend_capacities reads the capacity before any collector runs.
ReadCapacity(text) ==
    /\ load = Absent
    /\ capacity' = ParseCapacity(text)
    /\ truth' = [truth EXCEPT !.info = Quoted(text)]
    /\ UNCHANGED <<counters, restarted, prev_sample, load, gauges>>

ReadingsInit ==
    /\ counters = [hits |-> 0, queries |-> 0]
    /\ restarted = FALSE
    /\ prev_sample = Absent /\ load = Absent /\ capacity = Absent
    /\ gauges = [g \in Gauges |-> Absent]
    /\ truth = [said |-> [g \in ReadGauges |-> {}], silent |-> ReadGauges, nan |-> FALSE,
                restarted |-> FALSE, info |-> {}]

ReadingsNext ==
    \/ \E hit \in 0 .. 1 : Queried(hit)
    \/ Restart
    \/ \E text \in Texts(counters) : ReadCapacity(text)
    \/ \E text \in Texts(counters), p \in Projections : ScrapeOk(text, p)

ReadingsSpec == ReadingsInit /\ [][ReadingsNext]_readingsVars

-----------------------------------------------------------------------------
(***************************************************************************)
(* Properties.                                                             *)
(***************************************************************************)

\* "Absent metrics return None, never zero": whatever is missing, cut, unquoted
\* or spelled with a suffix, a reading has a field exactly if its text has a
\* line of that very name with a value, and a gauge shows a value that some
\* text gave under its name, as the cast leaves it.  So a 0 stands for a 0, a
\* fraction, NaN or a negative value that was sent, and never for a line that
\* was not.  The capacity that main asserts was quoted on lines that begin with
\* its name (scrape.rs:43-159, 206-211, observe.rs:287-323).
AbsentIsNotZero ==
    /\ load # Absent => \A g \in ReadGauges : load[g] = Absent <=> g \in truth.silent
    /\ \A g \in ReadGauges :
           gauges[g] = Absent \/ \E v \in truth.said[g] : gauges[g] = Shown(g, v)
    /\ capacity # Absent => \A key \in DOMAIN capacity :
           \E l \in truth.info : l.key = key /\ l.value = capacity[key]

\* The windowed hit rate is a rate as long as the backend keeps running, even
\* if some texts between lack the counters or spell them otherwise.  It is NaN
\* only if a counter was sent as NaN (scrape.rs:182-205).
HitRateIsRate ==
    load # Absent /\ ~truth.restarted =>
        \/ load.hit_rate = Absent
        \/ load.hit_rate = NotANumber /\ truth.nan
        \/ load.hit_rate # NotANumber /\ load.hit_rate.num \in 0 .. load.hit_rate.den

=============================================================================
