------------------------------ MODULE MCReadings ------------------------------
(***************************************************************************)
(* Readings for TLC: the texts of four backends.                           *)
(***************************************************************************)
EXTENDS Readings

\* Texts of the simulator, of vLLM, of a backend whose lines are cut, unquoted or
\* no numbers, and of one whose values fit no count and whose names and keys end
\* or begin in others.
Line(base, suffix, value) ==
    [base |-> base, suffix |-> suffix, closed |-> TRUE, labels |-> << >>, value |-> value]
Cut(line) == [line EXCEPT !.closed = FALSE]

Label(key, value) == [before |-> "bare", key |-> key, quoted |-> TRUE, value |-> value]
Unquoted(label) == [label EXCEPT !.quoted = FALSE]
Info(labels) == [Line("cache_config_info", "bare", 100) EXCEPT !.labels = labels]

SimulatorText(kv, c) ==
    << Line("kv_cache_usage_perc", "bare", kv), Line("num_requests_running", "bare", 100),
       Line("num_requests_waiting", "bare", 300),
       Line("prefix_cache_hits", "bare", 100 * c.hits),
       Line("prefix_cache_queries", "bare", 100 * c.queries),
       Info(<< Label("block_size", 16), Label("num_gpu_blocks", 512) >>) >>

VllmText(kv, c) ==
    << Line("prefix_cache_hits", "_created", 9900),
       Line("prefix_cache_hits", "_total", 100 * c.hits),
       Line("prefix_cache_queries", "_total", 100 * c.queries),
       Line("num_preemptions", "_created", 9900), Line("num_preemptions", "_total", 200),
       Line("kv_cache_usage_perc", "bare", kv),
       Cut(Info(<< Label("block_size", 8) >>)),
       Info(<< Label("num_gpu_blocks", 512), Label("block_size", 16) >>) >>

BrokenText ==
    << Line("kv_cache_usage_perc", "bare", Absent),
       Cut(Line("prefix_cache_hits", "bare", 100)),
       Info(<< Unquoted(Label("block_size", 8)) >>),
       Info(<< Label("block_size", 16), Label("num_gpu_blocks", 512) >>) >>

OddText(c) ==
    << Line("kv_cache_usage_perc", "bare", NotANumber),
       Line("num_requests_running", "bare", NotANumber),
       Line("num_requests_waiting", "bare", -50), Line("num_preemptions", "bare", 700),
       Line("prefix_cache_hits", "bare", NotANumber),
       Line("prefix_cache_queries", "bare", 100 * c.queries),
       [Info(<< [Label("block_size", 8) EXCEPT !.before = "mamba_"],
                Label("num_gpu_blocks", 512) >>) EXCEPT !.suffix = "_last"] >>

SomeTexts(c) ==
    {SimulatorText(50, c), VllmText(4, c), BrokenText, OddText(c)}

\* In percent of the capacity.
SomeProjections == {60}

=============================================================================
