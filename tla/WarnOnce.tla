------------------------------- MODULE WarnOnce -------------------------------
(***************************************************************************)
(* The warn-once check of a running mean in observe.rs, of                 *)
(* record_prompt_token_ratio, called by response bodies, and of            *)
(* record_projection_drift, called by collectors: both keep a count, a sum *)
(* and a flag in statics that all callers share.                           *)
(*                                                                         *)
(* The two additions are Relaxed and on different locations, so neither    *)
(* order of them is kept.  Ratios are in thousandths, as in the code.      *)
(***************************************************************************)
EXTENDS Integers, FiniteSets

CONSTANTS
    Callers,        \* the threads that may be inside the function at once
    Ratios,         \* the ratios, rounded to thousandths
    MinSamples,     \* MIN_SAMPLES
    Low, High,      \* the range of a mean that is not warned about
    MaxSamples      \* bound of the model: calls

ASSUME WarnOnceAssumption ==
    /\ IsFiniteSet(Callers) /\ Callers # {}
    /\ Ratios \subseteq Nat
    /\ MinSamples \in Nat \ {0} /\ MaxSamples \in Nat
    /\ Low \in Nat /\ High \in Nat

VARIABLES
    SAMPLES, SUM_MILLI, WARNED,     \* the statics
    call,           \* the locals of the call each caller is in
    began,          \* history: how many calls began, and their ratios' sum
    warnings        \* history: how often the warning was logged

warnVars == <<SAMPLES, SUM_MILLI, WARNED, call, began, warnings>>

\* todo is which of the additions are not done.
NoCall == [pc |-> "idle", milli |-> 0, n |-> 0, sum |-> 0, todo |-> {}]
CallRecord ==
    [pc : {"idle", "adding", "judging", "warning"}, milli : Nat,
     n : Nat, sum : Nat, todo : SUBSET {"n", "sum"}]

-----------------------------------------------------------------------------
Record(c, milli) ==
    /\ call[c].pc = "idle" /\ began.count < MaxSamples
    /\ call' = [call EXCEPT ![c] = [NoCall EXCEPT !.pc = "adding", !.milli = milli,
                                                     !.todo = {"n", "sum"}]]
    /\ began' = [count |-> began.count + 1, sum |-> began.sum + milli]
    /\ UNCHANGED <<SAMPLES, SUM_MILLI, WARNED, warnings>>

\* SAMPLES.fetch_add.
AddSample(c) ==
    /\ call[c].pc = "adding" /\ "n" \in call[c].todo
    /\ SAMPLES' = SAMPLES + 1
    /\ call' = [call EXCEPT ![c].n = SAMPLES + 1,
                            ![c].todo = @ \ {"n"},
                            ![c].pc = IF "sum" \in call[c].todo THEN @ ELSE "judging"]
    /\ UNCHANGED <<SUM_MILLI, WARNED, began, warnings>>

\* Mutant: the early return for few samples comes before the sum.
AddSumFromMin(c) ==
    /\ call[c].pc = "adding" /\ "sum" \in call[c].todo
    /\ SUM_MILLI' = SUM_MILLI + IF SAMPLES < MinSamples THEN 0 ELSE call[c].milli
    /\ call' = [call EXCEPT ![c].sum = SUM_MILLI', ![c].todo = @ \ {"sum"},
                            ![c].pc = IF "n" \in call[c].todo THEN @ ELSE "judging"]
    /\ UNCHANGED <<SAMPLES, WARNED, began, warnings>>

\* SUM_MILLI.fetch_add.
AddSum(c) ==
    /\ call[c].pc = "adding" /\ "sum" \in call[c].todo
    /\ SUM_MILLI' = SUM_MILLI + call[c].milli
    /\ call' = [call EXCEPT ![c].sum = SUM_MILLI', ![c].todo = @ \ {"sum"},
                            ![c].pc = IF "n" \in call[c].todo THEN @ ELSE "judging"]
    /\ UNCHANGED <<SAMPLES, WARNED, began, warnings>>

\* The mean of the call's locals is out of range.
OutOfRange(k) == k.sum < Low * k.n \/ k.sum > High * k.n

\* Too few samples, WARNED already set, or a mean in range: return.
Judge(c) ==
    LET k == call[c] IN
    /\ k.pc = "judging"
    /\ call' = [call EXCEPT ![c] =
                  IF k.n < MinSamples \/ WARNED \/ ~OutOfRange(k)
                  THEN NoCall ELSE [k EXCEPT !.pc = "warning"]]
    /\ UNCHANGED <<SAMPLES, SUM_MILLI, WARNED, began, warnings>>

\* Mutant: a store in the place of the compare_exchange.
WarnStoring(c) ==
    /\ call[c].pc = "warning"
    /\ WARNED' = TRUE
    /\ warnings' = warnings + 1
    /\ call' = [call EXCEPT ![c] = NoCall]
    /\ UNCHANGED <<SAMPLES, SUM_MILLI, began>>

\* The compare_exchange, and the warning of the one that wins it.
Warn(c) ==
    /\ call[c].pc = "warning"
    /\ WARNED' = TRUE
    /\ warnings' = IF WARNED THEN warnings ELSE warnings + 1
    /\ call' = [call EXCEPT ![c] = NoCall]
    /\ UNCHANGED <<SAMPLES, SUM_MILLI, began>>

WarnInit ==
    /\ SAMPLES = 0 /\ SUM_MILLI = 0 /\ WARNED = FALSE
    /\ call = [c \in Callers |-> NoCall]
    /\ began = [count |-> 0, sum |-> 0]
    /\ warnings = 0

WarnStep(c) ==
    \/ \E milli \in Ratios : Record(c, milli)
    \/ AddSample(c) \/ AddSum(c) \/ Judge(c) \/ Warn(c)

WarnNext == \E c \in Callers : WarnStep(c)

WarnSpec == WarnInit /\ [][WarnNext]_warnVars

-----------------------------------------------------------------------------
(***************************************************************************)
(* Properties.                                                             *)
(***************************************************************************)

\* "warns exactly once", whatever callers judge at the same time
\* (observe.rs:233-237, 356-360).
WarnsOnce == warnings = IF WARNED THEN 1 ELSE 0

\* When nobody is inside, the statics hold every call and nothing else
\* (observe.rs:225-226, 348-349).
NoSampleLost ==
    (\A c \in Callers : call[c].pc = "idle") =>
        SAMPLES = began.count /\ SUM_MILLI = began.sum
=============================================================================
