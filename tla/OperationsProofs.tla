--------------------------- MODULE OperationsProofs ---------------------------
(***************************************************************************)
(* What the count and the flag of a backend say, for any pool, any number  *)
(* of reporters and any limit of failures; and what a router that starts   *)
(* has established, and a refusal to start says, for any set of files and  *)
(* any capacities that the backends report.                                *)
(***************************************************************************)
EXTENDS Health, Startup, SequenceTheorems, WellFoundedInduction, TLAPS

-----------------------------------------------------------------------------
(***************************************************************************)
(* The health state.                                                       *)
(***************************************************************************)

ReportRecord == [pc : {"idle", "counted", "forgiven"}, backend : PoolSet \cup {0}, n : Nat]
TallyRecord == [failures : Nat, overlapped : BOOLEAN]

\* t is in a call about b, and nobody else is.
InCall(t, b) == report[t].pc # "idle" /\ report[t].backend = b
OnlyIn(t, b) == \A s \in Reporters \ {t} : ~InCall(s, b)

RecordsOK ==
    /\ consecutive_failures \in [PoolSet -> Nat]
    /\ ejected \in [PoolSet -> BOOLEAN]
    /\ report \in [Reporters -> ReportRecord]
    /\ \A t \in Reporters : report[t].pc # "idle" => report[t].backend \in PoolSet
    /\ tally \in [PoolSet -> TallyRecord]

\* Between calls count and flag say what was reported ...
Settled(b) ==
    /\ consecutive_failures[b] = tally[b].failures
    /\ ejected[b] <=> tally[b].failures >= EjectAfter

\* ... and in a call that nobody overlaps the flag is one report behind.
Underway(t, b) ==
    /\ OnlyIn(t, b)
    /\ consecutive_failures[b] = tally[b].failures
    /\ report[t].pc = "counted" =>
           /\ report[t].n = tally[b].failures /\ tally[b].failures > 0
           /\ ejected[b] <=> tally[b].failures - 1 >= EjectAfter
    /\ report[t].pc = "forgiven" => tally[b].failures = 0

BackendOK(b) ==
    ~tally[b].overlapped =>
        /\ Quiet(b) => Settled(b)
        /\ \A t \in Reporters : InCall(t, b) => Underway(t, b)

HealthIInv == RecordsOK /\ \A b \in PoolSet : BackendOK(b)

-----------------------------------------------------------------------------
LEMMA QuietMeans == \A b : Quiet(b) <=> \A t \in Reporters : ~InCall(t, b)
BY DEF Quiet, InCall

LEMMA NoReportType == NoReport \in ReportRecord /\ NoReport.pc = "idle"
BY DEF NoReport, ReportRecord

LEMMA InitHealth == HealthInit => HealthIInv
<1> SUFFICES ASSUME HealthInit PROVE HealthIInv
    OBVIOUS
<1>1. \A t \in Reporters : report[t] = NoReport
    BY DEF HealthInit
<1>2. RecordsOK
    <2>1. report \in [Reporters -> ReportRecord]
        BY NoReportType DEF HealthInit
    <2>2. tally \in [PoolSet -> TallyRecord]
        BY DEF HealthInit, TallyRecord
    <2> QED
        BY <1>1, <2>1, <2>2, NoReportType DEF HealthInit, RecordsOK
<1>3. ASSUME NEW b \in PoolSet PROVE BackendOK(b)
    <2>1. \A t \in Reporters : ~InCall(t, b)
        BY <1>1, NoReportType DEF InCall
    <2>2. Settled(b)
        BY HealthAssumption DEF HealthInit, Settled
    <2> QED
        BY <2>1, <2>2 DEF BackendOK
<1> QED
    BY <1>2, <1>3 DEF HealthIInv

-----------------------------------------------------------------------------
\* A step of t about b leaves the other backends as they are.
LEMMA OtherBackends ==
    ASSUME HealthIInv, NEW t \in Reporters, NEW b \in PoolSet,
           NEW c \in PoolSet, c # b,
           ~InCall(t, c), ~InCall(t, c)',
           \A s \in Reporters \ {t} : report'[s] = report[s],
           consecutive_failures'[c] = consecutive_failures[c],
           ejected'[c] = ejected[c], tally'[c] = tally[c]
    PROVE  BackendOK(c)'
<1>1. BackendOK(c)
    BY DEF HealthIInv
<1>2. \A s \in Reporters : InCall(s, c)' <=> InCall(s, c)
    BY DEF InCall
<1>3. Quiet(c)' <=> Quiet(c)
    <2>1. Quiet(c)' <=> \A s \in Reporters : ~InCall(s, c)'
        BY DEF Quiet, InCall
    <2> QED
        BY <1>2, <2>1, QuietMeans
<1>4. Settled(c)' <=> Settled(c)
    BY DEF Settled
<1>5. ASSUME NEW s \in Reporters, InCall(s, c)
      PROVE  Underway(s, c)' <=> Underway(s, c)
    <2>1. s # t /\ report'[s] = report[s]
        BY <1>5
    <2>2. OnlyIn(s, c)' <=> OnlyIn(s, c)
        BY <1>2 DEF OnlyIn
    <2> QED
        BY <2>1, <2>2 DEF Underway
<1> QED
    BY <1>1, <1>2, <1>3, <1>4, <1>5 DEF BackendOK

\* A call on b begins: if it is not overlapped, all was settled.
LEMMA BeginStep ==
    ASSUME HealthIInv, NEW t \in Reporters, NEW b \in PoolSet, NEW k \in ReportRecord,
           NEW f \in Nat,
           report[t].pc = "idle", k.pc # "idle", k.backend = b,
           report' = [report EXCEPT ![t] = k],
           consecutive_failures' = [consecutive_failures EXCEPT ![b] = f],
           ejected' = ejected,
           NEW g \in Nat, Begins(b, g),
           ~tally[b].overlapped /\ Quiet(b) /\ Settled(b) =>
               /\ f = g
               /\ k.pc = "counted" => k.n = g /\ g = tally[b].failures + 1
               /\ k.pc = "forgiven" => g = 0
    PROVE  HealthIInv'
<1>1. /\ report'[t] = k /\ \A s \in Reporters \ {t} : report'[s] = report[s]
      /\ consecutive_failures'[b] = f
      /\ \A c \in PoolSet \ {b} : consecutive_failures'[c] = consecutive_failures[c]
    BY DEF HealthIInv, RecordsOK
<1>2. /\ tally'[b] = [failures |-> g, overlapped |-> tally[b].overlapped \/ ~Quiet(b)]
      /\ \A c \in PoolSet \ {b} : tally'[c] = tally[c]
      /\ tally' \in [PoolSet -> TallyRecord]
    BY DEF HealthIInv, RecordsOK, Begins, TallyRecord
<1>3. RecordsOK'
    BY <1>1, <1>2 DEF HealthIInv, RecordsOK
<1>4. BackendOK(b)'
    <2> SUFFICES ASSUME ~tally'[b].overlapped PROVE BackendOK(b)'
        BY DEF BackendOK
    <2>1. ~tally[b].overlapped /\ Quiet(b)
        <3> DEFINE o == tally[b].overlapped \/ ~Quiet(b)
        <3>1. tally'[b] = [failures |-> g, overlapped |-> o]
            BY <1>2
        <3> HIDE DEF o
        <3>2. tally'[b].overlapped = o
            BY <3>1
        <3>3. ~o
            BY <3>2
        <3> QED
            BY <3>3 DEF o
    <2>2. Settled(b)
        BY <2>1 DEF HealthIInv, BackendOK
    <2>3. \A s \in Reporters \ {t} : ~InCall(s, b)'
        BY <1>1, <2>1, QuietMeans DEF InCall
    <2>4. InCall(t, b)'
        BY <1>1 DEF InCall
    <2>5. ~Quiet(b)'
        BY <1>1 DEF Quiet
    <2>6. tally'[b].failures = g
        BY <1>2
    <2>7. k.pc = "counted" =>
              /\ k.n = g /\ g > 0
              /\ ejected[b] <=> g - 1 >= EjectAfter
        BY <2>1, <2>2, HealthAssumption DEF Settled, HealthIInv, RecordsOK, TallyRecord
    <2>8. Underway(t, b)'
        BY <1>1, <2>1, <2>2, <2>3, <2>6, <2>7 DEF Underway, OnlyIn
    <2> QED
        BY <2>3, <2>4, <2>5, <2>8 DEF BackendOK
<1>5. ASSUME NEW c \in PoolSet, c # b PROVE BackendOK(c)'
    <2>1. ~InCall(t, c) /\ ~InCall(t, c)'
        BY <1>1, <1>5 DEF InCall
    <2> QED
        BY <1>1, <1>2, <1>5, <2>1, OtherBackends
<1> QED
    BY <1>3, <1>4, <1>5 DEF HealthIInv

LEMMA CountFailureStep ==
    ASSUME HealthIInv, NEW t \in Reporters, NEW b \in PoolSet, CountFailure(t, b)
    PROVE  HealthIInv'
<1> DEFINE f == consecutive_failures[b] + 1
           g == tally[b].failures + 1
           k == [pc |-> "counted", backend |-> b, n |-> f]
<1>1. f \in Nat /\ g \in Nat
    BY DEF HealthIInv, RecordsOK, TallyRecord
<1>2. k \in ReportRecord /\ k.pc = "counted" /\ k.backend = b /\ k.n = f
    BY <1>1 DEF ReportRecord
<1>3. /\ report[t].pc = "idle" /\ report' = [report EXCEPT ![t] = k]
      /\ consecutive_failures' = [consecutive_failures EXCEPT ![b] = f]
      /\ ejected' = ejected /\ Begins(b, g)
    BY DEF CountFailure
<1>4. Settled(b) => f = g
    BY DEF Settled
<1> HIDE DEF f, k
<1>5. k.pc # "idle" /\ k.pc # "forgiven"
    BY <1>2
<1> QED
    BY <1>1, <1>2, <1>3, <1>4, <1>5, BeginStep

LEMMA ForgiveStep ==
    ASSUME HealthIInv, NEW t \in Reporters, NEW b \in PoolSet, Forgive(t, b)
    PROVE  HealthIInv'
<1> DEFINE k == [pc |-> "forgiven", backend |-> b, n |-> 0]
<1>1. k \in ReportRecord /\ k.pc = "forgiven" /\ k.backend = b
    BY DEF ReportRecord
<1>2. /\ report[t].pc = "idle" /\ report' = [report EXCEPT ![t] = k]
      /\ consecutive_failures' = [consecutive_failures EXCEPT ![b] = 0]
      /\ ejected' = ejected /\ Begins(b, 0)
    BY DEF Forgive
<1> HIDE DEF k
<1>3. k.pc # "idle" /\ k.pc # "counted" /\ 0 \in Nat
    BY <1>1
<1> QED
    BY <1>1, <1>2, <1>3, BeginStep

\* A call on b ends: nobody else is in one if it was not overlapped.
LEMMA EndStep ==
    ASSUME HealthIInv, NEW t \in Reporters, NEW b \in PoolSet, InCall(t, b),
           NEW e \in BOOLEAN,
           report' = [report EXCEPT ![t] = NoReport],
           ejected' = [ejected EXCEPT ![b] = e],
           consecutive_failures' = consecutive_failures,
           tally' \in [PoolSet -> TallyRecord],
           \A c \in PoolSet \ {b} : tally'[c] = tally[c],
           ~tally'[b].overlapped => OnlyIn(t, b) /\ Settled(b)'
    PROVE  HealthIInv'
<1>1. /\ report'[t] = NoReport /\ \A s \in Reporters \ {t} : report'[s] = report[s]
      /\ \A c \in PoolSet \ {b} : ejected'[c] = ejected[c]
    BY DEF HealthIInv, RecordsOK
<1>2. RecordsOK'
    BY <1>1, NoReportType DEF HealthIInv, RecordsOK
<1>3. \A c : ~InCall(t, c)'
    BY <1>1, NoReportType DEF InCall
<1>4. BackendOK(b)'
    <2> SUFFICES ASSUME ~tally'[b].overlapped PROVE BackendOK(b)'
        BY DEF BackendOK
    <2>1. \A s \in Reporters : ~InCall(s, b)'
        BY <1>1, <1>3 DEF OnlyIn, InCall
    <2> QED
        BY <2>1 DEF BackendOK
<1>5. ASSUME NEW c \in PoolSet, c # b PROVE BackendOK(c)'
    <2>1. ~InCall(t, c)
        BY <1>5 DEF InCall
    <2> QED
        BY <1>1, <1>3, <1>5, <2>1, OtherBackends
<1> QED
    BY <1>2, <1>4, <1>5 DEF HealthIInv

LEMMA EjectStep ==
    ASSUME HealthIInv, NEW t \in Reporters, Eject(t) PROVE HealthIInv'
<1>0. PICK b \in PoolSet : b = report[t].backend
    BY DEF HealthIInv, RecordsOK, Eject
<1> DEFINE e == ejected[b] \/ report[t].n >= EjectAfter
<1>1. b \in PoolSet /\ InCall(t, b) /\ report[t].pc = "counted" /\ e \in BOOLEAN
    BY <1>0 DEF Eject, InCall
<1>2. /\ report' = [report EXCEPT ![t] = NoReport]
      /\ ejected' = [ejected EXCEPT ![b] = e]
      /\ consecutive_failures' = consecutive_failures /\ tally' = tally
    BY <1>0 DEF Eject
<1>3. ASSUME ~tally[b].overlapped PROVE OnlyIn(t, b) /\ Settled(b)'
    <2>1. Underway(t, b)
        BY <1>1, <1>3 DEF HealthIInv, BackendOK
    <2>2. ejected'[b] = e
        BY <1>1, <1>2 DEF HealthIInv, RecordsOK
    <2>3. tally[b].failures \in Nat /\ EjectAfter \in Nat
        BY <1>1, HealthAssumption DEF HealthIInv, RecordsOK, TallyRecord
    <2>4. e <=> tally[b].failures >= EjectAfter
        BY <1>1, <2>1, <2>3 DEF Underway
    <2> HIDE DEF e
    <2>5. ejected'[b] <=> tally'[b].failures >= EjectAfter
        BY <1>2, <2>2, <2>4
    <2> QED
        BY <1>2, <2>1, <2>5 DEF Settled, Underway
<1>4. tally' \in [PoolSet -> TallyRecord]
    BY <1>2 DEF HealthIInv, RecordsOK
<1> HIDE DEF e
<1> QED
    BY <1>1, <1>2, <1>3, <1>4, EndStep

LEMMA ReadmitStep ==
    ASSUME HealthIInv, NEW t \in Reporters, Readmit(t) PROVE HealthIInv'
<1>0. PICK b \in PoolSet : b = report[t].backend
    BY DEF HealthIInv, RecordsOK, Readmit
<1> DEFINE Alone == \A s \in Reporters \ {t} :
                        report[s].pc = "idle" \/ report[s].backend # b
           Right == [failures |-> 0, overlapped |-> FALSE]
<1>1. b \in PoolSet /\ InCall(t, b) /\ report[t].pc = "forgiven"
    BY <1>0 DEF Readmit, InCall
<1>2. /\ report' = [report EXCEPT ![t] = NoReport]
      /\ ejected' = [ejected EXCEPT ![b] = FALSE]
      /\ consecutive_failures' = consecutive_failures
      /\ tally' = IF Alone /\ consecutive_failures[b] = 0
                  THEN [tally EXCEPT ![b] = Right] ELSE tally
    BY <1>0 DEF Readmit
<1>3. Alone <=> OnlyIn(t, b)
    BY DEF OnlyIn, InCall
<1>4. /\ tally' \in [PoolSet -> TallyRecord]
      /\ \A c \in PoolSet \ {b} : tally'[c] = tally[c]
    <2>1. Right \in TallyRecord
        BY DEF TallyRecord
    <2> HIDE DEF Alone, Right
    <2> QED
        BY <1>1, <1>2, <2>1 DEF HealthIInv, RecordsOK
<1>5. ASSUME ~tally'[b].overlapped PROVE OnlyIn(t, b) /\ Settled(b)'
    <2>1. ejected'[b] = FALSE
        BY <1>1, <1>2 DEF HealthIInv, RecordsOK
    <2>2. Alone /\ consecutive_failures[b] = 0
        <3>1. CASE ~tally[b].overlapped
            <4>1. Underway(t, b)
                BY <1>1, <3>1 DEF HealthIInv, BackendOK
            <4> QED
                BY <1>1, <1>3, <4>1 DEF Underway
        <3>2. CASE tally[b].overlapped
            BY <1>2, <1>5, <3>2
        <3> QED
            BY <3>1, <3>2
    <2>3. tally'[b].failures = 0
        BY <1>1, <1>2, <2>2 DEF HealthIInv, RecordsOK
    <2>4. ~(0 >= EjectAfter)
        BY HealthAssumption
    <2> HIDE DEF Alone, Right
    <2> QED
        BY <1>2, <1>3, <2>1, <2>2, <2>3, <2>4 DEF Settled
<1> HIDE DEF Alone, Right
<1> QED
    BY <1>1, <1>2, <1>4, <1>5, EndStep

LEMMA NextHealth == HealthIInv /\ [HealthNext]_healthVars => HealthIInv'
<1> SUFFICES ASSUME HealthIInv, [HealthNext]_healthVars PROVE HealthIInv'
    OBVIOUS
<1>1. ASSUME NEW t \in Reporters, NEW b \in PoolSet, CountFailure(t, b) PROVE HealthIInv'
    BY <1>1, CountFailureStep
<1>2. ASSUME NEW t \in Reporters, NEW b \in PoolSet, Forgive(t, b) PROVE HealthIInv'
    BY <1>2, ForgiveStep
<1>3. ASSUME NEW t \in Reporters, Eject(t) PROVE HealthIInv'
    BY <1>3, EjectStep
<1>4. ASSUME NEW t \in Reporters, Readmit(t) PROVE HealthIInv'
    BY <1>4, ReadmitStep
<1>5. CASE UNCHANGED <<consecutive_failures, ejected, report, tally>>
    BY <1>5 DEF HealthIInv, RecordsOK, BackendOK, Quiet, Settled, InCall, Underway, OnlyIn
<1>6. ReadFlag \/ NextSnapshot \/ UNCHANGED healthVars
          => UNCHANGED <<consecutive_failures, ejected, report, tally>>
    BY DEF ReadFlag, NextSnapshot, healthVars
<1> QED
    BY <1>1, <1>2, <1>3, <1>4, <1>5, <1>6 DEF HealthNext

\* A backend whose calls do not overlap is ejected exactly when it failed
\* EjectAfter times in a row, for any number of reporters that interleave
\* record_failure and record_success of other backends, and one success
\* alone ends what overlapping calls did.
THEOREM HealthEjectedWhenFailing == HealthSpec => []EjectedWhenFailing
<1>1. HealthIInv => EjectedWhenFailing
    BY DEF HealthIInv, BackendOK, Settled, EjectedWhenFailing
<1> QED
    BY <1>1, InitHealth, NextHealth, PTL DEF HealthSpec

-----------------------------------------------------------------------------
(***************************************************************************)
(* Configuration and startup.                                              *)
(***************************************************************************)

LEMMA LeastNumber ==
    ASSUME NEW S \in SUBSET Nat, S # {}
    PROVE  \E i \in S : \A j \in S : i =< j
<1>1. PICK i \in S : \A j \in S : <<j, i>> \notin OpToRel(<, Nat)
    BY NatLessThanWellFounded, WFMin
<1>2. \A j \in S : ~(j < i)
    BY <1>1 DEF OpToRel
<1> QED
    BY <1>2

\* What a key that is left out stands for.
LEMMA Defaults ==
    /\ Default("theta") = 55 /\ Default("sigma") = 95
    /\ Default("chars_per_token") = 400 /\ Default("strategy") = "pressure"
    /\ Default("occupancy_sample_interval_ms") = 100
    /\ Default("scrape_interval_ms") = 1000 /\ Default("scrape_timeout_ms") = 500
    /\ Default("max_signal_age_ms") = 5000 /\ Default("drift_warn_ratio") = 200
<1> DEFINE R == {"theta", "sigma", "chars_per_token", "strategy"}
           G == {"scrape_interval_ms", "scrape_timeout_ms", "max_signal_age_ms",
                 "drift_warn_ratio"}
<1>1. /\ R \subseteq DOMAIN RoutingDefaults
      /\ RoutingDefaults.theta = 55 /\ RoutingDefaults.sigma = 95
      /\ RoutingDefaults.chars_per_token = 400 /\ RoutingDefaults.strategy = "pressure"
      /\ (R \cup G) \cap DOMAIN SamplerDefaults = {}
      /\ (G \cup {"occupancy_sample_interval_ms"}) \cap DOMAIN RoutingDefaults = {}
    BY DEF RoutingDefaults, SamplerDefaults
<1>2. /\ G \subseteq DOMAIN SignalDefaults
      /\ SignalDefaults.scrape_interval_ms = 1000 /\ SignalDefaults.scrape_timeout_ms = 500
      /\ SignalDefaults.max_signal_age_ms = 5000 /\ SignalDefaults.drift_warn_ratio = 200
      /\ (R \cup {"occupancy_sample_interval_ms"}) \cap DOMAIN SignalDefaults = {}
      /\ "occupancy_sample_interval_ms" \in DOMAIN SamplerDefaults
      /\ SamplerDefaults.occupancy_sample_interval_ms = 100
    BY DEF SignalDefaults, SamplerDefaults
<1>3. \A k \in R : Default(k) = RoutingDefaults[k]
    <2> TAKE k \in R
    <2>1. \A d \in Sections : k \in DOMAIN d => d = RoutingDefaults
        BY <1>1, <1>2 DEF Sections
    <2> QED
        BY <2>1, <1>1 DEF Default, Sections
<1>4. \A k \in G : Default(k) = SignalDefaults[k]
    <2> TAKE k \in G
    <2>1. \A d \in Sections : k \in DOMAIN d => d = SignalDefaults
        BY <1>1, <1>2 DEF Sections
    <2> QED
        BY <2>1, <1>2 DEF Default, Sections
<1>5. Default("occupancy_sample_interval_ms") = 100
    <2>1. \A d \in Sections : "occupancy_sample_interval_ms" \in DOMAIN d => d = SamplerDefaults
        BY <1>1, <1>2 DEF Sections
    <2> QED
        BY <2>1, <1>2 DEF Default, Sections
<1> QED
    BY <1>1, <1>2, <1>3, <1>4, <1>5

LEMMA RawValue ==
    ASSUME NEW f
    PROVE  /\ \A k \in DOMAIN f : Raw(f)[k] = f[k]
           /\ \A k \in {"theta", "sigma", "chars_per_token", "strategy",
                        "occupancy_sample_interval_ms", "scrape_interval_ms",
                        "scrape_timeout_ms", "max_signal_age_ms", "drift_warn_ratio"} :
                  k \notin DOMAIN f => Raw(f)[k] = Default(k)
<1>1. {"theta", "sigma", "chars_per_token", "strategy"} \subseteq DOMAIN RoutingDefaults
    BY DEF RoutingDefaults
<1>2. "occupancy_sample_interval_ms" \in DOMAIN SamplerDefaults
    BY DEF SamplerDefaults
<1>3. {"scrape_interval_ms", "scrape_timeout_ms", "max_signal_age_ms", "drift_warn_ratio"}
        \subseteq DOMAIN SignalDefaults
    BY DEF SignalDefaults
<1>4. /\ DOMAIN RoutingDefaults \subseteq UNION {DOMAIN d : d \in Sections}
      /\ DOMAIN SamplerDefaults \subseteq UNION {DOMAIN d : d \in Sections}
      /\ DOMAIN SignalDefaults \subseteq UNION {DOMAIN d : d \in Sections}
    BY DEF Sections
<1> QED
    BY <1>1, <1>2, <1>3, <1>4 DEF Raw

-----------------------------------------------------------------------------
\* The position of the j-th check of backend b.
Position(b, j) == 10 + 3 * (b - 1) + j

LEMMA BackendChecks ==
    ASSUME NEW bs \in Seq(BackendEntry)
    PROVE  /\ BackendErrors(bs) \in Seq(UNION {{ErrorsOf(bs, b)[j] : j \in 1 .. 3} : b \in 1 .. Len(bs)})
           /\ Len(BackendErrors(bs)) = 3 * Len(bs)
           /\ \A b \in 1 .. Len(bs), j \in 1 .. 3 :
                  BackendErrors(bs)[3 * (b - 1) + j] = ErrorsOf(bs, b)[j]
           /\ \A k \in 1 .. 3 * Len(bs) : \E b \in 1 .. Len(bs), j \in 1 .. 3 :
                  k = 3 * (b - 1) + j
<1> DEFINE E == UNION {{ErrorsOf(bs, b)[j] : j \in 1 .. 3} : b \in 1 .. Len(bs)}
<1>1. Len(bs) \in Nat
    OBVIOUS
<1>2. ASSUME NEW k \in 1 .. 3 * Len(bs)
      PROVE  /\ (k + 2) \div 3 \in 1 .. Len(bs) /\ ((k + 2) % 3) + 1 \in 1 .. 3
             /\ k = 3 * ((k + 2) \div 3 - 1) + (((k + 2) % 3) + 1)
    BY <1>1
<1>3. ASSUME NEW b \in 1 .. Len(bs), NEW j \in 1 .. 3
      PROVE  /\ 3 * (b - 1) + j \in 1 .. 3 * Len(bs)
             /\ (3 * (b - 1) + j + 2) \div 3 = b /\ ((3 * (b - 1) + j + 2) % 3) + 1 = j
    BY <1>1
<1>4. BackendErrors(bs) \in [1 .. 3 * Len(bs) -> E]
    BY <1>2 DEF BackendErrors
<1>5. BackendErrors(bs) \in Seq(E) /\ Len(BackendErrors(bs)) = 3 * Len(bs)
    BY <1>1, <1>4
<1>6. \A b \in 1 .. Len(bs), j \in 1 .. 3 :
          BackendErrors(bs)[3 * (b - 1) + j] = ErrorsOf(bs, b)[j]
    BY <1>3 DEF BackendErrors
<1> QED
    BY <1>2, <1>5, <1>6

LEMMA FunctionIsSeq ==
    ASSUME NEW V, NEW n \in Nat, NEW s \in [1 .. n -> V]
    PROVE  s \in Seq(V) /\ Len(s) = n
OBVIOUS

LEMMA Joined ==
    ASSUME NEW V, NEW s \in Seq(V), NEW t \in Seq(V)
    PROVE  /\ Len(s) \in Nat /\ Len(t) \in Nat
           /\ DOMAIN (s \o t) = 1 .. Len(s) + Len(t)
           /\ \A i \in 1 .. Len(s) : (s \o t)[i] = s[i]
           /\ \A i \in 1 .. Len(t) : (s \o t)[Len(s) + i] = t[i]
OBVIOUS

LEMMA ChecksInOrder ==
    ASSUME NEW c, c.backends \in Seq(BackendEntry)
    PROVE  /\ DOMAIN Checks(c) = 1 .. 10 + 3 * Len(c.backends)
           /\ \A i \in 1 .. 10 : Checks(c)[i] = ScalarChecks(c)[i]
           /\ \A b \in 1 .. Len(c.backends), j \in 1 .. 3 :
                  Checks(c)[Position(b, j)] = ErrorsOf(c.backends, b)[j]
           /\ \A i \in DOMAIN Checks(c) \ (1 .. 10) :
                  \E b \in 1 .. Len(c.backends), j \in 1 .. 3 : i = Position(b, j)
<1> DEFINE bs == c.backends
           B == BackendErrors(bs)
           A == ScalarChecks(c)
           E == UNION {{ErrorsOf(bs, b)[j] : j \in 1 .. 3} : b \in 1 .. Len(bs)}
           S == {ScalarChecks(c)[i] : i \in 1 .. 10}
           T == S \cup E
<1>1. /\ B \in Seq(E) /\ Len(B) = 3 * Len(bs)
      /\ \A b \in 1 .. Len(bs), j \in 1 .. 3 : B[3 * (b - 1) + j] = ErrorsOf(bs, b)[j]
      /\ \A k \in 1 .. 3 * Len(bs) : \E b \in 1 .. Len(bs), j \in 1 .. 3 : k = 3 * (b - 1) + j
    BY BackendChecks
<1>2. Len(bs) \in Nat
    OBVIOUS
<1>3. A \in Seq(S) /\ Len(A) = 10
    <2>1. DOMAIN A = 1 .. 10
        BY DEF ScalarChecks
    <2>2. A \in [1 .. 10 -> S]
        BY <2>1 DEF ScalarChecks
    <2> HIDE DEF A, S
    <2> QED
        BY <2>2, FunctionIsSeq
<1>4. Checks(c) = A \o B
    BY DEF Checks
<1>5. A \in Seq(T) /\ B \in Seq(T)
    BY <1>1, <1>3, SeqMonotonic
<1> HIDE DEF A, B, E, S, T
<1>6. /\ Len(B) \in Nat /\ DOMAIN Checks(c) = 1 .. 10 + Len(B)
      /\ \A i \in 1 .. 10 : Checks(c)[i] = A[i]
      /\ \A k \in 1 .. Len(B) : Checks(c)[10 + k] = B[k]
    <2> DEFINE n == Len(A)
    <2>1. /\ Len(B) \in Nat /\ DOMAIN (A \o B) = 1 .. n + Len(B)
          /\ \A i \in 1 .. n : (A \o B)[i] = A[i]
          /\ \A k \in 1 .. Len(B) : (A \o B)[n + k] = B[k]
        BY <1>5, Joined
    <2> HIDE DEF n
    <2>2. n = 10
        BY <1>3 DEF n
    <2> QED
        BY <2>1, <2>2, <1>4
<1>7. \A b \in 1 .. Len(bs), j \in 1 .. 3 : 3 * (b - 1) + j \in 1 .. Len(B)
    BY <1>1, <1>2
<1>8. ASSUME NEW b \in 1 .. Len(bs), NEW j \in 1 .. 3
      PROVE  Checks(c)[Position(b, j)] = ErrorsOf(bs, b)[j]
    <2>1. Position(b, j) = 10 + (3 * (b - 1) + j)
        BY <1>2 DEF Position
    <2> QED
        BY <2>1, <1>1, <1>6, <1>7
<1>9. ASSUME NEW i \in DOMAIN Checks(c) \ (1 .. 10)
      PROVE  \E b \in 1 .. Len(bs), j \in 1 .. 3 : i = Position(b, j)
    <2> DEFINE m == Len(B)
    <2>0. m = 3 * Len(bs) /\ m \in Nat /\ i \in 1 .. 10 + m /\ i \notin 1 .. 10
        BY <1>1, <1>6
    <2> HIDE DEF m
    <2>1. i - 10 \in 1 .. 3 * Len(bs) /\ i \in Int
        BY <2>0
    <2>2. PICK b \in 1 .. Len(bs), j \in 1 .. 3 : i - 10 = 3 * (b - 1) + j
        BY <2>1, <1>1
    <2>3. b \in Int /\ j \in Int
        BY <1>2
    <2>4. i = Position(b, j)
        BY <2>1, <2>2, <2>3 DEF Position
    <2> QED
        BY <2>4
<1>10. \A i \in 1 .. 10 : Checks(c)[i] = ScalarChecks(c)[i]
    BY <1>6 DEF A
<1> QED
    BY <1>1, <1>6, <1>8, <1>9, <1>10

-----------------------------------------------------------------------------
\* What validate knows of a configuration that passes.
LEMMA Passed ==
    ASSUME NEW c, c.backends \in Seq(BackendEntry), Failing(c) = {}
    PROVE  /\ c.backends # <<>>
           /\ Lt(0, c.theta) /\ Lt(c.theta, 100)
           /\ Lt(0, c.sigma) /\ Le(c.sigma, 100)
           /\ c.chars_per_token # Inf /\ Lt(0, c.chars_per_token)
           /\ c.strategy \in Strategies
           /\ \A b \in 1 .. Len(c.backends) :
                  /\ c.backends[b].kv_tokens # 0 /\ c.backends[b].max_num_seqs # 0
                  /\ \A j \in 1 .. b - 1 : c.backends[j].url # c.backends[b].url
<1> DEFINE bs == c.backends
<1>1. \A i \in DOMAIN Checks(c) : ~Checks(c)[i][3]
    BY DEF Failing
<1>2. Len(bs) \in Nat
    OBVIOUS
<1>3. \A i \in 1 .. 10 : ~ScalarChecks(c)[i][3]
    <2>1. \A i \in 1 .. 10 : i \in DOMAIN Checks(c) /\ Checks(c)[i] = ScalarChecks(c)[i]
        <3>1. DOMAIN Checks(c) = 1 .. 10 + 3 * Len(bs)
            BY ChecksInOrder, Zenon
        <3>2. \A i \in 1 .. 10 : i \in DOMAIN Checks(c)
            BY <1>2, <3>1
        <3>3. \A i \in 1 .. 10 : Checks(c)[i] = ScalarChecks(c)[i]
            BY ChecksInOrder, Zenon
        <3> QED
            BY <3>2, <3>3, Zenon
    <2> QED
        BY <1>1, <2>1, Zenon
<1>4. \A b \in 1 .. Len(bs), j \in 1 .. 3 : ~ErrorsOf(bs, b)[j][3]
    <2> TAKE b \in 1 .. Len(bs), j \in 1 .. 3
    <2>1. Position(b, j) \in 1 .. 10 + 3 * Len(bs)
        BY <1>2 DEF Position
    <2>2. Position(b, j) \in DOMAIN Checks(c)
          /\ Checks(c)[Position(b, j)] = ErrorsOf(bs, b)[j]
        BY <2>1, ChecksInOrder
    <2> QED
        BY <1>1, <2>2, Zenon
<1>5. /\ ~(bs = <<>>)
      /\ ~~(Lt(0, c.theta) /\ Lt(c.theta, 100))
      /\ ~~(Lt(0, c.sigma) /\ Le(c.sigma, 100))
      /\ ~~(c.chars_per_token # Inf /\ Lt(0, c.chars_per_token))
      /\ ~(c.strategy \notin Strategies)
    <2> /\ 1 \in 1 .. 10 /\ 2 \in 1 .. 10 /\ 3 \in 1 .. 10 /\ 5 \in 1 .. 10 /\ 6 \in 1 .. 10
        OBVIOUS
    <2>1. ~ScalarChecks(c)[1][3] /\ ~ScalarChecks(c)[2][3] /\ ~ScalarChecks(c)[3][3]
          /\ ~ScalarChecks(c)[5][3] /\ ~ScalarChecks(c)[6][3]
        BY <1>3
    <2> QED
        BY <2>1 DEF ScalarChecks
<1>6. \A b \in 1 .. Len(bs) :
          /\ bs[b].kv_tokens # 0 /\ bs[b].max_num_seqs # 0
          /\ \A j \in 1 .. b - 1 : bs[j].url # bs[b].url
    <2> TAKE b \in 1 .. Len(bs)
    <2>1. ~ErrorsOf(bs, b)[1][3] /\ ~ErrorsOf(bs, b)[2][3] /\ ~ErrorsOf(bs, b)[3][3]
        BY <1>4
    <2> QED
        BY <2>1 DEF ErrorsOf
<1> QED
    BY <1>5, <1>6

\* The check that decides fails, and its error is not "ok".
LEMMA FirstFails ==
    ASSUME NEW c, c.backends \in Seq(BackendEntry), Failing(c) # {}
    PROVE  FirstFailing(c) \in Failing(c)
<1>1. Failing(c) \subseteq Nat
    BY ChecksInOrder DEF Failing
<1> QED
    BY <1>1, LeastNumber DEF FirstFailing

LEMMA ErrorNames ==
    ASSUME NEW c, c.backends \in Seq(BackendEntry), NEW i \in DOMAIN Checks(c)
    PROVE  Checks(c)[i][1] # "ok"
<1>1. CASE i \in 1 .. 10
    <2>1. i \in {1, 2, 3, 4, 5, 6, 7, 8, 9, 10}
        BY <1>1
    <2>2. ScalarChecks(c)[i][1] # "ok"
        BY <2>1 DEF ScalarChecks
    <2> QED
        BY <1>1, <2>2, ChecksInOrder
<1>2. CASE i \notin 1 .. 10
    <2>1. PICK b \in 1 .. Len(c.backends), j \in 1 .. 3 :
              i = Position(b, j)
        BY <1>2, ChecksInOrder
    <2>2. Checks(c)[i] = ErrorsOf(c.backends, b)[j]
        BY <2>1, ChecksInOrder
    <2>3. j \in {1, 2, 3}
        OBVIOUS
    <2> QED
        BY <2>2, <2>3 DEF ErrorsOf
<1> QED
    BY <1>1, <1>2

LEMMA OkMeansValid ==
    ASSUME NEW c, c.backends \in Seq(BackendEntry)
    PROVE  Validate(c) = "ok" <=> Failing(c) = {}
<1>1. Failing(c) # {} => Checks(c)[FirstFailing(c)][1] # "ok"
    <2> HAVE Failing(c) # {}
    <2>1. FirstFailing(c) \in DOMAIN Checks(c)
        BY FirstFails DEF Failing
    <2> QED
        BY <2>1, ErrorNames
<1> QED
    BY <1>1 DEF Validate

\* The ten checks one by one.
LEMMA ScalarKeys ==
    ASSUME NEW c
    PROVE  /\ ScalarChecks(c)[1][2] = {"backends"}
           /\ ScalarChecks(c)[2][2] = {"theta"}
           /\ ScalarChecks(c)[3][2] = {"sigma"}
           /\ ScalarChecks(c)[4][2] = {"occupancy_sample_interval_ms"}
           /\ ScalarChecks(c)[5][2] = {"chars_per_token"}
           /\ ScalarChecks(c)[6][2] = {"strategy"}
           /\ ScalarChecks(c)[7][2] = {"scrape_timeout_ms", "scrape_interval_ms"}
           /\ ScalarChecks(c)[8][2] = {"scrape_timeout_ms", "scrape_interval_ms"}
           /\ ScalarChecks(c)[9][2] = {"max_signal_age_ms", "scrape_interval_ms"}
           /\ ScalarChecks(c)[10][2] = {"drift_warn_ratio"}
BY DEF ScalarChecks

LEMMA ScalarFailures ==
    ASSUME NEW c
    PROVE  /\ ScalarChecks(c)[2][3] => ~(Lt(0, c.theta) /\ Lt(c.theta, 100))
           /\ ScalarChecks(c)[3][3] => ~(Lt(0, c.sigma) /\ Le(c.sigma, 100))
           /\ ScalarChecks(c)[4][3] => c.occupancy_sample_interval_ms = 0
           /\ ScalarChecks(c)[5][3] =>
                  ~(c.chars_per_token # Inf /\ Lt(0, c.chars_per_token))
           /\ ScalarChecks(c)[6][3] => c.strategy \notin Strategies
           /\ ScalarChecks(c)[7][3] => c.scrape_timeout_ms = 0 \/ c.scrape_interval_ms = 0
           /\ ScalarChecks(c)[8][3] => c.scrape_timeout_ms >= c.scrape_interval_ms
           /\ ScalarChecks(c)[9][3] => c.max_signal_age_ms < c.scrape_interval_ms
           /\ ScalarChecks(c)[10][3] => Le(c.drift_warn_ratio, 100)
BY DEF ScalarChecks

\* A check that fails is about a key that the file sets.
LEMMA FailsForAKey ==
    ASSUME NEW f, Parses(f), NEW i \in Failing(Raw(f))
    PROVE  Checks(Raw(f))[i][2] \cap DOMAIN f # {}
<1> DEFINE c == Raw(f)
<1>1. c.backends \in Seq(BackendEntry) /\ "backends" \in DOMAIN f
    BY RawValue DEF Parses
<1>2. i \in DOMAIN Checks(c) /\ Checks(c)[i][3]
    BY DEF Failing
<1>3. CASE i \notin 1 .. 10
    <2>1. PICK b \in 1 .. Len(c.backends), j \in 1 .. 3 : i = Position(b, j)
        BY <1>1, <1>2, <1>3, ChecksInOrder
    <2>2. Checks(c)[i] = ErrorsOf(c.backends, b)[j] /\ j \in {1, 2, 3}
        BY <1>1, <2>1, ChecksInOrder
    <2>3. /\ ErrorsOf(c.backends, b)[1][2] = {"backends"}
          /\ ErrorsOf(c.backends, b)[2][2] = {"backends"}
          /\ ErrorsOf(c.backends, b)[3][2] = {"backends"}
        BY DEF ErrorsOf
    <2> QED
        BY <1>1, <2>2, <2>3
<1>4. CASE i \in 1 .. 10
    <2>1. Checks(c)[i] = ScalarChecks(c)[i]
        BY <1>1, <1>4, ChecksInOrder
    <2> SUFFICES ASSUME ScalarChecks(c)[i][2] \cap DOMAIN f = {}
                 PROVE  FALSE
        BY <2>1
    <2>2. ScalarChecks(c)[i][3]
        BY <1>2, <2>1
    <2>3. /\ "theta" \notin DOMAIN f => c.theta = 55
          /\ "sigma" \notin DOMAIN f => c.sigma = 95
          /\ "chars_per_token" \notin DOMAIN f => c.chars_per_token = 400
          /\ "strategy" \notin DOMAIN f => c.strategy = "pressure"
          /\ "occupancy_sample_interval_ms" \notin DOMAIN f =>
                 c.occupancy_sample_interval_ms = 100
          /\ "scrape_interval_ms" \notin DOMAIN f => c.scrape_interval_ms = 1000
          /\ "scrape_timeout_ms" \notin DOMAIN f => c.scrape_timeout_ms = 500
          /\ "max_signal_age_ms" \notin DOMAIN f => c.max_signal_age_ms = 5000
          /\ "drift_warn_ratio" \notin DOMAIN f => c.drift_warn_ratio = 200
        BY RawValue, Defaults
    <2>4. NaN \notin Int /\ Inf \notin Int
        BY StartupAssumption
    <2> HIDE DEF c
    <2>a. i # 1
        BY <1>1, ScalarKeys
    <2>b. i # 2
        BY <2>2, <2>3, <2>4, ScalarKeys, ScalarFailures DEF Lt
    <2>c. i # 3
        BY <2>2, <2>3, <2>4, ScalarKeys, ScalarFailures DEF Lt, Le
    <2>d. i # 4
        BY <2>2, <2>3, ScalarKeys, ScalarFailures
    <2>e. i # 5
        BY <2>2, <2>3, <2>4, ScalarKeys, ScalarFailures DEF Lt
    <2>f. i # 6
        BY <2>2, <2>3, ScalarKeys, ScalarFailures DEF Strategies
    <2>g. i # 7
        BY <2>2, <2>3, ScalarKeys, ScalarFailures
    <2>h. i # 8
        BY <2>2, <2>3, ScalarKeys, ScalarFailures
    <2>i. i # 9
        BY <2>2, <2>3, ScalarKeys, ScalarFailures
    <2>j. i # 10
        BY <2>2, <2>3, <2>4, ScalarKeys, ScalarFailures DEF Le, Lt
    <2> QED
        BY <1>4, <2>a, <2>b, <2>c, <2>d, <2>e, <2>f, <2>g, <2>h, <2>i, <2>j
<1> QED
    BY <1>3, <1>4

-----------------------------------------------------------------------------
\* What a file that was accepted wires: as many backends as it lists, in its
\* order.
LEMMA Wired ==
    ASSUME NEW c, c.backends \in Seq(BackendEntry)
    PROVE  /\ Len(c.backends) \in Nat /\ DOMAIN c.backends = 1 .. Len(c.backends)
           /\ DOMAIN Wire(c).backends = 1 .. Len(c.backends)
           /\ Len(Wire(c).backends) = Len(c.backends)
           /\ \A i \in 1 .. Len(c.backends) :
                  /\ Wire(c).backends[i].id = i
                  /\ Wire(c).backends[i].key = c.backends[i].url
                  /\ Wire(c).backends[i].kv_capacity_tokens = c.backends[i].kv_tokens
                  /\ Wire(c).backends[i].max_num_seqs = c.backends[i].max_num_seqs
                  /\ Wire(c).healthy[i] = i
           /\ Wire(c).theta = c.theta /\ Wire(c).sigma = c.sigma
           /\ Wire(c).strategy = StrategyOf(c.strategy)
           /\ Wire(c).token_counter[2] = c.chars_per_token
<1>1. Len(c.backends) \in Nat /\ DOMAIN c.backends = 1 .. Len(c.backends)
    OBVIOUS
<1> DEFINE b == Wire(c).backends
           V == {b[i] : i \in 1 .. Len(c.backends)}
<1>2. b \in [1 .. Len(c.backends) -> V]
    BY <1>1 DEF Wire
<1>3. Len(b) = Len(c.backends)
    <2> HIDE DEF b, V
    <2> QED
        BY <1>1, <1>2, FunctionIsSeq
<1> QED
    BY <1>1, <1>3 DEF Wire

\* What a report says of the capacity of the backend it came from, to main.
Agrees(said, b) ==
    said # None =>
        (said.block_size * said.num_gpu_blocks) % Width = b.kv_capacity_tokens

\* The invariant.  What main has decided so far follows from the file: it is
\* past Load only if the file passes, and RouterState is the file's.  While it
\* asks for the capacities there is one report for each backend before at, and
\* as long as no mismatch is known every report agrees.
ReportsAgree ==
    any_mismatch = FALSE => \A i \in 1 .. Len(reports) : Agrees(reports[i], router.backends[i])

ReportsOK ==
    /\ any_mismatch \in BOOLEAN
    /\ Len(reports) \in Nat /\ reports \in Seq(Capacities \cup {None})
    /\ ReportsAgree

DecidedOK ==
    /\ file \in Files
    /\ phase \in {"load", "bind admin", "assert", "spawn", "serve", "ended", "refused"}
    /\ error \in {None, Validate(Raw(file))}
    /\ phase \in {"bind admin", "assert", "spawn", "serve", "ended"} => Failing(Raw(file)) = {}
    /\ phase \in {"assert", "spawn", "serve", "ended"} => router = Wire(Raw(file))

AskedOK ==
    /\ phase \in {"load", "bind admin"} => reports = <<>> /\ any_mismatch = FALSE /\ at = 1
    /\ phase = "assert" => at \in 1 .. Len(router.backends) /\ Len(reports) = at - 1

SpawnedOK ==
    /\ phase \in {"load", "bind admin", "assert", "spawn"} => tasks = {}
    /\ (phase = "spawn" \/ tasks # {}) /\ Raw(file).validate_capacity_at_startup =>
           Len(reports) = Len(router.backends) /\ any_mismatch = FALSE

StartupIInv == DecidedOK /\ ReportsOK /\ AskedOK /\ SpawnedOK

LEMMA FilesParse ==
    ASSUME NEW f \in Files
    PROVE  /\ Raw(f).backends \in Seq(BackendEntry)
           /\ Len(Raw(f).backends) \in Nat
           /\ Failing(Raw(f)) = {} => Len(Raw(f).backends) > 0
<1>1. Raw(f).backends \in Seq(BackendEntry)
    BY StartupAssumption, RawValue DEF Parses
<1>2. ASSUME Failing(Raw(f)) = {}
      PROVE  Len(Raw(f).backends) # 0
    <2>1. Raw(f).backends # <<>>
        BY <1>1, <1>2, Passed
    <2> QED
        BY <1>1, <2>1
<1> QED
    BY <1>1, <1>2

LEMMA StartupInvInit == StartupInit => StartupIInv
<1> SUFFICES ASSUME StartupInit
             PROVE  StartupIInv
    OBVIOUS
<1>1. ReportsAgree /\ any_mismatch \in BOOLEAN
    <2>1. Len(reports) = 0
        BY DEF StartupInit
    <2>2. any_mismatch \in BOOLEAN
        BY DEF StartupInit
    <2> QED
        BY <2>1, <2>2 DEF ReportsAgree
<1>2. ReportsOK
    <2>1. Len(reports) \in Nat /\ reports \in Seq(Capacities \cup {None})
        BY DEF StartupInit
    <2> QED
        BY <1>1, <2>1 DEF ReportsOK
<1>3. DecidedOK
    BY DEF StartupInit, DecidedOK
<1>4. AskedOK
    BY DEF StartupInit, AskedOK
<1>5. SpawnedOK
    BY DEF StartupInit, SpawnedOK
<1> QED
    BY <1>2, <1>3, <1>4, <1>5 DEF StartupIInv

LEMMA ReportsGrow ==
    ASSUME NEW V, NEW s \in Seq(V), NEW r \in V
    PROVE  /\ Append(s, r) \in Seq(V) /\ Len(Append(s, r)) = Len(s) + 1
           /\ Append(s, r)[Len(s) + 1] = r
           /\ \A i \in 1 .. Len(s) : Append(s, r)[i] = s[i]
OBVIOUS

LEMMA AssertCapacityKeeps ==
    ASSUME StartupIInv, NEW r \in Capacities \cup {None}, AssertCapacity(r)
    PROVE  StartupIInv'
<1> DEFINE c == Raw(file)
<1>1. /\ phase = "assert" /\ file \in Files /\ Failing(c) = {} /\ router = Wire(c)
      /\ at \in 1 .. Len(router.backends) /\ Len(reports) = at - 1
      /\ tasks = {} /\ ReportsOK /\ error \in {None, Validate(c)}
    BY DEF StartupIInv, DecidedOK, AskedOK, SpawnedOK, AssertCapacity
<1>2. /\ any_mismatch' = Mismatch(router.backends[at], r)
      /\ reports' = Append(reports, r)
      /\ file' = file /\ error' = error /\ router' = router /\ tasks' = tasks
      /\ \/ at < Len(router.backends) /\ at' = at + 1 /\ phase' = phase
         \/ /\ ~(at < Len(router.backends)) /\ at' = at
            /\ phase' = IF any_mismatch' THEN "refused" ELSE "spawn"
    BY DEF AssertCapacity
<1>3. Len(router.backends) \in Nat
    BY <1>1, FilesParse, Wired
<1>4. /\ reports' \in Seq(Capacities \cup {None}) /\ Len(reports') = at
      /\ reports'[at] = r /\ \A i \in 1 .. at - 1 : reports'[i] = reports[i]
    BY <1>1, <1>2, <1>3, ReportsGrow DEF ReportsOK
<1>5. ReportsOK'
    <2>0. any_mismatch' \in BOOLEAN /\ Len(reports') \in Nat
        BY <1>1, <1>2, <1>3, <1>4 DEF ReportsOK, Mismatch
    <2> SUFFICES ASSUME any_mismatch' = FALSE, NEW i \in 1 .. at
                 PROVE  Agrees(reports'[i], router'.backends[i])
        BY <1>4, <2>0 DEF ReportsOK, ReportsAgree
    <2>1. any_mismatch = FALSE /\ Agrees(r, router.backends[at])
        <3>1. ~Mismatch(router.backends[at], r)
            BY <1>2, Zenon
        <3>2. ~any_mismatch
            BY <3>1, Zenon DEF Mismatch
        <3> QED
            BY <3>1, <3>2, <1>1 DEF Mismatch, Agrees, ReportsOK
    <2>2. CASE i = at
        BY <2>1, <2>2, <1>2, <1>4
    <2>3. CASE i # at
        <3>1. i \in 1 .. at - 1
            BY <2>3, <1>1, <1>3
        <3> QED
            BY <3>1, <2>1, <1>1, <1>2, <1>4 DEF ReportsOK, ReportsAgree
    <2> QED
        BY <2>2, <2>3
<1>6. CASE at < Len(router.backends)
    <2>1. phase' = "assert" /\ at' = at + 1
        BY <1>1, <1>2, <1>6
    <2>2. DecidedOK'
        BY <1>1, <1>2, <2>1 DEF DecidedOK
    <2>3. AskedOK'
        BY <1>1, <1>2, <1>3, <1>4, <1>6, <2>1 DEF AskedOK
    <2>4. SpawnedOK'
        BY <1>1, <1>2, <2>1 DEF SpawnedOK
    <2> QED
        BY <1>5, <2>2, <2>3, <2>4 DEF StartupIInv
<1>7. CASE ~(at < Len(router.backends))
    <2>1. at = Len(router.backends)
        BY <1>1, <1>3, <1>7
    <2>2. \/ phase' = "refused"
          \/ phase' = "spawn" /\ any_mismatch' = FALSE
        BY <1>2, <1>5, <1>7 DEF ReportsOK
    <2>3. DecidedOK'
        BY <1>1, <1>2, <2>2 DEF DecidedOK
    <2>4. AskedOK'
        BY <2>2 DEF AskedOK
    <2>5. SpawnedOK'
        BY <1>1, <1>2, <1>4, <2>1, <2>2 DEF SpawnedOK
    <2> QED
        BY <1>5, <2>3, <2>4, <2>5 DEF StartupIInv
<1> QED
    BY <1>6, <1>7

LEMMA StartupInvStep == StartupIInv /\ [StartupNext]_startupVars => StartupIInv'
<1> SUFFICES ASSUME StartupIInv, [StartupNext]_startupVars
             PROVE  StartupIInv'
    OBVIOUS
<1>0. DecidedOK /\ ReportsOK /\ AskedOK /\ SpawnedOK
    BY DEF StartupIInv
<1>1. CASE Load
    <2>1. file \in Files /\ (Validate(Raw(file)) = "ok" <=> Failing(Raw(file)) = {})
        BY <1>0, FilesParse, OkMeansValid DEF DecidedOK
    <2>2. DecidedOK'
        BY <1>0, <1>1, <2>1 DEF Load, DecidedOK
    <2>3. ReportsOK' /\ AskedOK'
        BY <1>0, <1>1 DEF Load, ReportsOK, ReportsAgree, Agrees, AskedOK
    <2>4. SpawnedOK'
        BY <1>0, <1>1 DEF Load, SpawnedOK
    <2> QED
        BY <2>2, <2>3, <2>4 DEF StartupIInv
<1>2. CASE BindAdmin
    <2>1. phase = "bind admin" /\ file \in Files /\ Failing(Raw(file)) = {}
          /\ reports = <<>> /\ any_mismatch = FALSE /\ at = 1
        BY <1>0, <1>2 DEF BindAdmin, DecidedOK, AskedOK
    <2>2. /\ Len(Wire(Raw(file)).backends) \in Nat
          /\ 1 \in 1 .. Len(Wire(Raw(file)).backends)
        <3>1. /\ Raw(file).backends \in Seq(BackendEntry)
              /\ Len(Raw(file).backends) \in Nat /\ Len(Raw(file).backends) > 0
            BY <2>1, FilesParse
        <3> QED
            BY <3>1, Wired
    <2>3. Len(<<>>) = 0 /\ <<>> \in Seq(Capacities \cup {None})
        OBVIOUS
    <2>4. ReportsOK'
        <3>1. reports' = <<>> /\ any_mismatch' = FALSE
            BY <1>2, <2>1 DEF BindAdmin
        <3>2. any_mismatch' \in BOOLEAN
            BY <3>1
        <3>3. Len(reports') = 0
            BY <2>3, <3>1
        <3>4. ReportsAgree'
            BY <3>3 DEF ReportsAgree
        <3> QED
            BY <2>3, <3>1, <3>2, <3>4 DEF ReportsOK
    <2>5. /\ file' = file /\ error' = error /\ at' = at /\ any_mismatch' = any_mismatch
          /\ reports' = reports /\ tasks' = tasks
          /\ \/ phase' = "refused"
             \/ /\ phase' = "assert" \/ phase' = "spawn"
                /\ router' = Wire(Raw(file))
        BY <1>2 DEF BindAdmin
    <2>6. DecidedOK'
        BY <1>0, <2>1, <2>5 DEF DecidedOK
    <2>7. AskedOK'
        <3>1. CASE phase' = "assert"
            <4>1. router' = Wire(Raw(file)) /\ at' = 1 /\ reports' = <<>>
                BY <2>1, <2>5, <3>1
            <4>2. Len(reports') = at' - 1
                BY <2>3, <4>1
            <4> QED
                BY <2>2, <3>1, <4>1, <4>2 DEF AskedOK
        <3>2. CASE phase' # "assert"
            BY <2>5, <3>2 DEF AskedOK
        <3> QED
            BY <3>1, <3>2
    <2>8. SpawnedOK'
        <3>1. phase' = "spawn" => ~Raw(file).validate_capacity_at_startup
            BY <1>2 DEF BindAdmin
        <3>2. tasks = {}
            BY <1>0, <2>1 DEF SpawnedOK
        <3> QED
            BY <2>5, <3>1, <3>2 DEF SpawnedOK
    <2> QED
        BY <2>4, <2>6, <2>7, <2>8 DEF StartupIInv
<1>3. CASE CapacityTimesOut
    BY <1>3, AssertCapacityKeeps DEF CapacityTimesOut
<1>4. CASE \E r \in Capacities \cup {None} : AssertCapacity(r)
    BY <1>4, AssertCapacityKeeps
<1>5. CASE Spawn \/ AcceptFails
    <2>1. ReportsOK'
        BY <1>0, <1>5 DEF Spawn, AcceptFails, ReportsOK, ReportsAgree, Agrees
    <2>2. DecidedOK' /\ AskedOK'
        BY <1>0, <1>5 DEF Spawn, AcceptFails, DecidedOK, AskedOK
    <2>3. SpawnedOK'
        BY <1>0, <1>5 DEF Spawn, AcceptFails, SpawnedOK
    <2> QED
        BY <2>1, <2>2, <2>3 DEF StartupIInv
<1>6. CASE (\E c \in Connections : Accept(c) \/ Disconnect(c)) \/ UNCHANGED startupVars
    <2>1. UNCHANGED <<phase, file, error, router, at, any_mismatch, reports, tasks>>
        BY <1>6 DEF Accept, Disconnect, startupVars
    <2> QED
        BY <1>0, <2>1 DEF StartupIInv, DecidedOK, ReportsOK, ReportsAgree, Agrees,
            AskedOK, SpawnedOK
<1> QED
    BY <1>1, <1>2, <1>3, <1>4, <1>5, <1>6 DEF StartupNext

THEOREM StartupInvariant == StartupSpec => []StartupIInv
BY StartupInvInit, StartupInvStep, PTL DEF StartupSpec

-----------------------------------------------------------------------------
\* What a router that serves can rely on: its knee and its limit are within
\* their range, no capacity, slot count or chars_per_token is zero, each backend
\* stands under its own index and has a URL of its own, and the policy is the
\* one of the file.  It says nothing of penalty and route_p50_halflife_s, which
\* no check limits.
THEOREM RouterIsSound == StartupSpec => []ServesSoundState
<1>1. StartupIInv => ServesSoundState
    <2> SUFFICES ASSUME StartupIInv, phase = "serve"
                 PROVE  ServesSoundState
        BY DEF ServesSoundState
    <2> DEFINE c == Raw(file)
               bs == c.backends
    <2>1. file \in Files /\ Failing(c) = {} /\ router = Wire(c)
        BY DEF StartupIInv, DecidedOK
    <2>2. bs \in Seq(BackendEntry) /\ Len(bs) \in Nat /\ Len(bs) > 0
        BY <2>1, FilesParse
    <2>3. /\ Lt(0, c.theta) /\ Lt(c.theta, 100) /\ Lt(0, c.sigma) /\ Le(c.sigma, 100)
          /\ c.chars_per_token # Inf /\ Lt(0, c.chars_per_token)
        BY <2>1, <2>2, Passed
    <2>4. /\ router.theta = c.theta /\ router.sigma = c.sigma
          /\ router.token_counter[2] = c.chars_per_token
          /\ router.strategy = StrategyOf(c.strategy)
        BY <2>1, <2>2, Wired
    <2>5. NaN \notin Int /\ Inf \notin Int /\ Parses(file)
        BY <2>1, StartupAssumption
    <2>6. c.sigma \in Float /\ c.chars_per_token \in Float
        BY <2>5, RawValue, Defaults DEF Parses, Float, FloatKeys
    <2>7. /\ 0 < router.theta /\ router.theta < 100
          /\ 0 < router.sigma /\ router.sigma =< 100
          /\ router.token_counter[2] > 0 /\ router.token_counter[2] # Inf
        BY <2>3, <2>4, <2>5, <2>6 DEF Lt, Le, Float
    <2>8. DOMAIN router.backends = 1 .. Len(bs) /\ router.backends # <<>>
        BY <2>1, <2>2, Wired
    <2>9. ASSUME NEW i \in 1 .. Len(bs)
          PROVE  /\ router.backends[i].kv_capacity_tokens > 0
                 /\ router.backends[i].max_num_seqs > 0
                 /\ router.backends[router.healthy[i]].id = i
        <3>1. bs[i].kv_tokens # 0 /\ bs[i].max_num_seqs # 0
            BY <2>1, <2>2, Passed
        <3>2. bs[i] \in BackendEntry
            BY <2>2
        <3>3. bs[i].kv_tokens > 0 /\ bs[i].max_num_seqs > 0
            BY <3>1, <3>2 DEF BackendEntry
        <3> QED
            BY <2>1, <2>2, <3>3, Wired
    <2>10. ASSUME NEW i \in 1 .. Len(bs), NEW j \in 1 .. Len(bs), i # j
           PROVE  router.backends[i].key # router.backends[j].key
        <3>1. j \in 1 .. i - 1 \/ i \in 1 .. j - 1
            BY <2>2, <2>10
        <3>2. bs[i].url # bs[j].url
            BY <2>1, <2>2, <3>1, Passed
        <3> QED
            BY <2>1, <2>2, <3>2, Wired
    <2>11. "strategy" \in DOMAIN file =>
               <<file.strategy, router.strategy>> \in
                   {<<x, x>> : x \in Strategies} \cup {<<"least_conn", "least_requests">>}
        <3> HAVE "strategy" \in DOMAIN file
        <3>1. c.strategy = file.strategy /\ c.strategy \in Strategies
            BY <2>1, <2>2, RawValue, Passed
        <3> QED
            BY <2>4, <3>1 DEF StrategyOf
    <2> QED
        BY <2>7, <2>8, <2>9, <2>10, <2>11 DEF ServesSoundState
<1> QED
    BY <1>1, StartupInvariant, PTL

\* A file is never refused for a default: the check that decides is about a key
\* that the file sets itself.
THEOREM RefusalIsAboutTheFile == StartupSpec => []RefusedForWhatItSays
<1>1. StartupIInv => RefusedForWhatItSays
    <2> SUFFICES ASSUME StartupIInv, error \notin {None, "ok"}
                 PROVE  Checks(Raw(file))[FirstFailing(Raw(file))][2] \cap DOMAIN file # {}
        BY DEF RefusedForWhatItSays
    <2>1. file \in Files /\ error = Validate(Raw(file))
        BY DEF StartupIInv, DecidedOK
    <2>2. Raw(file).backends \in Seq(BackendEntry) /\ Parses(file)
        BY <2>1, FilesParse, StartupAssumption
    <2>3. Failing(Raw(file)) # {}
        BY <2>1, <2>2, OkMeansValid
    <2> QED
        BY <2>2, <2>3, FirstFails, FailsForAKey
<1> QED
    BY <1>1, StartupInvariant, PTL

\* With the assertion on, and as long as no product that is reported wraps a
\* u32, nothing runs before every backend has been asked, and nothing at all if
\* one of the answers gave another capacity.
THEOREM NothingRunsOnAMismatch ==
    ASSUME CapacitiesFit
    PROVE  StartupSpec => []MismatchRefused
<1>1. ASSUME NEW c \in Capacities
      PROVE  (c.block_size * c.num_gpu_blocks) % Width = c.block_size * c.num_gpu_blocks
    <2>1. c.block_size \in Nat /\ c.num_gpu_blocks \in Nat /\ Width \in Nat
        BY StartupAssumption
    <2> DEFINE n == c.block_size * c.num_gpu_blocks
    <2>2. n \in Nat /\ n < Width
        BY <2>1, CapacitiesFit DEF CapacitiesFit
    <2> HIDE DEF n
    <2>3. n % Width = n
        BY <2>1, <2>2
    <2> QED
        BY <2>3 DEF n
<1>2. StartupIInv => MismatchRefused
    <2> SUFFICES ASSUME StartupIInv, tasks # {}, Raw(file).validate_capacity_at_startup
                 PROVE  /\ Len(reports) = Len(router.backends)
                        /\ \A i \in DOMAIN reports :
                               reports[i] # None =>
                                   reports[i].block_size * reports[i].num_gpu_blocks
                                       = router.backends[i].kv_capacity_tokens
        BY DEF MismatchRefused
    <2>1. Len(reports) = Len(router.backends) /\ any_mismatch = FALSE
        BY DEF StartupIInv, SpawnedOK
    <2>2. DOMAIN reports = 1 .. Len(reports) /\ reports \in Seq(Capacities \cup {None})
        BY DEF StartupIInv, ReportsOK
    <2>3. ASSUME NEW i \in DOMAIN reports, reports[i] # None
          PROVE  reports[i].block_size * reports[i].num_gpu_blocks
                     = router.backends[i].kv_capacity_tokens
        <3>1. Agrees(reports[i], router.backends[i])
            BY <2>1, <2>2 DEF StartupIInv, ReportsOK, ReportsAgree
        <3>2. reports[i] \in Capacities
            BY <2>2, <2>3
        <3> QED
            BY <1>1, <2>3, <3>1, <3>2 DEF Agrees
    <2> QED
        BY <2>1, <2>3
<1> QED
    BY <1>2, StartupInvariant, PTL
=============================================================================
