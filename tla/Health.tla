-------------------------------- MODULE Health --------------------------------
(***************************************************************************)
(* The health state of a backend, health.rs with HealthState of            *)
(* backend.rs: a count of consecutive failures and a flag, set by separate *)
(* Relaxed operations.  The router does not call these functions yet; any  *)
(* number of callers may be inside them at once.                           *)
(***************************************************************************)
EXTENDS Integers, Sequences

CONSTANTS
    Pool,           \* the backends, in the order of the snapshot
    Reporters,      \* the threads that report results
    EjectAfter,     \* CONSECUTIVE_FAILURES_TO_EJECT
    MaxFailures,    \* bound of the model: failures in a row
    MaxEpoch        \* bound of the model: snapshots

ASSUME HealthAssumption ==
    /\ EjectAfter \in Nat \ {0} /\ MaxFailures \in Nat /\ MaxEpoch \in Nat

PoolSet == {Pool[i] : i \in DOMAIN Pool}

VARIABLES
    consecutive_failures, ejected,
    report,         \* the call each reporter is in, between its two operations
    snapshot,       \* its epoch and its healthy backends
    rebuilt,        \* the flags next_snapshot has read so far
    tally           \* history: failures since the last success, as reported, and
                    \* whether calls overlapped since all was quiet and healthy

healthVars == <<consecutive_failures, ejected, report, snapshot, rebuilt, tally>>

NoReport == [pc |-> "idle", backend |-> 0, n |-> 0]

-----------------------------------------------------------------------------
Quiet(b) == \A t \in Reporters : report[t].pc = "idle" \/ report[t].backend # b

\* A call on b begins with its first operation.
Begins(b, failures) ==
    tally' = [tally EXCEPT ![b] = [failures |-> failures,
                                   overlapped |-> @.overlapped \/ ~Quiet(b)]]

\* record_failure: the count first ...
CountFailure(t, b) ==
    /\ report[t].pc = "idle" /\ consecutive_failures[b] < MaxFailures
    /\ consecutive_failures' = [consecutive_failures EXCEPT ![b] = @ + 1]
    /\ report' = [report EXCEPT ![t] =
                    [pc |-> "counted", backend |-> b, n |-> consecutive_failures[b] + 1]]
    /\ Begins(b, tally[b].failures + 1)
    /\ UNCHANGED <<ejected, snapshot, rebuilt>>

\* ... and then, if it was the last one allowed, the flag.
Eject(t) ==
    /\ report[t].pc = "counted"
    /\ ejected' = [ejected EXCEPT ![report[t].backend] = @ \/ report[t].n >= EjectAfter]
    /\ report' = [report EXCEPT ![t] = NoReport]
    /\ UNCHANGED <<consecutive_failures, snapshot, rebuilt, tally>>

\* Mutant: a success forgives the ejection and not the count.
ForgiveKeepingCount(t, b) ==
    /\ report[t].pc = "idle"
    /\ report' = [report EXCEPT ![t] = [pc |-> "forgiven", backend |-> b, n |-> 0]]
    /\ Begins(b, 0)
    /\ UNCHANGED <<consecutive_failures, ejected, snapshot, rebuilt>>

\* record_success: the count first ...
Forgive(t, b) ==
    /\ report[t].pc = "idle"
    /\ consecutive_failures' = [consecutive_failures EXCEPT ![b] = 0]
    /\ report' = [report EXCEPT ![t] = [pc |-> "forgiven", backend |-> b, n |-> 0]]
    /\ Begins(b, 0)
    /\ UNCHANGED <<ejected, snapshot, rebuilt>>

\* ... and then the flag.  A success that nobody overlaps sets all right.
Readmit(t) ==
    LET b == report[t].backend
        alone == \A s \in Reporters \ {t} : report[s].pc = "idle" \/ report[s].backend # b
    IN  /\ report[t].pc = "forgiven"
        /\ ejected' = [ejected EXCEPT ![b] = FALSE]
        /\ report' = [report EXCEPT ![t] = NoReport]
        /\ tally' = IF alone /\ consecutive_failures[b] = 0
                    THEN [tally EXCEPT ![b] = [failures |-> 0, overlapped |-> FALSE]] ELSE tally
        /\ UNCHANGED <<consecutive_failures, snapshot, rebuilt>>

\* rebuild_healthy reads the flags in turn, and next_snapshot makes the next
\* snapshot of those that are not set.
ReadFlag ==
    /\ Len(rebuilt) < Len(Pool) /\ snapshot.epoch < MaxEpoch
    /\ rebuilt' = Append(rebuilt, ejected[Pool[Len(rebuilt) + 1]])
    /\ UNCHANGED <<consecutive_failures, ejected, report, snapshot, tally>>

NextSnapshot ==
    /\ Len(rebuilt) = Len(Pool)
    /\ snapshot' = [epoch |-> snapshot.epoch + 1,
                    healthy |-> {Pool[i] : i \in {i \in DOMAIN Pool : ~rebuilt[i]}}]
    /\ rebuilt' = << >>
    /\ UNCHANGED <<consecutive_failures, ejected, report, tally>>

HealthInit ==
    /\ consecutive_failures = [b \in PoolSet |-> 0]
    /\ ejected = [b \in PoolSet |-> FALSE]
    /\ report = [t \in Reporters |-> NoReport]
    /\ snapshot = [epoch |-> 0, healthy |-> PoolSet]
    /\ rebuilt = << >>
    /\ tally = [b \in PoolSet |-> [failures |-> 0, overlapped |-> FALSE]]

HealthNext ==
    \/ \E t \in Reporters :
           \/ \E b \in PoolSet : CountFailure(t, b) \/ Forgive(t, b)
           \/ Eject(t) \/ Readmit(t)
    \/ ReadFlag \/ NextSnapshot

HealthSpec == HealthInit /\ [][HealthNext]_healthVars

-----------------------------------------------------------------------------
(***************************************************************************)
(* Properties.                                                             *)
(***************************************************************************)

\* While the calls about a backend do not overlap, it is ejected exactly when
\* it failed EjectAfter times since it last succeeded; one success alone sets
\* right whatever overlapping calls left, such as a flag set by a failure
\* that was counted before the success and stored after it (health.rs:8-18).
EjectedWhenFailing ==
    \A b \in PoolSet :
        Quiet(b) /\ ~tally[b].overlapped =>
            /\ ejected[b] <=> tally[b].failures >= EjectAfter
            /\ consecutive_failures[b] = tally[b].failures
=============================================================================
