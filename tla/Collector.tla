------------------------------ MODULE Collector -------------------------------
(***************************************************************************)
(* The collectors of the signal plane, signal/mod.rs: one task per backend *)
(* that fetches /metrics at an interval and keeps the last reading.        *)
(*                                                                         *)
(* Time is discrete and kept as ages and countdowns, so that runs have no  *)
(* end.  It does not pass a moment at which a timer fires or a tick of a   *)
(* collector is due: the runtime is not stalled, though backends may be.   *)
(***************************************************************************)
EXTENDS Integers

CONSTANTS
    Backends,
    Interval,       \* scrape_interval
    Timeout,        \* scrape_timeout
    MaxMisses,      \* bound of the model: failures in a row that are told apart
    NoReading

\* RawConfig::validate.
ASSUME CollectorAssumption ==
    /\ Timeout \in Nat \ {0} /\ Interval \in Nat /\ Timeout < Interval
    /\ MaxMisses \in Nat \ {0}
    /\ NoReading \notin [age : Nat, lag : Nat]

VARIABLES
    task,           \* what each collector is doing, and its two timers
    reported,       \* Backend::reported: the age of the reading, and how old it
                    \* was when it was stored
    ageGauge,       \* router_signal_age_seconds
    misses          \* history: scrapes that failed since the last that did not

collectorVars == <<task, reported, ageGauge, misses>>

\* Where a collector is: in tick().await, before the response head or after it.
Places == {"waiting", "connecting", "reading"}

TaskRecord ==
    [pc : Places,
     due : Int,             \* until the next tick of the interval
     elapsed : Nat,         \* since the fetch began
     sampled : Nat]         \* since the backend took the values it sends

\* Ages beyond this one are not told apart.
Oldest == (MaxMisses + 2) * Interval

-----------------------------------------------------------------------------
\* Mutant: one loop over all backends.
CanStartOneAtATime(b) ==
    /\ task[b].pc = "waiting" /\ task[b].due =< 0
    /\ \A c \in Backends : task[c].pc = "waiting"

\* ticker.tick() is ready.
CanStart(b) == task[b].pc = "waiting" /\ task[b].due =< 0

\* Mutant: the timeout is around the request alone and not the body.
ExpiresBeforeHead(b) ==
    task[b].pc = "connecting" /\ task[b].elapsed >= Timeout

\* The timeout of fetch_metrics, from connect to the end of the body.
Expires(b) == task[b].pc # "waiting" /\ task[b].elapsed >= Timeout

Older(n) == IF n < Oldest THEN n + 1 ELSE n

\* MissedTickBehavior::Delay: the next tick is an interval away from this one.
StartFetch(b) ==
    /\ CanStart(b)
    /\ task' = [task EXCEPT ![b] =
                  [pc |-> "connecting", due |-> Interval, elapsed |-> 0, sampled |-> 0]]
    /\ UNCHANGED <<reported, ageGauge, misses>>

\* The backend takes its values and sends the response head.
ResponseHead(b) ==
    /\ task[b].pc = "connecting"
    /\ task' = [task EXCEPT ![b].pc = "reading", ![b].sampled = 0]
    /\ UNCHANGED <<reported, ageGauge, misses>>

\* Back to the top of the loop.
Wait(b) ==
    task' = [task EXCEPT ![b] = [@ EXCEPT !.pc = "waiting", !.elapsed = 0, !.sampled = 0]]

\* The body is complete: now is taken, the reading stored, and its age at that
\* moment recorded.
Store(b) ==
    /\ task[b].pc = "reading"
    /\ reported' = [reported EXCEPT ![b] = [age |-> 0, lag |-> task[b].sampled]]
    /\ ageGauge' = [ageGauge EXCEPT ![b] = 0]
    /\ misses' = [misses EXCEPT ![b] = 0]
    /\ Wait(b)

Missed(b) ==
    misses' = [misses EXCEPT ![b] = IF @ < MaxMisses THEN @ + 1 ELSE @]

\* Mutant: a failure clears the reading.
FailClearing(b) ==
    /\ task[b].pc # "waiting"
    /\ Wait(b) /\ Missed(b)
    /\ reported' = [reported EXCEPT ![b] = NoReading]
    /\ UNCHANGED ageGauge

\* The connection or the body fails: the reading stays.
Fail(b) ==
    /\ task[b].pc # "waiting"
    /\ Wait(b) /\ Missed(b)
    /\ UNCHANGED <<reported, ageGauge>>

\* The timeout fires: the reading stays.
Expire(b) ==
    /\ Expires(b)
    /\ Wait(b) /\ Missed(b)
    /\ UNCHANGED <<reported, ageGauge>>

Tick ==
    /\ \A b \in Backends : ~CanStart(b) /\ ~Expires(b)
    /\ task' = [b \in Backends |->
                  [task[b] EXCEPT !.due = @ - 1,
                     !.elapsed = IF task[b].pc = "waiting" THEN @ ELSE Older(@),
                     !.sampled = IF task[b].pc = "reading" THEN Older(@) ELSE @]]
    /\ reported' = [b \in Backends |->
                      IF reported[b] = NoReading THEN NoReading
                      ELSE [reported[b] EXCEPT !.age = Older(@)]]
    /\ UNCHANGED <<ageGauge, misses>>

\* spawn_collectors; the first tick of an interval is at once.
CollectorInit ==
    /\ task = [b \in Backends |->
                 [pc |-> "waiting", due |-> 0, elapsed |-> 0, sampled |-> 0]]
    /\ reported = [b \in Backends |-> NoReading]
    /\ ageGauge = [b \in Backends |-> NoReading]
    /\ misses = [b \in Backends |-> 0]

CollectorNext ==
    \/ Tick
    \/ \E b \in Backends :
           StartFetch(b) \/ ResponseHead(b) \/ Store(b) \/ Fail(b) \/ Expire(b)

CollectorSpec == CollectorInit /\ [][CollectorNext]_collectorVars

-----------------------------------------------------------------------------
(***************************************************************************)
(* Properties.                                                             *)
(***************************************************************************)

\* "timeout wraps the ENTIRE operation": a reading that is stamped with the
\* moment of receipt is of values no older than the timeout, however slowly
\* the body drips in (signal/mod.rs:45-50, 156-158).
ReadingWithinTimeout ==
    \A b \in Backends : reported[b] # NoReading => reported[b].lag =< Timeout

\* "Preserve last good value": a reading is replaced by a newer one and by
\* nothing else, whatever way a scrape fails (signal/mod.rs:183-200).
ReadingNeverLost ==
    [][\A b \in Backends :
         reported[b] # NoReading /\ reported'[b] # reported[b] =>
             /\ reported'[b] # NoReading
             /\ reported'[b].age = 0 \/ reported'[b].lag = reported[b].lag
      ]_collectorVars

\* "one slow or hanging backend delays every other reading" in a single loop:
\* here the age of a reading is a matter of its own backend, an interval for
\* every scrape of it that failed, and one more with its timeout
\* (signal/mod.rs:88-92, 142-150).
AgeIsOwnDoing ==
    \A b \in Backends :
        reported[b] # NoReading /\ misses[b] < MaxMisses =>
            reported[b].age =< (misses[b] + 1) * Interval + Timeout

=============================================================================
