--------------------------- MODULE MonitoringProofs ---------------------------
(***************************************************************************)
(* What the monitoring says, for any backends, interval and timeout of the *)
(* collectors, any texts, and any number of callers of a warn-once check.  *)
(*                                                                         *)
(* The statics of a warn-once check lose no call and warn once.  What the  *)
(* calls under way still owe to the statics is kept like the deposits of   *)
(* Ledger.tla.                                                             *)
(***************************************************************************)
EXTENDS Collector, Readings, WarnOnce, WellFoundedInduction, TLAPS

-----------------------------------------------------------------------------
(***************************************************************************)
(* The collectors.                                                         *)
(***************************************************************************)

\* How a task and its timers stand: a fetch ends before it is older than the
\* timeout, and the next tick is an interval after its start.
TaskShape(t) ==
    /\ t.due =< Interval
    /\ t.pc = "waiting" => t.due >= 0
    /\ t.pc # "waiting" => t.due = Interval - t.elapsed /\ t.elapsed =< Timeout
    /\ t.pc = "reading" => t.sampled =< t.elapsed

Reading == [age : Nat, lag : 0 .. Timeout]

TasksOK ==
    /\ task \in [Backends -> TaskRecord]
    /\ \A b \in Backends : TaskShape(task[b])

\* The type of what is stored holds the bound on its lag.
ReadingsOK ==
    /\ reported \in [Backends -> Reading \cup {NoReading}]
    /\ misses \in [Backends -> Nat]

\* The age of a reading by the timer of its collector: a fetch that is under
\* way is not among the misses yet.
AgeShape(t, r, m) ==
    r # NoReading /\ m < MaxMisses =>
        r.age =< m * Interval + (Interval - t.due)
                 + (IF t.pc = "waiting" THEN 0 ELSE Interval)

AgesOK == \A b \in Backends : AgeShape(task[b], reported[b], misses[b])

CollectorIInv == TasksOK /\ ReadingsOK /\ AgesOK

-----------------------------------------------------------------------------
LEMMA ConstantsOK ==
    /\ Timeout \in Nat /\ Interval \in Nat /\ Timeout < Interval
    /\ MaxMisses \in Nat /\ Oldest \in Nat
    /\ \A r \in Reading : r # NoReading
<1>1. /\ Timeout \in Nat /\ Interval \in Nat /\ Timeout < Interval
      /\ MaxMisses \in Nat
    BY CollectorAssumption
<1>2. Oldest \in Nat
    <2>1. \A m, i \in Nat : (m + 2) * i \in Nat
        OBVIOUS
    <2> QED
        BY <1>1, <2>1 DEF Oldest
<1>3. \A r \in Reading : r # NoReading
    BY CollectorAssumption DEF Reading
<1> QED
    BY <1>1, <1>2, <1>3

\* Older counts up by one at most and keeps the order.
LEMMA OlderMonotone ==
    ASSUME NEW m \in Nat, NEW n \in Nat
    PROVE  /\ Older(n) \in Nat /\ n =< Older(n) /\ Older(n) =< n + 1
           /\ m =< n => Older(m) =< Older(n)
BY ConstantsOK DEF Older

LEMMA InitCollector == CollectorInit => CollectorIInv
BY ConstantsOK DEF CollectorInit, CollectorIInv, TasksOK, ReadingsOK, AgesOK,
                   TaskShape, AgeShape, TaskRecord, Places

-----------------------------------------------------------------------------
\* A step of one collector: it is enough to look at its own task and reading.
LEMMA OneCollector ==
    ASSUME CollectorIInv, NEW b \in Backends,
           NEW t \in TaskRecord, NEW r \in Reading \cup {NoReading}, NEW m \in Nat,
           task' = [task EXCEPT ![b] = t],
           reported' = [reported EXCEPT ![b] = r],
           misses' = [misses EXCEPT ![b] = m],
           TaskShape(t), AgeShape(t, r, m)
    PROVE  CollectorIInv'
<1>1. TasksOK'
    BY DEF CollectorIInv, TasksOK
<1>2. ReadingsOK'
    BY DEF CollectorIInv, ReadingsOK
<1>3. ASSUME NEW c \in Backends
      PROVE  AgeShape(task[c], reported[c], misses[c])'
    <2>1. CASE c = b
        <3>1. task'[c] = t /\ reported'[c] = r /\ misses'[c] = m
            BY <2>1 DEF CollectorIInv, TasksOK, ReadingsOK
        <3> QED
            BY <3>1 DEF AgeShape
    <2>2. CASE c # b
        <3>1. /\ task'[c] = task[c] /\ reported'[c] = reported[c]
              /\ misses'[c] = misses[c]
            BY <2>2 DEF CollectorIInv, TasksOK, ReadingsOK
        <3>2. AgeShape(task[c], reported[c], misses[c])
            BY DEF CollectorIInv, AgesOK
        <3> QED
            BY <3>1, <3>2 DEF AgeShape
    <2> QED
        BY <2>1, <2>2
<1> QED
    BY <1>1, <1>2, <1>3 DEF CollectorIInv, AgesOK

\* The task after Wait.
LEMMA WaitShape ==
    ASSUME CollectorIInv, NEW b \in Backends, task[b].pc # "waiting"
    PROVE  LET t == [task[b] EXCEPT !.pc = "waiting", !.elapsed = 0, !.sampled = 0]
           IN  /\ t \in TaskRecord /\ TaskShape(t)
               /\ t.pc = "waiting" /\ t.due = task[b].due
               /\ task[b].due =< Interval /\ task[b].due \in Int
<1> DEFINE t == [task[b] EXCEPT !.pc = "waiting", !.elapsed = 0, !.sampled = 0]
<1>1. task[b] \in TaskRecord /\ TaskShape(task[b])
    BY DEF CollectorIInv, TasksOK
<1>2. task[b].due \in Int /\ task[b].elapsed \in Nat
    BY <1>1 DEF TaskRecord
<1>3. task[b].due =< Interval /\ task[b].due >= 0
    BY <1>1, <1>2, ConstantsOK DEF TaskShape
<1>4. /\ t \in TaskRecord
      /\ t.pc = "waiting" /\ t.due = task[b].due
    BY <1>1 DEF TaskRecord, Places
<1> HIDE DEF t
<1>5. TaskShape(t)
    BY <1>3, <1>4 DEF TaskShape
<1> QED
    BY <1>2, <1>3, <1>4, <1>5 DEF t

\* A scrape that fails: its time becomes one more miss.
LEMMA MissStep ==
    ASSUME CollectorIInv, NEW b \in Backends, task[b].pc # "waiting",
           Wait(b), Missed(b), reported' = reported
    PROVE  CollectorIInv'
<1> DEFINE t == [task[b] EXCEPT !.pc = "waiting", !.elapsed = 0, !.sampled = 0]
           r == reported[b]
           m == IF misses[b] < MaxMisses THEN misses[b] + 1 ELSE misses[b]
<1>1. t \in TaskRecord /\ TaskShape(t) /\ t.pc = "waiting" /\ t.due = task[b].due
    BY WaitShape
<1>2. r \in Reading \cup {NoReading} /\ misses[b] \in Nat /\ m \in Nat
    BY ConstantsOK DEF CollectorIInv, ReadingsOK
<1>3. task' = [task EXCEPT ![b] = t]
    BY DEF Wait
<1>4. reported' = [reported EXCEPT ![b] = r] /\ misses' = [misses EXCEPT ![b] = m]
    BY DEF CollectorIInv, ReadingsOK, Missed
<1>5. AgeShape(t, r, m)
    <2> SUFFICES ASSUME r # NoReading, m < MaxMisses
                 PROVE  r.age =< m * Interval + (Interval - t.due)
        <3> HIDE DEF t, r, m
        <3>1. m * Interval + (Interval - t.due) + 0 = m * Interval + (Interval - t.due)
            BY <1>1, <1>2, ConstantsOK DEF TaskRecord
        <3> QED
            BY <1>1, <3>1 DEF AgeShape
    <2>1. misses[b] < MaxMisses /\ m = misses[b] + 1
        BY <1>2, ConstantsOK
    <2>2. AgeShape(task[b], r, misses[b])
        BY DEF CollectorIInv, AgesOK
    <2>3. r.age =< misses[b] * Interval + (Interval - task[b].due) + Interval
        BY <2>1, <2>2 DEF AgeShape
    <2>4. m * Interval = misses[b] * Interval + Interval
        BY <2>1, <1>2, ConstantsOK
    <2>5. task[b].due \in Int /\ r.age \in Nat /\ misses[b] * Interval \in Nat
        BY <1>2, ConstantsOK DEF CollectorIInv, TasksOK, TaskRecord, Reading
    <2> HIDE DEF t, r, m
    <2> QED
        BY <1>1, <2>3, <2>4, <2>5, ConstantsOK
<1> HIDE DEF t, r, m
<1> QED
    BY <1>1, <1>2, <1>3, <1>4, <1>5, OneCollector

LEMMA StartFetchStep ==
    ASSUME CollectorIInv, NEW b \in Backends, StartFetch(b) PROVE CollectorIInv'
<1> DEFINE t == [pc |-> "connecting", due |-> Interval, elapsed |-> 0, sampled |-> 0]
           r == reported[b]
           m == misses[b]
<1>1. t \in TaskRecord /\ TaskShape(t)
    BY ConstantsOK DEF TaskRecord, TaskShape, Places
<1>2. r \in Reading \cup {NoReading} /\ m \in Nat
    BY DEF CollectorIInv, ReadingsOK
<1>3. /\ task' = [task EXCEPT ![b] = t]
      /\ reported' = [reported EXCEPT ![b] = r] /\ misses' = [misses EXCEPT ![b] = m]
    BY DEF CollectorIInv, ReadingsOK, StartFetch
<1>4. AgeShape(t, r, m)
    <2>1. task[b].pc = "waiting" /\ task[b].due = 0
        BY DEF CollectorIInv, TasksOK, TaskShape, TaskRecord, StartFetch, CanStart
    <2>2. AgeShape(task[b], r, m)
        BY DEF CollectorIInv, AgesOK
    <2> QED
        BY <1>2, <2>1, <2>2, ConstantsOK DEF AgeShape
<1> HIDE DEF t, r, m
<1> QED
    BY <1>1, <1>2, <1>3, <1>4, OneCollector

LEMMA ResponseHeadStep ==
    ASSUME CollectorIInv, NEW b \in Backends, ResponseHead(b) PROVE CollectorIInv'
<1> DEFINE t == [task[b] EXCEPT !.pc = "reading", !.sampled = 0]
           r == reported[b]
           m == misses[b]
<1>1. /\ t \in TaskRecord /\ TaskShape(t)
      /\ t.pc = "reading" /\ t.due = task[b].due /\ task[b].pc = "connecting"
    <2>1. /\ task[b] \in TaskRecord /\ TaskShape(task[b])
          /\ task[b].pc = "connecting"
        BY DEF CollectorIInv, TasksOK, ResponseHead
    <2>2. /\ t \in TaskRecord
          /\ t.pc = "reading" /\ t.due = task[b].due
          /\ t.elapsed = task[b].elapsed /\ t.sampled = 0
        BY <2>1 DEF TaskRecord, Places
    <2> HIDE DEF t
    <2>3. t.elapsed \in Nat
        BY <2>2 DEF TaskRecord
    <2>4. TaskShape(t)
        BY <2>1, <2>2, <2>3 DEF TaskShape
    <2> QED
        BY <2>1, <2>2, <2>4
<1>2. r \in Reading \cup {NoReading} /\ m \in Nat
    BY DEF CollectorIInv, ReadingsOK
<1>3. /\ task' = [task EXCEPT ![b] = t]
      /\ reported' = [reported EXCEPT ![b] = r] /\ misses' = [misses EXCEPT ![b] = m]
    BY DEF CollectorIInv, ReadingsOK, ResponseHead
<1>4. AgeShape(t, r, m)
    <2>1. AgeShape(task[b], r, m)
        BY DEF CollectorIInv, AgesOK
    <2> QED
        BY <1>1, <2>1 DEF AgeShape
<1> HIDE DEF t, r, m
<1> QED
    BY <1>1, <1>2, <1>3, <1>4, OneCollector

LEMMA StoreStep ==
    ASSUME CollectorIInv, NEW b \in Backends, Store(b) PROVE CollectorIInv'
<1> DEFINE t == [task[b] EXCEPT !.pc = "waiting", !.elapsed = 0, !.sampled = 0]
           r == [age |-> 0, lag |-> task[b].sampled]
           m == 0
<1>1. /\ t \in TaskRecord /\ TaskShape(t) /\ t.pc = "waiting"
      /\ t.due =< Interval /\ t.due \in Int
    BY WaitShape DEF Store
<1>2. r \in Reading
    BY ConstantsOK DEF CollectorIInv, TasksOK, TaskRecord, TaskShape, Reading, Store
<1>3. /\ task' = [task EXCEPT ![b] = t]
      /\ reported' = [reported EXCEPT ![b] = r] /\ misses' = [misses EXCEPT ![b] = m]
    BY DEF Store, Wait
<1>4. AgeShape(t, r, m)
    BY <1>1, ConstantsOK DEF AgeShape
<1>5. m \in Nat
    OBVIOUS
<1> HIDE DEF t, r, m
<1> QED
    BY <1>1, <1>2, <1>3, <1>4, <1>5, OneCollector

\* Time passes only while no timer is due.
LEMMA TickStep ==
    ASSUME CollectorIInv, Tick PROVE CollectorIInv'
<1> DEFINE T(b) == [task[b] EXCEPT
                      !.due = @ - 1,
                      !.elapsed = IF task[b].pc = "waiting" THEN @ ELSE Older(@),
                      !.sampled = IF task[b].pc = "reading" THEN Older(@) ELSE @]
           R(b) == IF reported[b] = NoReading THEN NoReading
                   ELSE [reported[b] EXCEPT !.age = Older(@)]
<1>1. /\ task' = [b \in Backends |-> T(b)]
      /\ reported' = [b \in Backends |-> R(b)]
      /\ misses' = misses
    BY DEF Tick
<1>2. ASSUME NEW b \in Backends
      PROVE  /\ T(b) \in TaskRecord /\ TaskShape(T(b))
             /\ T(b).pc = task[b].pc /\ T(b).due = task[b].due - 1
    <2>1. task[b] \in TaskRecord /\ TaskShape(task[b])
        BY DEF CollectorIInv, TasksOK
    <2>2. /\ task[b].pc \in Places /\ task[b].due \in Int
          /\ task[b].elapsed \in Nat /\ task[b].sampled \in Nat
        BY <2>1 DEF TaskRecord
    <2>3. /\ task[b].pc = "waiting" => task[b].due > 0
          /\ task[b].pc # "waiting" => task[b].elapsed < Timeout
        <3>1. ~CanStart(b) /\ ~Expires(b)
            BY DEF Tick
        <3> QED
            BY <2>2, <3>1, ConstantsOK DEF CanStart, Expires
    <2>4. /\ Older(task[b].elapsed) \in Nat /\ Older(task[b].sampled) \in Nat
          /\ Older(task[b].elapsed) =< task[b].elapsed + 1
          /\ task[b].elapsed =< Older(task[b].elapsed)
          /\ task[b].sampled =< task[b].elapsed =>
               Older(task[b].sampled) =< Older(task[b].elapsed)
        BY <2>2, OlderMonotone
    <2>5. task[b].elapsed < Timeout => Older(task[b].elapsed) = task[b].elapsed + 1
        <3>1. \A i, k \in Nat : i =< (k + 2) * i
            OBVIOUS
        <3>2. Timeout < Oldest
            BY <3>1, ConstantsOK DEF Oldest
        <3> QED
            BY <2>2, <3>2, ConstantsOK DEF Older
    <2>6. T(b) \in TaskRecord
        <3> DEFINE d == task[b].due - 1
                   e == IF task[b].pc = "waiting" THEN task[b].elapsed
                        ELSE Older(task[b].elapsed)
                   s == IF task[b].pc = "reading" THEN Older(task[b].sampled)
                        ELSE task[b].sampled
        <3>1. d \in Int /\ e \in Nat /\ s \in Nat
            BY <2>2, <2>4
        <3>2. T(b) = [task[b] EXCEPT !.due = d, !.elapsed = e, !.sampled = s]
            BY <2>1 DEF TaskRecord
        <3> HIDE DEF d, e, s, T
        <3> QED
            BY <2>1, <3>1, <3>2 DEF TaskRecord
    <2>7. /\ T(b).pc = task[b].pc /\ T(b).due = task[b].due - 1
          /\ T(b).elapsed = IF task[b].pc = "waiting" THEN task[b].elapsed
                            ELSE Older(task[b].elapsed)
          /\ T(b).sampled = IF task[b].pc = "reading" THEN Older(task[b].sampled)
                            ELSE task[b].sampled
        BY <2>1 DEF TaskRecord
    <2> HIDE DEF T
    <2>8. TaskShape(T(b))
        BY <2>1, <2>2, <2>3, <2>4, <2>5, <2>7, ConstantsOK DEF TaskShape
    <2> QED
        BY <2>6, <2>7, <2>8
<1>3. ASSUME NEW b \in Backends
      PROVE  /\ R(b) \in Reading \cup {NoReading}
             /\ R(b) # NoReading =>
                    /\ reported[b] # NoReading
                    /\ reported[b].age \in Nat /\ R(b).age \in Nat
                    /\ R(b).age =< reported[b].age + 1
    <2>1. reported[b] \in Reading \cup {NoReading}
        BY DEF CollectorIInv, ReadingsOK
    <2>2. CASE reported[b] = NoReading
        BY <2>2
    <2>3. CASE reported[b] # NoReading
        <3>1. reported[b] \in Reading /\ reported[b].age \in Nat
            BY <2>1, <2>3 DEF Reading
        <3>2. Older(reported[b].age) \in Nat /\ Older(reported[b].age) =< reported[b].age + 1
            BY <3>1, OlderMonotone
        <3>3. R(b) = [reported[b] EXCEPT !.age = Older(@)]
            BY <2>3
        <3> QED
            BY <2>3, <3>1, <3>2, <3>3 DEF Reading
    <2> QED
        BY <2>2, <2>3
<1> HIDE DEF T, R
<1>4. TasksOK'
    BY <1>1, <1>2 DEF TasksOK
<1>5. ReadingsOK'
    BY <1>1, <1>3 DEF CollectorIInv, ReadingsOK
<1>6. ASSUME NEW b \in Backends
      PROVE  AgeShape(T(b), R(b), misses[b])
    <2> SUFFICES ASSUME R(b) # NoReading, misses[b] < MaxMisses
                 PROVE  R(b).age =< misses[b] * Interval + (Interval - T(b).due)
                                    + (IF T(b).pc = "waiting" THEN 0 ELSE Interval)
        BY DEF AgeShape
    <2>1. AgeShape(task[b], reported[b], misses[b])
        BY DEF CollectorIInv, AgesOK
    <2>2. /\ reported[b] # NoReading /\ reported[b].age \in Nat /\ R(b).age \in Nat
          /\ R(b).age =< reported[b].age + 1
        BY <1>3
    <2>3. reported[b].age =< misses[b] * Interval + (Interval - task[b].due)
                             + (IF task[b].pc = "waiting" THEN 0 ELSE Interval)
        BY <2>1, <2>2 DEF AgeShape
    <2>4. T(b).pc = task[b].pc /\ T(b).due = task[b].due - 1
        BY <1>2
    <2>5. task[b].due \in Int /\ misses[b] \in Nat /\ misses[b] * Interval \in Nat
        BY ConstantsOK DEF CollectorIInv, TasksOK, TaskRecord, ReadingsOK
    <2> QED
        BY <2>2, <2>3, <2>4, <2>5, ConstantsOK
<1>7. AgesOK'
    BY <1>1, <1>6 DEF AgesOK
<1> QED
    BY <1>4, <1>5, <1>7 DEF CollectorIInv

LEMMA NextCollector == CollectorIInv /\ [CollectorNext]_collectorVars => CollectorIInv'
<1> SUFFICES ASSUME CollectorIInv, [CollectorNext]_collectorVars PROVE CollectorIInv'
    OBVIOUS
<1>1. CASE Tick
    BY <1>1, TickStep
<1>2. ASSUME NEW b \in Backends, StartFetch(b) PROVE CollectorIInv'
    BY <1>2, StartFetchStep
<1>3. ASSUME NEW b \in Backends, ResponseHead(b) PROVE CollectorIInv'
    BY <1>3, ResponseHeadStep
<1>4. ASSUME NEW b \in Backends, Store(b) PROVE CollectorIInv'
    BY <1>4, StoreStep
<1>5. ASSUME NEW b \in Backends, Fail(b) PROVE CollectorIInv'
    BY <1>5, MissStep DEF Fail
<1>6. ASSUME NEW b \in Backends, Expire(b) PROVE CollectorIInv'
    BY <1>6, MissStep DEF Expire, Expires
<1>7. CASE UNCHANGED collectorVars
    BY <1>7 DEF collectorVars, CollectorIInv, TasksOK, ReadingsOK, AgesOK
<1> QED
    BY <1>1, <1>2, <1>3, <1>4, <1>5, <1>6, <1>7 DEF CollectorNext

LEMMA CollectorInvariant == CollectorSpec => []CollectorIInv
<1> QED
    BY InitCollector, NextCollector, PTL DEF CollectorSpec

-----------------------------------------------------------------------------
\* A reading is of values no older than the timeout of fetch_metrics when it is
\* stored, whatever interval, timeout and backends there are.
THEOREM CollectorReadingWithinTimeout == CollectorSpec => []ReadingWithinTimeout
<1>1. CollectorIInv => ReadingWithinTimeout
    BY ConstantsOK DEF CollectorIInv, ReadingsOK, ReadingWithinTimeout, Reading
<1> QED
    BY <1>1, CollectorInvariant, PTL

\* One slow backend ages no reading but its own: an interval for every miss,
\* one more, and the timeout.
THEOREM CollectorAgeIsOwnDoing == CollectorSpec => []AgeIsOwnDoing
<1>1. CollectorIInv => AgeIsOwnDoing
    <2> SUFFICES ASSUME CollectorIInv, NEW b \in Backends,
                        reported[b] # NoReading, misses[b] < MaxMisses
                 PROVE  reported[b].age =< (misses[b] + 1) * Interval + Timeout
        BY DEF AgeIsOwnDoing
    <2>1. reported[b].age =< misses[b] * Interval + (Interval - task[b].due)
                             + (IF task[b].pc = "waiting" THEN 0 ELSE Interval)
        BY DEF CollectorIInv, AgesOK, AgeShape
    <2>2. /\ task[b].due \in Int /\ task[b].elapsed \in Nat
          /\ misses[b] \in Nat /\ misses[b] * Interval \in Nat
          /\ reported[b].age \in Nat
        BY ConstantsOK DEF CollectorIInv, TasksOK, TaskRecord, ReadingsOK, Reading
    <2>3. /\ task[b].pc = "waiting" => task[b].due >= 0
          /\ task[b].pc # "waiting" => Interval - task[b].due =< Timeout
        BY <2>2, ConstantsOK DEF CollectorIInv, TasksOK, TaskShape
    <2>4. (misses[b] + 1) * Interval = misses[b] * Interval + Interval
        BY <2>2, ConstantsOK
    <2> QED
        BY <2>1, <2>2, <2>3, <2>4, ConstantsOK
<1> QED
    BY <1>1, CollectorInvariant, PTL

\* No step replaces a reading by none or by an older one.
THEOREM CollectorReadingNeverLost == CollectorSpec => ReadingNeverLost
<1> DEFINE Kept == \A b \in Backends :
                     reported[b] # NoReading /\ reported'[b] # reported[b] =>
                         /\ reported'[b] # NoReading
                         /\ reported'[b].age = 0 \/ reported'[b].lag = reported[b].lag
<1>1. CollectorIInv /\ CollectorIInv' /\ [CollectorNext]_collectorVars
          => [Kept]_collectorVars
    <2> SUFFICES ASSUME CollectorIInv, CollectorNext,
                        NEW b \in Backends,
                        reported[b] # NoReading, reported'[b] # reported[b]
                 PROVE  /\ reported'[b] # NoReading
                        /\ reported'[b].age = 0 \/ reported'[b].lag = reported[b].lag
        OBVIOUS
    <2>1. reported[b] \in Reading /\ reported \in [Backends -> Reading \cup {NoReading}]
        BY DEF CollectorIInv, ReadingsOK
    <2>2. CASE Tick
        <3>1. reported'[b] = [reported[b] EXCEPT !.age = Older(@)]
            BY <2>2 DEF Tick
        <3>2. Older(reported[b].age) \in Nat
            BY <2>1, OlderMonotone DEF Reading
        <3>3. reported'[b] \in Reading /\ reported'[b].lag = reported[b].lag
            BY <2>1, <3>1, <3>2 DEF Reading
        <3> QED
            BY <3>3, ConstantsOK
    <2>3. ASSUME NEW c \in Backends, Store(c)
          PROVE  reported'[b] # NoReading /\ reported'[b].age = 0
        <3>1. reported'[b] = [age |-> 0, lag |-> task[c].sampled]
            BY <2>1, <2>3 DEF Store
        <3>2. reported'[b] \in [age : Nat, lag : Nat]
            BY <2>3, <3>1 DEF CollectorIInv, TasksOK, TaskRecord
        <3> QED
            BY <3>1, <3>2, CollectorAssumption
    <2>4. ASSUME NEW c \in Backends,
                 StartFetch(c) \/ ResponseHead(c) \/ Fail(c) \/ Expire(c)
          PROVE  FALSE
        BY <2>4 DEF StartFetch, ResponseHead, Fail, Expire
    <2> QED
        BY <2>2, <2>3, <2>4 DEF CollectorNext
<1> QED
    BY <1>1, CollectorInvariant, PTL DEF CollectorSpec, ReadingNeverLost

-----------------------------------------------------------------------------
(***************************************************************************)
(* The warn-once checks.                                                   *)
(***************************************************************************)

Statics == {"n", "sum"}

\* What each call has yet to add, and what the statics lack of all calls begun.
Owed ==
    [c \in Callers |-> [a \in Statics |->
        IF a \notin call[c].todo THEN 0 ELSE IF a = "n" THEN 1 ELSE call[c].milli]]
Lacking ==
    [a \in Statics |-> IF a = "n" THEN began.count - SAMPLES ELSE began.sum - SUM_MILLI]

Debts == INSTANCE LedgerProofs WITH
    Holders <- Callers, Accounts <- Statics, total <- Lacking, held <- Owed

StaticsOK ==
    /\ SAMPLES \in Nat /\ SUM_MILLI \in Nat /\ WARNED \in BOOLEAN
    /\ began \in [count : Int, sum : Int]
    /\ call \in [Callers -> CallRecord]
    /\ \A c \in Callers : call[c].pc # "adding" => call[c].todo = {}

DebtsOK ==
    \A a \in Statics :
        /\ Debts!IsFiniteSet(Debts!Units(Owed, a))
        /\ Lacking[a] = Debts!Cardinality(Debts!Units(Owed, a))

WarnIInv == StaticsOK /\ DebtsOK

-----------------------------------------------------------------------------
LEMMA OwedType ==
    ASSUME StaticsOK
    PROVE  Owed \in [Callers -> [Statics -> Nat]]
<1> SUFFICES ASSUME NEW c \in Callers, NEW a \in Statics
             PROVE  Owed[c][a] \in Nat
    BY DEF Owed
<1>1. call[c].milli \in Nat
    BY DEF StaticsOK, CallRecord
<1> QED
    BY <1>1 DEF Owed

\* A step of one call, which changes what it owes as much as what is lacking.
LEMMA DebtStep ==
    ASSUME WarnIInv, StaticsOK', NEW c \in Callers,
           \A x \in Callers \ {c} : call'[x] = call[x],
           \A a \in Statics : Lacking'[a] = Lacking[a] + Owed'[c][a] - Owed[c][a]
    PROVE  WarnIInv'
<1>1. Owed \in [Callers -> [Statics -> Nat]]
    BY OwedType DEF WarnIInv
<1>2. Owed' \in [Callers -> [Statics -> Nat]]
    <2> SUFFICES ASSUME NEW x \in Callers, NEW a \in Statics
                 PROVE  Owed'[x][a] \in Nat
        BY DEF Owed
    <2>1. call'[x].milli \in Nat
        BY DEF StaticsOK, CallRecord
    <2> QED
        BY <2>1 DEF Owed
<1>3. \A x \in Callers \ {c}, a \in Statics : Owed'[x][a] = Owed[x][a]
    BY DEF Owed
<1>4. ASSUME NEW a \in Statics
      PROVE  /\ Debts!IsFiniteSet(Debts!Units(Owed', a))
             /\ Lacking'[a] = Debts!Cardinality(Debts!Units(Owed', a))
    <2>1. /\ Debts!IsFiniteSet(Debts!Units(Owed, a))
          /\ Lacking[a] = Debts!Cardinality(Debts!Units(Owed, a))
        BY DEF WarnIInv, DebtsOK
    <2>2. \A x \in Callers \ {c} : Owed'[x][a] = Owed[x][a]
        BY <1>3
    <2>3. /\ Debts!IsFiniteSet(Debts!Units(Owed', a))
          /\ Debts!Cardinality(Debts!Units(Owed', a)) =
               Debts!Cardinality(Debts!Units(Owed, a)) + Owed'[c][a] - Owed[c][a]
        BY <1>1, <1>2, <2>1, <2>2, Debts!UnitsMove, Zenon
    <2> QED
        BY <2>1, <2>3
<1> QED
    BY <1>4 DEF WarnIInv, DebtsOK, Debts!Units

LEMMA InitWarn == WarnInit => WarnIInv
<1> SUFFICES ASSUME WarnInit PROVE WarnIInv
    OBVIOUS
<1>1. StaticsOK
    <2>1. NoCall \in CallRecord /\ NoCall.todo = {}
        BY DEF CallRecord, NoCall
    <2>2. call \in [Callers -> CallRecord] /\ \A c \in Callers : call[c] = NoCall
        BY <2>1 DEF WarnInit
    <2>3. began \in [count : Int, sum : Int]
        BY DEF WarnInit
    <2> QED
        BY <2>1, <2>2, <2>3 DEF WarnInit, StaticsOK
<1>2. ASSUME NEW a \in Statics
      PROVE  Lacking[a] = 0 /\ Debts!Units(Owed, a) = {}
    <2>1. \A c \in Callers : Owed[c][a] = 0
        BY DEF WarnInit, NoCall, Owed
    <2>2. Debts!Units(Owed, a) = {}
        BY <2>1 DEF Debts!Units
    <2> QED
        BY <2>2 DEF WarnInit, Lacking
<1> QED
    BY <1>1, <1>2, Debts!FS_EmptySet DEF WarnIInv, DebtsOK

-----------------------------------------------------------------------------
LEMMA RecordStep ==
    ASSUME WarnIInv, NEW c \in Callers, NEW milli \in Ratios, Record(c, milli)
    PROVE  WarnIInv'
<1>1. /\ milli \in Nat /\ call[c].pc = "idle" /\ call[c].todo = {}
      /\ call'[c].milli = milli /\ call'[c].todo = Statics
      /\ call'[c].pc = "adding" /\ call' \in [Callers -> CallRecord]
      /\ \A x \in Callers \ {c} : call'[x] = call[x]
    <2>1. /\ milli \in Nat /\ call[c].pc = "idle" /\ call[c].todo = {}
          /\ call \in [Callers -> CallRecord]
        BY WarnOnceAssumption DEF WarnIInv, StaticsOK, Record
    <2> DEFINE k == [NoCall EXCEPT !.pc = "adding", !.milli = milli,
                                   !.todo = {"n", "sum"}]
    <2>2. call' = [call EXCEPT ![c] = k]
        BY DEF Record
    <2>3. k.pc = "adding" /\ k.milli = milli /\ k.todo = Statics /\ k \in CallRecord
        BY <2>1 DEF NoCall, Statics, CallRecord
    <2> HIDE DEF k
    <2> QED
        BY <2>1, <2>2, <2>3
<1>2. StaticsOK'
    <2>1. began' \in [count : Int, sum : Int]
        BY <1>1 DEF WarnIInv, StaticsOK, Record
    <2> QED
        BY <1>1, <2>1 DEF WarnIInv, StaticsOK, Record
<1>3. ASSUME NEW a \in Statics
      PROVE  Lacking'[a] = Lacking[a] + Owed'[c][a] - Owed[c][a]
    <2>1. Owed[c][a] = 0 /\ Owed'[c][a] = IF a = "n" THEN 1 ELSE milli
        BY <1>1 DEF Owed
    <2>2. began'.count = began.count + 1 /\ began'.sum = began.sum + milli
          /\ SAMPLES' = SAMPLES /\ SUM_MILLI' = SUM_MILLI
        BY DEF Record
    <2>3. milli \in Int /\ began.count \in Int /\ began.sum \in Int
          /\ SAMPLES \in Int /\ SUM_MILLI \in Int
        BY <1>1 DEF WarnIInv, StaticsOK
    <2>4. CASE a = "n"
        BY <2>1, <2>2, <2>3, <2>4 DEF Lacking, Statics
    <2>5. CASE a = "sum"
        BY <2>1, <2>2, <2>3, <2>5 DEF Lacking, Statics
    <2> QED
        BY <2>4, <2>5 DEF Statics
<1> QED
    BY <1>1, <1>2, <1>3, DebtStep

\* A call that has added both is judged; until then it is adding.
LEMMA AddedShape ==
    ASSUME WarnIInv, NEW c \in Callers, NEW a \in Statics, NEW k \in CallRecord,
           call[c].pc = "adding", a \in call[c].todo,
           k.todo = call[c].todo \ {a}, k.milli = call[c].milli,
           k.pc = IF Statics \ {a} \subseteq call[c].todo THEN "adding" ELSE "judging",
           call' = [call EXCEPT ![c] = k],
           SAMPLES' \in Nat, SUM_MILLI' \in Nat, UNCHANGED <<WARNED, began>>,
           Lacking'[a] = Lacking[a] - Owed[c][a],
           \A b \in Statics \ {a} : Lacking'[b] = Lacking[b]
    PROVE  WarnIInv'
<1>1. call'[c] = k /\ \A x \in Callers \ {c} : call'[x] = call[x]
    BY DEF WarnIInv, StaticsOK
<1>2. k.pc # "adding" => k.todo = {}
    BY DEF WarnIInv, StaticsOK, CallRecord, Statics
<1>3. StaticsOK'
    BY <1>1, <1>2 DEF WarnIInv, StaticsOK
<1>4. ASSUME NEW b \in Statics
      PROVE  Lacking'[b] = Lacking[b] + Owed'[c][b] - Owed[c][b]
    <2>1. Owed[c][b] \in Nat /\ Lacking[b] \in Int
        BY OwedType DEF WarnIInv, StaticsOK, Lacking, Statics
    <2>2. Owed'[c][b] = IF b = a THEN 0 ELSE Owed[c][b]
        BY <1>1 DEF Owed
    <2> QED
        BY <2>1, <2>2
<1> QED
    BY <1>1, <1>3, <1>4, DebtStep

LEMMA AddSampleStep ==
    ASSUME WarnIInv, NEW c \in Callers, AddSample(c) PROVE WarnIInv'
<1> DEFINE k == [call[c] EXCEPT
                   !.n = SAMPLES + 1, !.todo = @ \ {"n"},
                   !.pc = IF "sum" \in call[c].todo THEN @ ELSE "judging"]
<1>1. /\ call[c] \in CallRecord /\ call[c].pc = "adding" /\ "n" \in call[c].todo
      /\ call \in [Callers -> CallRecord] /\ SAMPLES + 1 \in Nat /\ SUM_MILLI \in Nat
    BY DEF WarnIInv, StaticsOK, AddSample
<1>2. call' = [call EXCEPT ![c] = k]
    BY <1>1 DEF AddSample
<1>3. /\ k \in CallRecord /\ k.todo = call[c].todo \ {"n"} /\ k.milli = call[c].milli
      /\ k.pc = IF "sum" \in call[c].todo THEN "adding" ELSE "judging"
    BY <1>1 DEF CallRecord
<1>4. /\ SAMPLES' = SAMPLES + 1 /\ SUM_MILLI' = SUM_MILLI
      /\ UNCHANGED <<WARNED, began>>
    BY DEF AddSample
<1>5. Lacking'["n"] = Lacking["n"] - Owed[c]["n"] /\ Lacking'["sum"] = Lacking["sum"]
    <2>1. Owed[c]["n"] = 1
        BY <1>1 DEF Owed, Statics
    <2> QED
        BY <1>4, <2>1 DEF Lacking, Statics, WarnIInv, StaticsOK
<1> HIDE DEF k
<1>6. /\ "n" \in Statics /\ Statics \ {"n"} = {"sum"}
    BY DEF Statics
<1>7. k.pc = IF Statics \ {"n"} \subseteq call[c].todo THEN "adding" ELSE "judging"
    BY <1>3, <1>6
<1>8. \A b \in Statics \ {"n"} : Lacking'[b] = Lacking[b]
    BY <1>5, <1>6
<1> QED
    BY <1>1, <1>2, <1>3, <1>4, <1>5, <1>6, <1>7, <1>8, AddedShape

LEMMA AddSumStep ==
    ASSUME WarnIInv, NEW c \in Callers, AddSum(c) PROVE WarnIInv'
<1> DEFINE k == [call[c] EXCEPT
                   !.sum = SUM_MILLI', !.todo = @ \ {"sum"},
                   !.pc = IF "n" \in call[c].todo THEN @ ELSE "judging"]
<1>1. /\ call[c] \in CallRecord /\ call[c].pc = "adding" /\ "sum" \in call[c].todo
      /\ call \in [Callers -> CallRecord] /\ SAMPLES \in Nat
      /\ call[c].milli \in Nat
    BY DEF WarnIInv, StaticsOK, AddSum, CallRecord
<1>2. call' = [call EXCEPT ![c] = k]
    BY <1>1 DEF AddSum
<1>4. /\ SUM_MILLI' = SUM_MILLI + call[c].milli /\ SUM_MILLI' \in Nat
      /\ SAMPLES' = SAMPLES /\ UNCHANGED <<WARNED, began>>
    BY <1>1 DEF AddSum, WarnIInv, StaticsOK
<1>3. /\ k \in CallRecord /\ k.todo = call[c].todo \ {"sum"} /\ k.milli = call[c].milli
      /\ k.pc = IF "n" \in call[c].todo THEN "adding" ELSE "judging"
    BY <1>1, <1>4 DEF CallRecord
<1>5. Lacking'["sum"] = Lacking["sum"] - Owed[c]["sum"] /\ Lacking'["n"] = Lacking["n"]
    <2>1. Owed[c]["sum"] = call[c].milli
        BY <1>1 DEF Owed, Statics
    <2> QED
        BY <1>1, <1>4, <2>1 DEF Lacking, Statics, WarnIInv, StaticsOK
<1> HIDE DEF k
<1>6. /\ "sum" \in Statics /\ Statics \ {"sum"} = {"n"}
    BY DEF Statics
<1>7. k.pc = IF Statics \ {"sum"} \subseteq call[c].todo THEN "adding" ELSE "judging"
    BY <1>3, <1>6
<1>8. \A b \in Statics \ {"sum"} : Lacking'[b] = Lacking[b]
    BY <1>5, <1>6
<1> QED
    BY <1>1, <1>2, <1>3, <1>4, <1>5, <1>6, <1>7, <1>8, AddedShape

\* A call that has added both owes nothing, whatever it is judged to be.
LEMMA JudgeOrWarnStep ==
    ASSUME WarnIInv, NEW c \in Callers, Judge(c) \/ Warn(c) PROVE WarnIInv'
<1>1. /\ call[c] \in CallRecord /\ call[c].pc # "adding" /\ call[c].todo = {}
      /\ call \in [Callers -> CallRecord]
    BY DEF WarnIInv, StaticsOK, Judge, Warn
<1>2. PICK k \in {NoCall, [call[c] EXCEPT !.pc = "warning"]} :
          call' = [call EXCEPT ![c] = k]
    BY DEF Judge, Warn
<1>3. k \in CallRecord /\ k.pc # "adding" /\ k.todo = {}
    BY <1>1 DEF CallRecord, NoCall
<1>4. /\ UNCHANGED <<SAMPLES, SUM_MILLI, began>> /\ WARNED' \in BOOLEAN
    BY DEF WarnIInv, StaticsOK, Judge, Warn
<1>5. call'[c] = k /\ \A x \in Callers \ {c} : call'[x] = call[x]
    BY <1>1, <1>2
<1>6. StaticsOK'
    BY <1>2, <1>3, <1>4, <1>5 DEF WarnIInv, StaticsOK
<1>7. ASSUME NEW a \in Statics
      PROVE  Lacking'[a] = Lacking[a] + Owed'[c][a] - Owed[c][a]
    <2>1. Owed[c][a] = 0 /\ Owed'[c][a] = 0
        BY <1>1, <1>3, <1>5 DEF Owed
    <2>2. Lacking'[a] = Lacking[a] /\ Lacking[a] \in Int
        BY <1>4 DEF Lacking, Statics, WarnIInv, StaticsOK
    <2> QED
        BY <2>1, <2>2
<1> QED
    BY <1>5, <1>6, <1>7, DebtStep

LEMMA NextWarn == WarnIInv /\ [WarnNext]_warnVars => WarnIInv'
<1> SUFFICES ASSUME WarnIInv, [WarnNext]_warnVars PROVE WarnIInv'
    OBVIOUS
<1>1. ASSUME NEW c \in Callers, NEW milli \in Ratios, Record(c, milli) PROVE WarnIInv'
    BY <1>1, RecordStep
<1>2. ASSUME NEW c \in Callers, AddSample(c) PROVE WarnIInv'
    BY <1>2, AddSampleStep
<1>3. ASSUME NEW c \in Callers, AddSum(c) PROVE WarnIInv'
    BY <1>3, AddSumStep
<1>4. ASSUME NEW c \in Callers, Judge(c) \/ Warn(c) PROVE WarnIInv'
    BY <1>4, JudgeOrWarnStep
<1>5. CASE UNCHANGED warnVars
    BY <1>5 DEF warnVars, WarnIInv, StaticsOK, DebtsOK, Owed, Lacking
<1> QED
    BY <1>1, <1>2, <1>3, <1>4, <1>5 DEF WarnNext, WarnStep

LEMMA WarnInvariant == WarnSpec => []WarnIInv
<1> QED
    BY InitWarn, NextWarn, PTL DEF WarnSpec

-----------------------------------------------------------------------------
\* When no call is under way the statics hold all of them, in whatever order
\* any number of callers made their two additions.
THEOREM WarnNoSampleLost == WarnSpec => []NoSampleLost
<1>1. WarnIInv => NoSampleLost
    <2> SUFFICES ASSUME WarnIInv, \A c \in Callers : call[c].pc = "idle"
                 PROVE  SAMPLES = began.count /\ SUM_MILLI = began.sum
        BY DEF NoSampleLost
    <2>1. \A c \in Callers, a \in Statics : Owed[c][a] = 0
        BY DEF WarnIInv, StaticsOK, Owed
    <2>2. ASSUME NEW a \in Statics PROVE Lacking[a] = 0
        <3>1. Debts!Units(Owed, a) = {}
            BY <2>1 DEF Debts!Units
        <3> QED
            BY <3>1, Debts!FS_EmptySet DEF WarnIInv, DebtsOK
    <2>3. began.count - SAMPLES = 0 /\ began.sum - SUM_MILLI = 0
        BY <2>2 DEF Lacking, Statics
    <2> QED
        BY <2>3 DEF WarnIInv, StaticsOK
<1> QED
    BY <1>1, WarnInvariant, PTL

\* Only the caller that wins the compare_exchange warns, however many judge the
\* mean at once.
THEOREM WarnWarnsOnce == WarnSpec => []WarnsOnce
<1>1. WarnInit => WarnsOnce
    BY DEF WarnInit, WarnsOnce
<1>2. WarnsOnce /\ [WarnNext]_warnVars => WarnsOnce'
    <2> SUFFICES ASSUME WarnsOnce, [WarnNext]_warnVars PROVE WarnsOnce'
        OBVIOUS
    <2>1. ASSUME NEW c \in Callers, Warn(c) PROVE WarnsOnce'
        BY <2>1 DEF Warn, WarnsOnce
    <2>2. CASE UNCHANGED <<WARNED, warnings>>
        BY <2>2 DEF WarnsOnce
    <2> QED
        BY <2>1, <2>2 DEF WarnNext, WarnStep, Record, AddSample, AddSum, Judge, warnVars
<1> QED
    BY <1>1, <1>2, PTL DEF WarnSpec

-----------------------------------------------------------------------------
(***************************************************************************)
(* The readings.                                                           *)
(***************************************************************************)

LEMMA FirstOf ==
    ASSUME NEW S \in SUBSET Nat, S # {}
    PROVE  First(S) \in S
<1>1. PICK i \in S : \A j \in S : <<j, i>> \notin OpToRel(<, Nat)
    BY NatLessThanWellFounded, WFMin
<1>2. \A j \in S : ~(j < i)
    BY <1>1 DEF OpToRel
<1>3. \A j \in S : i =< j
    BY <1>2
<1> QED
    BY <1>3 DEF First

\* A metric is the value of a line of that very name, or there is none.
LEMMA MetricTold ==
    ASSUME NEW text \in Seq(Lines), NEW base, NEW suffix
    PROVE  \/ /\ MetricValue(text, base, suffix) = Absent
              /\ \A i \in 1 .. Len(text) : ~Tells(text[i], base, suffix)
           \/ \E i \in 1 .. Len(text) :
                  /\ Tells(text[i], base, suffix)
                  /\ MetricValue(text, base, suffix) = text[i].value
<1> DEFINE S == {i \in 1 .. Len(text) : Tells(text[i], base, suffix)}
<1>1. S \in SUBSET Nat
    OBVIOUS
<1>2. MetricValue(text, base, suffix) = IF S = {} THEN Absent ELSE text[First(S)].value
    BY DEF MetricValue, ValueAt
<1>3. CASE S = {}
    BY <1>2, <1>3
<1>4. CASE S # {}
    <2>1. First(S) \in S
        BY <1>1, <1>4, FirstOf
    <2> QED
        BY <1>2, <1>4, <2>1
<1> QED
    BY <1>3, <1>4

\* So is a counter, of either spelling.
LEMMA CounterTold ==
    ASSUME NEW text \in Seq(Lines), NEW base
    PROVE  \/ /\ CounterValue(text, base) = Absent
              /\ \A i \in 1 .. Len(text) : \A s \in {"bare", "_total"} : ~Tells(text[i], base, s)
           \/ \E i \in 1 .. Len(text) : \E s \in {"bare", "_total"} :
                  Tells(text[i], base, s) /\ CounterValue(text, base) = text[i].value
<1>1. \A i : \A s : Tells(text[i], base, s) => text[i].value # Absent
    BY DEF Tells
<1>2. CASE MetricValue(text, base, "bare") # Absent
    <2>1. CounterValue(text, base) = MetricValue(text, base, "bare")
        BY <1>2 DEF CounterValue
    <2>2. PICK i \in 1 .. Len(text) : /\ Tells(text[i], base, "bare")
                                      /\ MetricValue(text, base, "bare") = text[i].value
        BY <1>2, MetricTold
    <2> QED
        BY <2>1, <2>2
<1>3. CASE MetricValue(text, base, "bare") = Absent
    <2>1. CounterValue(text, base) = MetricValue(text, base, "_total")
        BY <1>3 DEF CounterValue
    <2>2. \A i \in 1 .. Len(text) : ~Tells(text[i], base, "bare")
        BY <1>1, <1>3, MetricTold
    <2>3. CASE \E i \in 1 .. Len(text) :
                  /\ Tells(text[i], base, "_total")
                  /\ MetricValue(text, base, "_total") = text[i].value
        BY <2>1, <2>3
    <2>4. CASE /\ MetricValue(text, base, "_total") = Absent
               /\ \A i \in 1 .. Len(text) : ~Tells(text[i], base, "_total")
        BY <2>1, <2>2, <2>4
    <2> QED
        BY <2>3, <2>4, MetricTold
<1> QED
    BY <1>2, <1>3

LEMMA LineValue ==
    ASSUME NEW text \in Seq(Lines), NEW i \in 1 .. Len(text), NEW base, NEW suffix,
           Tells(text[i], base, suffix)
    PROVE  text[i].value \in Int \cup {NotANumber}
<1>1. text[i] \in Lines
    OBVIOUS
<1> QED
    BY <1>1 DEF Lines, Tells

\* No cast makes a value absent.
LEMMA ShownIsThere ==
    ASSUME NEW g \in ReadGauges, NEW v \in Int \cup {NotANumber}
    PROVE  Shown(g, v) # Absent
<1>1. v # Absent /\ Absent \notin Int
    BY ReadingsAssumption
<1>2. CASE g = "kv_usage"
    BY <1>1, <1>2 DEF Shown
<1>3. \A w \in Nat \ {0} : Cast(v, w) \in Int
    BY DEF Cast
<1>4. CASE g \in {"running", "waiting"}
    BY <1>1, <1>3, <1>4, ReadingsAssumption DEF Shown
<1>5. CASE g = "preemptions"
    BY <1>1, <1>3, <1>5, ReadingsAssumption DEF Shown
<1> QED
    BY <1>2, <1>4, <1>5 DEF ReadGauges

\* A field of a reading is what the text says under its name, or there is
\* nothing.
FieldTold(value, g, text) ==
    \/ value = Absent /\ Said(text, g) = {}
    \/ value # Absent /\ \E v \in Said(text, g) : value = Shown(g, v)

LEMMA FieldsTold ==
    ASSUME NEW text \in Seq(Lines), NEW prev, NEW g \in ReadGauges
    PROVE  FieldTold(ParseReported(text, prev)[g], g, text)
<1> DEFINE Own(i) == \E s \in Spellings(g) : Tells(text[i], Base(g), s)
<1>1. Said(text, g) = {text[i].value : i \in {j \in 1 .. Len(text) : Own(j)}}
    BY DEF Said
<1>2. PICK value :
          /\ ParseReported(text, prev)[g] = Shown(g, value)
          /\ \/ value = Absent /\ \A i \in 1 .. Len(text) : ~Own(i)
             \/ \E i \in 1 .. Len(text) : Own(i) /\ value = text[i].value
    <2>1. CASE g # "preemptions"
        <3>1. Spellings(g) = {"bare"}
            BY <2>1 DEF Spellings
        <3>2. ParseReported(text, prev)[g] = Shown(g, MetricValue(text, Base(g), "bare"))
            BY <2>1 DEF ParseReported, ReadGauges, Base
        <3> QED
            BY <3>1, <3>2, MetricTold
    <2>2. CASE g = "preemptions"
        <3>1. Spellings(g) = {"bare", "_total"}
            BY <2>2 DEF Spellings
        <3>2. ParseReported(text, prev)[g] = Shown(g, CounterValue(text, Base(g)))
            BY <2>2 DEF ParseReported, Base
        <3> QED
            BY <3>1, <3>2, CounterTold
    <2> QED
        BY <2>1, <2>2
<1>3. CASE value = Absent /\ \A i \in 1 .. Len(text) : ~Own(i)
    <2>1. Shown(g, value) = Absent
        BY <1>3 DEF Shown
    <2>2. Said(text, g) = {}
        BY <1>1, <1>3
    <2> QED
        BY <1>2, <2>1, <2>2 DEF FieldTold
<1>4. CASE \E i \in 1 .. Len(text) : Own(i) /\ value = text[i].value
    <2>1. PICK i \in 1 .. Len(text) : Own(i) /\ value = text[i].value
        BY <1>4
    <2>2. value \in Said(text, g)
        BY <1>1, <2>1
    <2>3. value \in Int \cup {NotANumber}
        BY <2>1, LineValue
    <2>4. Shown(g, value) # Absent
        BY <2>3, ShownIsThere
    <2> QED
        BY <1>2, <2>2, <2>4 DEF FieldTold
<1> QED
    BY <1>2, <1>3, <1>4

LEMMA SaidValues ==
    ASSUME NEW text \in Seq(Lines), NEW g
    PROVE  Said(text, g) \subseteq Int \cup {NotANumber}
<1> SUFFICES ASSUME NEW i \in 1 .. Len(text), NEW s, Tells(text[i], Base(g), s)
             PROVE  text[i].value \in Int \cup {NotANumber}
    BY DEF Said
<1> QED
    BY LineValue

-----------------------------------------------------------------------------
\* A label that is found was quoted on a line of the capacity.
LEMMA LabelQuoted ==
    ASSUME NEW text \in Seq(Lines), NEW key,
           InfoLabel(text, "cache_config_info", key) # Absent
    PROVE  \E l \in Quoted(text) :
               l.key = key /\ l.value = InfoLabel(text, "cache_config_info", key)
<1> DEFINE S == {i \in 1 .. Len(text) : /\ text[i].base = "cache_config_info"
                                        /\ text[i].closed
                                        /\ Keyed(text[i], key) # {}
                                        /\ LabelOf(text[i], key).quoted}
<1>1. InfoLabel(text, "cache_config_info", key)
          = IF S = {} THEN Absent ELSE LabelOf(text[First(S)], key).value
    BY DEF InfoLabel
<1>2. S # {} /\ S \in SUBSET Nat
    <2>1. S # {}
        BY <1>1
    <2>2. S \in SUBSET Nat
        OBVIOUS
    <2> QED
        BY <2>1, <2>2
<1>3. PICK i \in S : i = First(S)
    BY <1>2, FirstOf
<1> DEFINE line == text[i]
           k == First(Keyed(line, key))
<1>4. line \in Lines
    BY <1>3
<1>5. Keyed(line, key) \in SUBSET Nat /\ Keyed(line, key) # {}
    <2>1. Keyed(line, key) \in SUBSET Nat
        BY DEF Keyed
    <2>2. Keyed(line, key) # {}
        BY <1>3
    <2> QED
        BY <2>1, <2>2
<1>6. k \in Keyed(line, key)
    BY <1>5, FirstOf
<1>7. k \in 1 .. Len(line.labels) /\ line.labels[k].key = key /\ line.labels[k].quoted
    BY <1>3, <1>6 DEF Keyed, LabelOf
<1>8. InfoLabel(text, "cache_config_info", key) = line.labels[k].value
    BY <1>1, <1>2, <1>3 DEF LabelOf
<1> DEFINE l == [key |-> line.labels[k].key, value |-> line.labels[k].value]
<1>9. l \in QuotedOn(line)
    BY <1>7 DEF QuotedOn
<1>10. l \in Quoted(text)
    BY <1>3, <1>9 DEF Quoted
<1>11. l.key = key /\ l.value = InfoLabel(text, "cache_config_info", key)
    BY <1>7, <1>8
<1> HIDE DEF l
<1> QED
    BY <1>10, <1>11

CapacityQuoted(said, labels) ==
    said # Absent => \A key \in DOMAIN said : \E l \in labels : l.key = key /\ l.value = said[key]

LEMMA CapacityRead ==
    ASSUME NEW text \in Seq(Lines)
    PROVE  CapacityQuoted(ParseCapacity(text), Quoted(text))
<1>1. PICK size : size = InfoLabel(text, "cache_config_info", "block_size")
    OBVIOUS
<1>2. PICK blocks : blocks = InfoLabel(text, "cache_config_info", "num_gpu_blocks")
    OBVIOUS
<1>3. CASE Absent \in {size, blocks}
    BY <1>1, <1>2, <1>3 DEF ParseCapacity, CapacityQuoted
<1>4. CASE Absent \notin {size, blocks}
    <2>1. ParseCapacity(text) = [block_size |-> size, num_gpu_blocks |-> blocks]
        BY <1>1, <1>2, <1>4 DEF ParseCapacity
    <2>2. \E l \in Quoted(text) : l.key = "block_size" /\ l.value = size
        BY <1>1, <1>4, LabelQuoted
    <2>3. \E l \in Quoted(text) : l.key = "num_gpu_blocks" /\ l.value = blocks
        BY <1>2, <1>4, LabelQuoted
    <2> QED
        BY <2>1, <2>2, <2>3 DEF CapacityQuoted
<1> QED
    BY <1>3, <1>4

LEMMA QuotedType ==
    ASSUME NEW text \in Seq(Lines)
    PROVE  Quoted(text) \subseteq [key : STRING, value : Nat \cup {Absent}]
<1> SUFFICES ASSUME NEW i \in 1 .. Len(text), NEW k \in 1 .. Len(text[i].labels)
             PROVE  [key |-> text[i].labels[k].key, value |-> text[i].labels[k].value]
                        \in [key : STRING, value : Nat \cup {Absent}]
    BY DEF Quoted, QuotedOn
<1>1. text[i] \in Lines
    OBVIOUS
<1>2. text[i].labels[k] \in Labels
    BY <1>1 DEF Lines
<1> QED
    BY <1>2 DEF Labels

-----------------------------------------------------------------------------
\* The parts of the invariant: what is said, the sample kept, and that the
\* counters of a backend that keeps running only grow, the hits by no more
\* than the queries.
CountersOK ==
    /\ counters \in [hits : 0 .. MaxQueries, queries : 0 .. MaxQueries]
    /\ counters.hits =< counters.queries

GaugesOK ==
    /\ DOMAIN gauges = Gauges /\ truth \in Truth
    /\ load # Absent => \A g \in ReadGauges : load[g] = Absent <=> g \in truth.silent
    /\ \A g \in ReadGauges :
           gauges[g] = Absent \/ \E v \in truth.said[g] : gauges[g] = Shown(g, v)
    /\ CapacityQuoted(capacity, truth.info)

\* A sample taken when the backend had counted h hits and q queries.
SampleOf(sample, h, q) ==
    /\ sample = [hits |-> sample.hits, queries |-> sample.queries]
    /\ sample.hits \in {Absent, NotANumber, 100 * h}
    /\ sample.queries \in {Absent, NotANumber, 100 * q}

SampleOK ==
    prev_sample # Absent =>
        \E h, q \in Nat :
            /\ SampleOf(prev_sample, h, q)
            /\ ~restarted =>
                  h =< counters.hits /\ counters.hits - h =< counters.queries - q

ReadingsIInv ==
    restarted \in BOOLEAN /\ CountersOK /\ GaugesOK /\ SampleOK /\ HitRateIsRate

LEMMA ReadingsStart == ReadingsInit => ReadingsIInv
<1> SUFFICES ASSUME ReadingsInit PROVE ReadingsIInv
    OBVIOUS
<1>1. truth \in Truth
    BY DEF ReadingsInit, Truth
<1>2. CountersOK
    BY ReadingsAssumption DEF ReadingsInit, CountersOK
<1>3. GaugesOK
    BY <1>1 DEF ReadingsInit, GaugesOK, Gauges, ReadGauges, CapacityQuoted
<1> QED
    BY <1>2, <1>3 DEF ReadingsInit, ReadingsIInv, SampleOK, HitRateIsRate

\* Any text gives the counters of the backend, NaN or none.
LEMMA CountRead ==
    ASSUME NEW text \in Seq(Lines), NEW base, NEW n \in Nat, Reports(text, base, n)
    PROVE  CounterValue(text, base) \in {Absent, NotANumber, 100 * n}
BY CounterTold DEF Reports

LEMMA TextRead ==
    ASSUME CountersOK, NEW text \in Texts(counters)
    PROVE  /\ text \in Seq(Lines)
           /\ SampleOf(CounterSample(text), counters.hits, counters.queries)
           /\ counters.hits \in Nat /\ counters.queries \in Nat
<1>1. /\ counters \in [hits : 0 .. MaxQueries, queries : 0 .. MaxQueries]
      /\ counters.hits \in Nat /\ counters.queries \in Nat
    BY ReadingsAssumption DEF CountersOK
<1>2. /\ text \in Seq(Lines)
      /\ Reports(text, "prefix_cache_hits", counters.hits)
      /\ Reports(text, "prefix_cache_queries", counters.queries)
    BY <1>1, ReadingsAssumption
<1>3. /\ CounterValue(text, "prefix_cache_hits") \in {Absent, NotANumber, 100 * counters.hits}
      /\ CounterValue(text, "prefix_cache_queries")
             \in {Absent, NotANumber, 100 * counters.queries}
    BY <1>1, <1>2, CountRead
<1> QED
    BY <1>1, <1>2, <1>3 DEF CounterSample, SampleOf

\* A rate over a window in which the backend kept running is a rate.
LEMMA RateIsRate ==
    ASSUME NEW h \in Nat, NEW q \in Nat, NEW ch \in Nat, NEW cq \in Nat,
           h =< ch, ch - h =< cq - q,
           NEW prev, prev # Absent => SampleOf(prev, h, q),
           NEW cur, SampleOf(cur, ch, cq)
    PROVE  LET rate == HitRate(prev, cur)
           IN  \/ rate = Absent
               \/ rate = NotANumber /\ ((prev # Absent /\ HasNaN(prev)) \/ HasNaN(cur))
               \/ rate # NotANumber /\ rate.num \in 0 .. rate.den
<1> DEFINE rate == HitRate(prev, cur)
<1>1. CASE \/ prev = Absent
           \/ Absent \in {prev.hits, prev.queries, cur.hits, cur.queries}
           \/ NotANumber \in {prev.queries, cur.queries}
    BY <1>1 DEF HitRate
<1>2. CASE /\ prev # Absent
           /\ Absent \notin {prev.hits, prev.queries, cur.hits, cur.queries}
           /\ NotANumber \notin {prev.queries, cur.queries}
    <2>1. CASE NotANumber \in {prev.hits, cur.hits}
        BY <1>2, <2>1 DEF HitRate, HasNaN
    <2>2. CASE NotANumber \notin {prev.hits, cur.hits}
        <3>1. /\ prev.hits = 100 * h /\ prev.queries = 100 * q
              /\ cur.hits = 100 * ch /\ cur.queries = 100 * cq
            BY <1>2, <2>2 DEF SampleOf
        <3>2. PICK num \in Int : num = cur.hits - prev.hits
            <4>1. cur.hits - prev.hits \in Int
                BY <3>1
            <4> QED
                BY <4>1
        <3>3. PICK den \in Int : den = cur.queries - prev.queries
            <4>1. cur.queries - prev.queries \in Int
                BY <3>1
            <4> QED
                BY <4>1
        <3>4. num \in 0 .. den
            BY <3>1, <3>2, <3>3
        <3>5. rate \in {Absent, [num |-> num, den |-> den]}
            BY <1>2, <2>2, <3>2, <3>3 DEF HitRate
        <3>6. [num |-> num, den |-> den] \in [num : Int, den : Int]
            OBVIOUS
        <3>7. [num |-> num, den |-> den] # NotANumber
            BY <3>6, ReadingsAssumption
        <3>8. [num |-> num, den |-> den].num = num /\ [num |-> num, den |-> den].den = den
            OBVIOUS
        <3> HIDE DEF rate
        <3> QED
            BY <3>4, <3>5, <3>7, <3>8 DEF rate
    <2> QED
        BY <2>1, <2>2
<1> QED
    BY <1>1, <1>2

LEMMA ScrapeKeepsReadings ==
    ASSUME ReadingsIInv, NEW text \in Texts(counters), NEW p \in Projections,
           ScrapeOk(text, p)
    PROVE  ReadingsIInv'
<1>1. /\ text \in Seq(Lines)
      /\ SampleOf(CounterSample(text), counters.hits, counters.queries)
      /\ counters.hits \in Nat /\ counters.queries \in Nat
    BY TextRead DEF ReadingsIInv
<1>2. PICK new : new = ParseReported(text, prev_sample)
    OBVIOUS
<1>3. PICK said : said = [g \in ReadGauges |-> truth.said[g] \cup Said(text, g)]
    OBVIOUS
<1>4. PICK silent : silent = {g \in ReadGauges : Said(text, g) = {}}
    OBVIOUS
<1>5. PICK nan \in BOOLEAN : nan = ((prev_sample # Absent /\ HasNaN(prev_sample)) \/ HasNaN(CounterSample(text)))
    <2>1. ((prev_sample # Absent /\ HasNaN(prev_sample)) \/ HasNaN(CounterSample(text))) \in BOOLEAN
        BY DEF HasNaN
    <2> QED
        BY <2>1
<1>6. /\ load' = new
      /\ prev_sample' = CounterSample(text)
      /\ gauges' = [g \in Gauges |->
                       Set(gauges[g], IF g = "drift" THEN Drift(new.kv_usage, p) ELSE new[g])]
      /\ truth' = [said |-> said, silent |-> silent, nan |-> nan, restarted |-> restarted,
                   info |-> truth.info]
      /\ restarted' = FALSE
      /\ counters' = counters /\ capacity' = capacity
    BY <1>2, <1>3, <1>4, <1>5 DEF ScrapeOk
<1>7. /\ truth'.said = said /\ truth'.silent = silent /\ truth'.nan = nan
      /\ truth'.restarted = restarted /\ truth'.info = truth.info
    BY <1>6
<1>8. CountersOK'
    BY <1>6 DEF ReadingsIInv, CountersOK
<1>9. SampleOK'
    <2>1. counters.hits - counters.hits =< counters.queries - counters.queries
        BY <1>1
    <2> QED
        BY <1>1, <1>6, <2>1 DEF SampleOK
<1>10. \A g \in ReadGauges : FieldTold(new[g], g, text)
    BY <1>1, <1>2, FieldsTold
<1>11. /\ DOMAIN gauges = Gauges /\ truth \in Truth
       /\ CapacityQuoted(capacity, truth.info)
       /\ \A g \in ReadGauges :
              gauges[g] = Absent \/ \E v \in truth.said[g] : gauges[g] = Shown(g, v)
    BY DEF ReadingsIInv, GaugesOK
<1>12. GaugesOK'
    <2>1. DOMAIN gauges' = Gauges
        BY <1>6
    <2>2. truth' \in Truth
        <3>1. said \in [ReadGauges -> SUBSET (Int \cup {NotANumber})]
            BY <1>1, <1>3, <1>11, SaidValues DEF Truth
        <3>2. silent \in SUBSET ReadGauges
            BY <1>4
        <3>3. restarted \in BOOLEAN
            BY DEF ReadingsIInv
        <3> QED
            BY <1>5, <1>6, <1>11, <3>1, <3>2, <3>3 DEF Truth
    <2>3. \A g \in ReadGauges : load'[g] = Absent <=> g \in truth'.silent
        BY <1>4, <1>6, <1>7, <1>10 DEF FieldTold
    <2>4. ASSUME NEW g \in ReadGauges
          PROVE  gauges'[g] = Absent \/ \E v \in truth'.said[g] : gauges'[g] = Shown(g, v)
        <3>1. gauges'[g] = Set(gauges[g], new[g])
            BY <1>6 DEF ReadGauges, Gauges
        <3>2. truth'.said[g] = truth.said[g] \cup Said(text, g)
            BY <1>3, <1>7
        <3>3. CASE new[g] = Absent
            BY <1>11, <3>1, <3>2, <3>3 DEF Set
        <3>4. CASE new[g] # Absent
            <4>1. PICK v \in Said(text, g) : new[g] = Shown(g, v)
                BY <1>10, <3>4 DEF FieldTold
            <4> QED
                BY <3>1, <3>2, <3>4, <4>1 DEF Set
        <3> QED
            BY <3>3, <3>4
    <2>5. CapacityQuoted(capacity', truth'.info)
        BY <1>6, <1>7, <1>11
    <2> QED
        BY <2>1, <2>2, <2>3, <2>4, <2>5 DEF GaugesOK
<1>13. HitRateIsRate'
    <2> SUFFICES ASSUME ~restarted
                 PROVE  \/ new.hit_rate = Absent
                        \/ new.hit_rate = NotANumber /\ nan
                        \/ /\ new.hit_rate # NotANumber
                           /\ new.hit_rate.num \in 0 .. new.hit_rate.den
        BY <1>6, <1>7 DEF HitRateIsRate
    <2>1. PICK cur : cur = CounterSample(text)
        OBVIOUS
    <2>2. new.hit_rate = HitRate(prev_sample, cur)
        BY <1>2, <2>1 DEF ParseReported
    <2>3. \E h, q \in Nat :
              /\ prev_sample # Absent => SampleOf(prev_sample, h, q)
              /\ h =< counters.hits /\ counters.hits - h =< counters.queries - q
        <3>1. CASE prev_sample = Absent
            <4>1. \E h, q \in Nat : h =< counters.hits /\ counters.hits - h =< counters.queries - q
                BY <1>1
            <4> QED
                BY <3>1, <4>1
        <3>2. CASE prev_sample # Absent
            BY <3>2 DEF ReadingsIInv, SampleOK
        <3> QED
            BY <3>1, <3>2
    <2>4. PICK h \in Nat, q \in Nat :
              /\ prev_sample # Absent => SampleOf(prev_sample, h, q)
              /\ h =< counters.hits /\ counters.hits - h =< counters.queries - q
        BY <2>3
    <2>5. SampleOf(cur, counters.hits, counters.queries)
        BY <1>1, <2>1
    <2>6. LET rate == HitRate(prev_sample, cur)
          IN  \/ rate = Absent
              \/ /\ rate = NotANumber
                 /\ (prev_sample # Absent /\ HasNaN(prev_sample)) \/ HasNaN(cur)
              \/ rate # NotANumber /\ rate.num \in 0 .. rate.den
        BY <1>1, <2>4, <2>5, RateIsRate
    <2> QED
        BY <1>5, <2>1, <2>2, <2>6
<1> QED
    BY <1>6, <1>8, <1>9, <1>12, <1>13 DEF ReadingsIInv

LEMMA ReadingsKept == ReadingsIInv /\ [ReadingsNext]_readingsVars => ReadingsIInv'
<1> SUFFICES ASSUME ReadingsIInv, [ReadingsNext]_readingsVars PROVE ReadingsIInv'
    OBVIOUS
<1>1. ASSUME NEW hit \in 0 .. 1, Queried(hit) PROVE ReadingsIInv'
    <2>1. /\ counters'.hits = counters.hits + hit /\ counters'.queries = counters.queries + 1
          /\ counters.hits \in Nat /\ counters.queries \in Nat /\ hit \in {0, 1}
          /\ prev_sample' = prev_sample /\ restarted' = restarted
        BY <1>1, ReadingsAssumption DEF Queried, ReadingsIInv, CountersOK
    <2>2. CountersOK'
        BY <1>1, <2>1, ReadingsAssumption DEF Queried, ReadingsIInv, CountersOK
    <2>3. GaugesOK' /\ HitRateIsRate'
        BY <1>1 DEF Queried, ReadingsIInv, GaugesOK, HitRateIsRate
    <2>4. SampleOK'
        <3> SUFFICES ASSUME prev_sample # Absent PROVE SampleOK'
            BY <2>1 DEF SampleOK
        <3>1. PICK h \in Nat, q \in Nat :
                  /\ SampleOf(prev_sample, h, q)
                  /\ ~restarted =>
                        h =< counters.hits /\ counters.hits - h =< counters.queries - q
            BY DEF ReadingsIInv, SampleOK
        <3>2. ~restarted =>
                  h =< counters'.hits /\ counters'.hits - h =< counters'.queries - q
            BY <2>1, <3>1
        <3> QED
            BY <2>1, <3>1, <3>2 DEF SampleOK, SampleOf
    <2> QED
        BY <2>1, <2>2, <2>3, <2>4 DEF ReadingsIInv
<1>2. ASSUME Restart PROVE ReadingsIInv'
    <2>1. CountersOK'
        BY <1>2, ReadingsAssumption DEF Restart, CountersOK
    <2>2. GaugesOK' /\ HitRateIsRate'
        BY <1>2 DEF Restart, ReadingsIInv, GaugesOK, HitRateIsRate
    <2>3. SampleOK'
        BY <1>2 DEF Restart, ReadingsIInv, SampleOK, SampleOf
    <2> QED
        BY <1>2, <2>1, <2>2, <2>3 DEF Restart, ReadingsIInv
<1>3. ASSUME NEW text \in Texts(counters), ReadCapacity(text) PROVE ReadingsIInv'
    <2>1. text \in Seq(Lines)
        BY TextRead DEF ReadingsIInv
    <2>2. PICK info : info = Quoted(text)
        OBVIOUS
    <2>3. /\ capacity' = ParseCapacity(text) /\ truth' = [truth EXCEPT !.info = info]
          /\ load = Absent
          /\ UNCHANGED <<counters, restarted, prev_sample, load, gauges>>
        BY <1>3, <2>2 DEF ReadCapacity
    <2>4. truth \in Truth
        BY DEF ReadingsIInv, GaugesOK
    <2>5. /\ truth'.info = info /\ truth'.said = truth.said /\ truth'.silent = truth.silent
        BY <2>3, <2>4 DEF Truth
    <2>6. truth' \in Truth
        BY <2>1, <2>2, <2>3, <2>4, QuotedType DEF Truth
    <2>7. GaugesOK'
        BY <2>1, <2>2, <2>3, <2>5, <2>6, CapacityRead DEF ReadingsIInv, GaugesOK
    <2>8. CountersOK' /\ SampleOK'
        BY <2>3 DEF ReadingsIInv, CountersOK, SampleOK, SampleOf
    <2>9. HitRateIsRate'
        BY <2>3 DEF HitRateIsRate
    <2> QED
        BY <2>3, <2>7, <2>8, <2>9 DEF ReadingsIInv
<1>4. ASSUME NEW text \in Texts(counters), NEW p \in Projections, ScrapeOk(text, p)
      PROVE  ReadingsIInv'
    BY <1>4, ScrapeKeepsReadings
<1>5. ASSUME UNCHANGED readingsVars PROVE ReadingsIInv'
    BY <1>5
       DEF readingsVars, ReadingsIInv, CountersOK, GaugesOK, SampleOK, SampleOf, HitRateIsRate
<1> QED
    BY <1>1, <1>2, <1>3, <1>4, <1>5 DEF ReadingsNext

\* Whatever text a backend sends, a reading has a field exactly if the text has
\* a value under its name, a gauge shows a value that was sent under its name,
\* as the cast leaves it, and the capacity was quoted on lines that begin with
\* its name (scrape.rs:43-159, 206-211, observe.rs:287-323).
THEOREM AbsentStaysAbsent == ReadingsSpec => []AbsentIsNotZero
<1>1. ReadingsIInv => AbsentIsNotZero
    BY DEF ReadingsIInv, GaugesOK, CapacityQuoted, AbsentIsNotZero
<1> QED
    BY <1>1, ReadingsStart, ReadingsKept, PTL DEF ReadingsSpec

\* The windowed hit rate lies between 0 and 1 while the backend keeps running,
\* also when texts in between left the counters out, and is NaN only if a
\* counter was (scrape.rs:182-205).
THEOREM HitRateIsARate == ReadingsSpec => []HitRateIsRate
<1>1. ReadingsIInv => HitRateIsRate
    BY DEF ReadingsIInv
<1> QED
    BY <1>1, ReadingsStart, ReadingsKept, PTL DEF ReadingsSpec

=============================================================================
