----------------------------- MODULE LeaseProofs ----------------------------
(***************************************************************************)
(* CostLease implements two ledgers, for any number of leases and          *)
(* backends and any token counts; its counters never go negative and agree *)
(* whenever no open or release is under way; its charge covers the output. *)
(***************************************************************************)
EXTENDS Lease, FiniteSetTheorems, TLAPS

SlotProofs == INSTANCE LedgerProofs WITH
    Holders <- Leases, Accounts <- Backends,
    total <- inflight, held <- SlotsHeld

KvProofs == INSTANCE LedgerProofs WITH
    Holders <- Leases, Accounts <- Backends,
    total <- kvProjected, held <- KvsHeld

\* What each phase of a lease says of its fields.
LeaseShape(ls) ==
    /\ ls.phase = "free" => ~ls.slot /\ ~ls.kv
    /\ ls.phase # "free" => ls.backend \in Backends
    /\ ls.phase = "open" => ls.slot /\ ls.kv
    /\ ls.phase \in {"opening", "open"} =>
         /\ ls.prompt > 0
         /\ ls.charged = Project(ls.prompt, ls.oHat)
         /\ ls.seen =< ls.oHat
         /\ \/ ls.oHat = ls.est
            \/ ls.oHat =< ls.seen + RechargeStep - 1
    /\ ls.kv => ls.charged > 0

\* The invariant of the lease fields alone.  The counters are only known to be
\* integers here: that they stay in Nat follows from the ledgers.
RecordsOK ==
    /\ inflight \in [Backends -> Int]
    /\ kvProjected \in [Backends -> Int]
    /\ lease \in [Leases -> LeaseRecord]
    /\ \A l \in Leases : LeaseShape(lease[l])

-----------------------------------------------------------------------------

LEMMA ProjectType ==
    ASSUME NEW p \in Nat, NEW o \in Nat
    PROVE  /\ Project(p, o) \in Nat
           /\ Project(p, o) >= p
           /\ \A n \in Nat : Project(p, o) =< Project(p, o + n)
    BY DEF Project

LEMMA InitRecords == LeaseInit => RecordsOK
    BY DEF LeaseInit, RecordsOK, NoLease, LeaseRecord, Phases, LeaseShape

\* Replacing one lease by a well-shaped record, and the counters by integers,
\* preserves RecordsOK.
LEMMA UpdateRecords ==
    ASSUME RecordsOK, NEW l \in Leases, NEW ls \in LeaseRecord, LeaseShape(ls),
           lease' = [lease EXCEPT ![l] = ls],
           inflight' \in [Backends -> Int], kvProjected' \in [Backends -> Int]
    PROVE  RecordsOK'
    BY DEF RecordsOK

\* An atomic addition to the counter of one backend.
LEMMA CounterType ==
    ASSUME NEW c \in [Backends -> Int], NEW b \in Backends, NEW x \in Int
    PROVE  /\ [c EXCEPT ![b] = @ + x] \in [Backends -> Int]
           /\ [c EXCEPT ![b] = @ - x] \in [Backends -> Int]
<1>1. c[b] + x \in Int /\ c[b] - x \in Int
    OBVIOUS
<1> QED
    BY <1>1

LEMMA StepRecords ==
    ASSUME RecordsOK, NEW l \in Leases, LeaseStep(l)
    PROVE  RecordsOK'
<1> USE LeaseAssumption
<1> DEFINE ls == lease[l]
<1>0. /\ ls \in LeaseRecord /\ LeaseShape(ls)
      /\ ls.phase # "free" => ls.backend \in Backends
    BY DEF RecordsOK, LeaseShape
<1>1. ASSUME NEW b \in Backends, NEW p \in Prompts, NEW o \in Estimates,
             BeginOpen(l, b, p, o)
      PROVE  RecordsOK'
    <2>1. NewLease(b, p, o) \in LeaseRecord /\ LeaseShape(NewLease(b, p, o))
        BY ProjectType DEF NewLease, LeaseRecord, Phases, LeaseShape
    <2> QED
        BY <1>1, <2>1, UpdateRecords DEF BeginOpen, RecordsOK
<1>2. CASE OpenAddInflight(l)
    <2> DEFINE new == [ls EXCEPT !.slot = TRUE,
                         !.phase = IF ls.kv THEN "open" ELSE "opening"]
    <2>1. new \in LeaseRecord /\ LeaseShape(new)
        BY <1>0, <1>2 DEF OpenAddInflight, LeaseRecord, Phases, LeaseShape
    <2>2. /\ lease' = [lease EXCEPT ![l] = new]
          /\ inflight' = [inflight EXCEPT ![ls.backend] = @ + 1]
          /\ UNCHANGED kvProjected
        BY <1>2, Zenon DEF OpenAddInflight
    <2> HIDE DEF new
    <2>3. ls.backend \in Backends
        BY <1>0, <1>2 DEF OpenAddInflight
    <2>4. inflight' \in [Backends -> Int]
        BY <2>2, <2>3, CounterType DEF RecordsOK
    <2> QED
        BY <2>1, <2>2, <2>4, UpdateRecords DEF RecordsOK
<1>3. CASE OpenAddKv(l)
    <2> DEFINE new == [ls EXCEPT !.kv = TRUE,
                         !.phase = IF ls.slot THEN "open" ELSE "opening"]
    <2>1. new \in LeaseRecord /\ LeaseShape(new)
        <3>1. ls.phase = "opening" /\ ~ls.kv
            BY <1>3 DEF OpenAddKv
        <3>2. ls.prompt \in Nat /\ ls.oHat \in Nat /\ ls.charged \in Nat
            BY <1>0 DEF LeaseRecord
        <3>3. ls.charged > 0
            <4>1. ls.prompt > 0 /\ ls.charged = Project(ls.prompt, ls.oHat)
                BY <1>0, <3>1 DEF LeaseShape
            <4>2. /\ Project(ls.prompt, ls.oHat) \in Nat
                  /\ Project(ls.prompt, ls.oHat) >= ls.prompt
                BY <3>2, ProjectType, Zenon
            <4> QED
                BY <3>2, <4>1, <4>2
        <3> QED
            BY <1>0, <3>1, <3>3 DEF LeaseRecord, Phases, LeaseShape
    <2>2. /\ lease' = [lease EXCEPT ![l] = new]
          /\ kvProjected' = [kvProjected EXCEPT ![ls.backend] = @ + ls.charged]
          /\ UNCHANGED inflight
        BY <1>3, Zenon DEF OpenAddKv
    <2>3. ls.charged \in Int /\ ls.backend \in Backends
        BY <1>0, <1>3 DEF LeaseRecord, OpenAddKv
    <2>4. kvProjected' \in [Backends -> Int]
        BY <2>2, <2>3, CounterType DEF RecordsOK
    <2> HIDE DEF new
    <2> QED
        BY <2>1, <2>2, <2>4, UpdateRecords DEF RecordsOK
<1>4. ASSUME NEW n \in Batches, ObserveTokens(l, n)
      PROVE  RecordsOK'
    <2> DEFINE seen == ls.seen + n
               oHat == IF seen > ls.oHat THEN ls.oHat + RechargeStep ELSE ls.oHat
               charge == IF seen > ls.oHat THEN Project(ls.prompt, oHat)
                                           ELSE ls.charged
               new == [ls EXCEPT !.seen = seen, !.oHat = oHat,
                                 !.charged = charge]
    <2>1. /\ ls.phase = "open"
          /\ lease' = [lease EXCEPT ![l] = new]
          /\ kvProjected' = [kvProjected EXCEPT ![ls.backend] =
                               @ + (charge - ls.charged)]
          /\ UNCHANGED inflight
        BY <1>4 DEF ObserveTokens, Observed
    <2>2. n \in 1 .. RechargeStep
        OBVIOUS
    <2>3. seen \in Nat /\ oHat \in Nat /\ charge \in Nat /\ charge > 0
        BY <1>0, <2>1, <2>2, ProjectType DEF LeaseRecord, LeaseShape
    <2>4. /\ charge = Project(ls.prompt, oHat)
          /\ seen =< oHat
          /\ oHat = ls.est \/ oHat =< seen + RechargeStep - 1
        BY <1>0, <2>1, <2>2 DEF LeaseRecord, LeaseShape
    <2> HIDE DEF seen, oHat, charge
    <2>5. new \in LeaseRecord /\ LeaseShape(new)
        BY <1>0, <2>1, <2>3, <2>4 DEF LeaseRecord, Phases, LeaseShape
    <2>6. charge - ls.charged \in Int /\ ls.backend \in Backends
        BY <1>0, <2>1, <2>3 DEF LeaseRecord
    <2>7. kvProjected' \in [Backends -> Int]
        BY <2>1, <2>6, CounterType DEF RecordsOK
    <2> QED
        BY <2>1, <2>5, <2>7, UpdateRecords DEF RecordsOK
<1>5. CASE BeginRelease(l)
    <2> DEFINE new == [ls EXCEPT !.phase = "releasing"]
    <2>1. new \in LeaseRecord /\ LeaseShape(new)
        BY <1>0, <1>5 DEF BeginRelease, LeaseRecord, Phases, LeaseShape
    <2> QED
        BY <1>5, <2>1, UpdateRecords DEF BeginRelease, RecordsOK
<1>6. NoLease \in LeaseRecord /\ LeaseShape(NoLease)
    BY DEF NoLease, LeaseRecord, Phases, LeaseShape
<1>7. CASE ReleaseSubInflight(l)
    <2> DEFINE new == IF ls.kv THEN [ls EXCEPT !.slot = FALSE] ELSE NoLease
    <2>1. new \in LeaseRecord /\ LeaseShape(new)
        BY <1>0, <1>6, <1>7 DEF ReleaseSubInflight, LeaseRecord, Phases, LeaseShape
    <2>2. /\ lease' = [lease EXCEPT ![l] = new]
          /\ inflight' = [inflight EXCEPT ![ls.backend] = @ - 1]
          /\ UNCHANGED kvProjected
        BY <1>7, Zenon DEF ReleaseSubInflight
    <2>3. ls.backend \in Backends
        BY <1>0, <1>7 DEF ReleaseSubInflight
    <2>4. inflight' \in [Backends -> Int]
        BY <2>2, <2>3, CounterType DEF RecordsOK
    <2> HIDE DEF new
    <2> QED
        BY <2>1, <2>2, <2>4, UpdateRecords DEF RecordsOK
<1>8. CASE ReleaseSubKv(l)
    <2> DEFINE new == IF ls.slot THEN [ls EXCEPT !.kv = FALSE, !.charged = 0]
                                 ELSE NoLease
    <2>1. new \in LeaseRecord /\ LeaseShape(new)
        BY <1>0, <1>6, <1>8 DEF ReleaseSubKv, LeaseRecord, Phases, LeaseShape
    <2>2. /\ lease' = [lease EXCEPT ![l] = new]
          /\ kvProjected' = [kvProjected EXCEPT ![ls.backend] = @ - ls.charged]
          /\ UNCHANGED inflight
        BY <1>8, Zenon DEF ReleaseSubKv
    <2>3. ls.charged \in Int /\ ls.backend \in Backends
        BY <1>0, <1>8 DEF LeaseRecord, ReleaseSubKv
    <2>4. kvProjected' \in [Backends -> Int]
        BY <2>2, <2>3, CounterType DEF RecordsOK
    <2> HIDE DEF new
    <2> QED
        BY <2>1, <2>2, <2>4, UpdateRecords DEF RecordsOK
<1> QED
    BY <1>1, <1>2, <1>3, <1>4, <1>5, <1>7, <1>8 DEF LeaseStep

LEMMA NextRecords == RecordsOK /\ [LeaseNext]_leaseVars => RecordsOK'
<1>1. RecordsOK /\ LeaseNext => RecordsOK'
    BY StepRecords DEF LeaseNext
<1>2. RecordsOK /\ UNCHANGED leaseVars => RecordsOK'
    BY DEF leaseVars, RecordsOK
<1> QED
    BY <1>1, <1>2

LEMMA LeaseRecords == LeaseSpec => []RecordsOK
    BY InitRecords, NextRecords, PTL DEF LeaseSpec

-----------------------------------------------------------------------------
(***************************************************************************)
(* The refinements.  Deposits is the type of what both ledgers call held.  *)
(***************************************************************************)
Deposits == [Leases -> [Backends -> Nat]]

\* Functions that differ at most at [l][b] differ by an EXCEPT there.
LEMMA OneEntryDiffers ==
    ASSUME NEW f \in Deposits, NEW g \in Deposits,
           NEW l \in Leases, NEW b \in Backends,
           \A x \in Leases, y \in Backends : x # l \/ y # b => g[x][y] = f[x][y]
    PROVE  g = [f EXCEPT ![l] = [@ EXCEPT ![b] = g[l][b]]]
<1> DEFINE e == [f EXCEPT ![l] = [@ EXCEPT ![b] = g[l][b]]]
<1>1. e \in Deposits
    BY DEF Deposits
<1>2. ASSUME NEW x \in Leases
      PROVE  g[x] = e[x]
    <2>1. \A y \in Backends : g[x][y] = e[x][y]
        BY DEF Deposits
    <2>2. g[x] \in [Backends -> Nat] /\ e[x] \in [Backends -> Nat]
        BY <1>1 DEF Deposits
    <2> HIDE DEF e
    <2> QED
        BY <2>1, <2>2
<1> HIDE DEF e
<1>3. g = e
    BY <1>1, <1>2 DEF Deposits
<1> QED
    BY <1>3 DEF e

LEMMA NoEntryDiffers ==
    ASSUME NEW f \in Deposits, NEW g \in Deposits,
           \A x \in Leases, y \in Backends : g[x][y] = f[x][y]
    PROVE  g = f
<1>1. ASSUME NEW x \in Leases
      PROVE  g[x] = f[x]
    BY DEF Deposits
<1> QED
    BY <1>1 DEF Deposits

LEMMA HeldTypes ==
    /\ RecordsOK => SlotsHeld \in Deposits /\ KvsHeld \in Deposits
    /\ RecordsOK' => SlotsHeld' \in Deposits /\ KvsHeld' \in Deposits
    BY DEF RecordsOK, LeaseRecord, SlotsHeld, KvsHeld, SlotHeld, KvHeld, Deposits

\* A step of lease l leaves the other leases alone.
LEMMA OthersKept ==
    ASSUME RecordsOK, NEW l \in Leases, LeaseStep(l), NEW x \in Leases \ {l}
    PROVE  lease'[x] = lease[x]
    BY DEF RecordsOK, LeaseStep, BeginOpen, OpenAddInflight, OpenAddKv,
           ObserveTokens, Observed, BeginRelease, ReleaseSubInflight, ReleaseSubKv

\* A step that neither sets nor clears a lease's slot keeps the slot ledger.
LEMMA SlotFrame ==
    ASSUME RecordsOK, RecordsOK', NEW l \in Leases, LeaseStep(l),
           UNCHANGED inflight,
           lease'[l].slot = lease[l].slot,
           lease[l].slot => lease'[l].backend = lease[l].backend
    PROVE  UNCHANGED <<inflight, SlotsHeld>>
<1>1. SlotsHeld \in Deposits /\ SlotsHeld' \in Deposits
    BY HeldTypes
<1>2. \A x \in Leases, y \in Backends : SlotsHeld'[x][y] = SlotsHeld[x][y]
    BY OthersKept DEF SlotsHeld, SlotHeld
<1> QED
    BY <1>1, <1>2, NoEntryDiffers

\* A step that sets or clears lease l's slot moves one unit in or out of the
\* account of its backend.
LEMMA SlotMove ==
    ASSUME RecordsOK, RecordsOK', NEW l \in Leases, LeaseStep(l),
           NEW b \in Backends,
           lease[l].slot => lease[l].backend = b,
           lease'[l].slot => lease'[l].backend = b
    PROVE  /\ SlotsHeld' =
                [SlotsHeld EXCEPT ![l] = [@ EXCEPT ![b] = SlotsHeld'[l][b]]]
           /\ \A y \in Backends \ {b} : SlotsHeld[l][y] = 0
           /\ SlotsHeld[l][b] = IF lease[l].slot THEN 1 ELSE 0
           /\ SlotsHeld'[l][b] = IF lease'[l].slot THEN 1 ELSE 0
<1>1. SlotsHeld \in Deposits /\ SlotsHeld' \in Deposits
    BY HeldTypes
<1>2. \A x \in Leases, y \in Backends :
        x # l \/ y # b => SlotsHeld'[x][y] = SlotsHeld[x][y]
    BY OthersKept DEF SlotsHeld, SlotHeld
<1>3. /\ \A y \in Backends \ {b} : SlotsHeld[l][y] = 0
      /\ SlotsHeld[l][b] = IF lease[l].slot THEN 1 ELSE 0
      /\ SlotsHeld'[l][b] = IF lease'[l].slot THEN 1 ELSE 0
    BY DEF SlotsHeld, SlotHeld
<1>4. SlotsHeld' =
        [SlotsHeld EXCEPT ![l] = [@ EXCEPT ![b] = SlotsHeld'[l][b]]]
    BY <1>1, <1>2, OneEntryDiffers
<1> QED
    BY <1>3, <1>4

LEMMA SlotStep ==
    ASSUME RecordsOK, RecordsOK', NEW l \in Leases, LeaseStep(l)
    PROVE  SlotLedger!Next \/ UNCHANGED <<inflight, SlotsHeld>>
<1>0. lease[l] \in LeaseRecord /\ LeaseShape(lease[l])
    BY DEF RecordsOK
<1>1. ASSUME NEW b \in Backends, NEW p \in Prompts, NEW o \in Estimates,
             BeginOpen(l, b, p, o)
      PROVE  UNCHANGED <<inflight, SlotsHeld>>
    <2>1. /\ UNCHANGED inflight
          /\ lease'[l].slot = FALSE /\ lease[l].slot = FALSE
        BY <1>0, <1>1 DEF BeginOpen, NewLease, LeaseShape, RecordsOK, LeaseRecord
    <2> QED
        BY <2>1, SlotFrame
<1>2. CASE OpenAddInflight(l)
    <2> DEFINE b == lease[l].backend
    <2>1. /\ lease[l].slot = FALSE /\ lease'[l].slot = TRUE
          /\ b \in Backends /\ lease'[l].backend = b
          /\ inflight' = [inflight EXCEPT ![b] = @ + 1]
        BY <1>0, <1>2 DEF OpenAddInflight, LeaseShape, RecordsOK, LeaseRecord
    <2> HIDE DEF b
    <2>2. /\ SlotsHeld' =
               [SlotsHeld EXCEPT ![l] = [@ EXCEPT ![b] = SlotsHeld'[l][b]]]
          /\ \A y \in Backends \ {b} : SlotsHeld[l][y] = 0
          /\ SlotsHeld[l][b] = 0 /\ SlotsHeld'[l][b] = 1
        BY <2>1, SlotMove
    <2>3. inflight' =
            [inflight EXCEPT ![b] = @ + SlotsHeld'[l][b] - SlotsHeld[l][b]]
        BY <2>1, <2>2 DEF RecordsOK
    <2>4. SlotLedger!Charge(l, b)
        BY <2>2, <2>3 DEF SlotLedger!Charge, SlotLedger!Move
    <2> QED
        BY <2>1, <2>4 DEF SlotLedger!Next
<1>3. CASE OpenAddKv(l)
    <2>1. /\ UNCHANGED inflight
          /\ lease'[l].slot = lease[l].slot
          /\ lease'[l].backend = lease[l].backend
        BY <1>0, <1>3 DEF OpenAddKv, RecordsOK, LeaseRecord
    <2> QED
        BY <2>1, SlotFrame
<1>4. ASSUME NEW n \in Batches, ObserveTokens(l, n)
      PROVE  UNCHANGED <<inflight, SlotsHeld>>
    <2>1. /\ UNCHANGED inflight
          /\ lease'[l].slot = lease[l].slot
          /\ lease'[l].backend = lease[l].backend
        BY <1>0, <1>4 DEF ObserveTokens, Observed, RecordsOK, LeaseRecord
    <2> QED
        BY <2>1, SlotFrame
<1>5. CASE BeginRelease(l)
    <2>1. /\ UNCHANGED inflight
          /\ lease'[l].slot = lease[l].slot
          /\ lease'[l].backend = lease[l].backend
        BY <1>0, <1>5 DEF BeginRelease, RecordsOK, LeaseRecord
    <2> QED
        BY <2>1, SlotFrame
<1>6. CASE ReleaseSubInflight(l)
    <2> DEFINE b == lease[l].backend
    <2>1. /\ lease[l].slot = TRUE /\ lease'[l].slot = FALSE
          /\ b \in Backends
          /\ inflight' = [inflight EXCEPT ![b] = @ - 1]
        BY <1>0, <1>6
        DEF ReleaseSubInflight, LeaseShape, RecordsOK, LeaseRecord, NoLease
    <2> HIDE DEF b
    <2>2. /\ SlotsHeld' =
               [SlotsHeld EXCEPT ![l] = [@ EXCEPT ![b] = SlotsHeld'[l][b]]]
          /\ SlotsHeld[l][b] = 1 /\ SlotsHeld'[l][b] = 0
        BY <2>1, SlotMove DEF b
    <2>3. inflight' =
            [inflight EXCEPT ![b] = @ + SlotsHeld'[l][b] - SlotsHeld[l][b]]
        <3>1. inflight[b] + SlotsHeld'[l][b] - SlotsHeld[l][b] = inflight[b] - 1
            BY <2>1, <2>2 DEF RecordsOK
        <3> QED
            BY <2>1, <3>1, Zenon
    <2>4. SlotLedger!Refund(l, b)
        BY <2>2, <2>3 DEF SlotLedger!Refund, SlotLedger!Move
    <2> QED
        BY <2>1, <2>4 DEF SlotLedger!Next
<1>7. CASE ReleaseSubKv(l)
    <2>1. /\ UNCHANGED inflight
          /\ lease'[l].slot = lease[l].slot
          /\ lease[l].slot => lease'[l].backend = lease[l].backend
        BY <1>0, <1>7 DEF ReleaseSubKv, RecordsOK, LeaseRecord, NoLease
    <2> QED
        BY <2>1, SlotFrame
<1> QED
    BY <1>1, <1>2, <1>3, <1>4, <1>5, <1>6, <1>7 DEF LeaseStep

\* Opening, recharging and releasing leases is charging and refunding a ledger
\* of slots.
THEOREM LeaseImplementsSlotLedger == LeaseSpec => ImplementsSlotLedger
<1>1. LeaseInit => SlotLedger!Init
    BY DEF LeaseInit, NoLease, SlotsHeld, SlotHeld, SlotLedger!Init
<1>2. RecordsOK /\ RecordsOK' /\ [LeaseNext]_leaseVars
        => [SlotLedger!Next]_<<inflight, SlotsHeld>>
    <2>1. ASSUME RecordsOK, UNCHANGED leaseVars
          PROVE  UNCHANGED <<inflight, SlotsHeld>>
        BY <2>1 DEF leaseVars, SlotsHeld, SlotHeld
    <2> QED
        BY <2>1, SlotStep DEF LeaseNext
<1> QED
    BY <1>1, <1>2, LeaseRecords, PTL
    DEF LeaseSpec, ImplementsSlotLedger, SlotLedger!Spec, SlotLedger!vars

-----------------------------------------------------------------------------

\* A step that does not touch what a lease has in kv_projected_tokens keeps the
\* KV ledger.
LEMMA KvFrame ==
    ASSUME RecordsOK, RecordsOK', NEW l \in Leases, LeaseStep(l),
           UNCHANGED kvProjected,
           lease'[l].kv = lease[l].kv,
           lease[l].kv => /\ lease'[l].backend = lease[l].backend
                          /\ lease'[l].charged = lease[l].charged
    PROVE  UNCHANGED <<kvProjected, KvsHeld>>
<1>1. KvsHeld \in Deposits /\ KvsHeld' \in Deposits
    BY HeldTypes
<1>2. \A x \in Leases, y \in Backends : KvsHeld'[x][y] = KvsHeld[x][y]
    BY OthersKept DEF KvsHeld, KvHeld
<1> QED
    BY <1>1, <1>2, NoEntryDiffers

\* A step that changes it moves tokens in or out of one backend's account.
LEMMA KvMove ==
    ASSUME RecordsOK, RecordsOK', NEW l \in Leases, LeaseStep(l),
           NEW b \in Backends,
           lease[l].kv => lease[l].backend = b,
           lease'[l].kv => lease'[l].backend = b
    PROVE  /\ KvsHeld' =
                [KvsHeld EXCEPT ![l] = [@ EXCEPT ![b] = KvsHeld'[l][b]]]
           /\ \A y \in Backends \ {b} : KvsHeld[l][y] = 0
           /\ KvsHeld[l][b] = IF lease[l].kv THEN lease[l].charged ELSE 0
           /\ KvsHeld'[l][b] = IF lease'[l].kv THEN lease'[l].charged ELSE 0
<1>1. KvsHeld \in Deposits /\ KvsHeld' \in Deposits
    BY HeldTypes
<1>2. \A x \in Leases, y \in Backends :
        x # l \/ y # b => KvsHeld'[x][y] = KvsHeld[x][y]
    BY OthersKept DEF KvsHeld, KvHeld
<1>3. /\ \A y \in Backends \ {b} : KvsHeld[l][y] = 0
      /\ KvsHeld[l][b] = IF lease[l].kv THEN lease[l].charged ELSE 0
      /\ KvsHeld'[l][b] = IF lease'[l].kv THEN lease'[l].charged ELSE 0
    BY DEF KvsHeld, KvHeld
<1>4. KvsHeld' =
        [KvsHeld EXCEPT ![l] = [@ EXCEPT ![b] = KvsHeld'[l][b]]]
    BY <1>1, <1>2, OneEntryDiffers
<1> QED
    BY <1>3, <1>4

LEMMA KvStep ==
    ASSUME RecordsOK, RecordsOK', NEW l \in Leases, LeaseStep(l)
    PROVE  KvLedger!Next \/ UNCHANGED <<kvProjected, KvsHeld>>
<1>0. lease[l] \in LeaseRecord /\ LeaseShape(lease[l])
    BY DEF RecordsOK
<1>1. ASSUME NEW b \in Backends, NEW p \in Prompts, NEW o \in Estimates,
             BeginOpen(l, b, p, o)
      PROVE  UNCHANGED <<kvProjected, KvsHeld>>
    <2>1. /\ UNCHANGED kvProjected
          /\ lease'[l].kv = FALSE /\ lease[l].kv = FALSE
        BY <1>0, <1>1 DEF BeginOpen, NewLease, LeaseShape, RecordsOK, LeaseRecord
    <2> QED
        BY <2>1, KvFrame
<1>2. CASE OpenAddInflight(l)
    <2>1. /\ UNCHANGED kvProjected
          /\ lease'[l].kv = lease[l].kv
          /\ lease'[l].backend = lease[l].backend
          /\ lease'[l].charged = lease[l].charged
        BY <1>0, <1>2 DEF OpenAddInflight, RecordsOK, LeaseRecord
    <2> QED
        BY <2>1, KvFrame
<1>3. CASE OpenAddKv(l)
    <2> DEFINE b == lease[l].backend
               c == lease[l].charged
    <2>1. /\ lease[l].kv = FALSE /\ lease'[l].kv = TRUE
          /\ b \in Backends /\ lease'[l].backend = b
          /\ c \in Nat /\ lease'[l].charged = c
          /\ kvProjected' = [kvProjected EXCEPT ![b] = @ + c]
        BY <1>0, <1>3 DEF OpenAddKv, LeaseShape, RecordsOK, LeaseRecord
    <2>2. c > 0
        BY <2>1 DEF RecordsOK, LeaseShape
    <2> HIDE DEF b, c
    <2>3. /\ KvsHeld' =
               [KvsHeld EXCEPT ![l] = [@ EXCEPT ![b] = KvsHeld'[l][b]]]
          /\ \A y \in Backends \ {b} : KvsHeld[l][y] = 0
          /\ KvsHeld[l][b] = 0 /\ KvsHeld'[l][b] = c
        BY <2>1, KvMove
    <2>4. kvProjected[b] + KvsHeld'[l][b] - KvsHeld[l][b] = kvProjected[b] + c
        BY <2>1, <2>3 DEF RecordsOK
    <2>5. kvProjected' =
            [kvProjected EXCEPT ![b] = @ + KvsHeld'[l][b] - KvsHeld[l][b]]
        BY <2>1, <2>4, Zenon
    <2>6. KvLedger!Charge(l, b)
        BY <2>1, <2>2, <2>3, <2>5 DEF KvLedger!Charge, KvLedger!Move
    <2> QED
        BY <2>1, <2>6 DEF KvLedger!Next
<1>4. ASSUME NEW n \in Batches, ObserveTokens(l, n)
      PROVE  KvLedger!Next \/ UNCHANGED <<kvProjected, KvsHeld>>
    <2> DEFINE b == lease[l].backend
               c == lease[l].charged
               d == lease'[l].charged
    <2>1. /\ lease[l].phase = "open" /\ lease'[l].phase = "open"
          /\ lease[l].prompt = lease'[l].prompt
          /\ lease'[l].oHat = lease[l].oHat
               \/ lease'[l].oHat = lease[l].oHat + RechargeStep
          /\ lease'[l].kv = lease[l].kv
          /\ lease'[l].backend = b
          /\ kvProjected' = [kvProjected EXCEPT ![b] = @ + (d - c)]
        BY <1>0, <1>4 DEF ObserveTokens, Observed, RecordsOK, LeaseRecord
    <2>2. /\ lease[l].kv /\ b \in Backends
          /\ c \in Nat /\ d \in Nat
          /\ c = Project(lease[l].prompt, lease[l].oHat)
          /\ d = Project(lease[l].prompt, lease'[l].oHat)
        BY <2>1 DEF RecordsOK, LeaseShape, LeaseRecord
    <2>3. d >= c
        <3>1. /\ lease[l].prompt \in Nat /\ lease[l].oHat \in Nat
              /\ RechargeStep \in Nat
            BY LeaseAssumption DEF RecordsOK, LeaseRecord
        <3>2. Project(lease[l].prompt, lease[l].oHat) =<
                Project(lease[l].prompt, lease[l].oHat + RechargeStep)
            BY <3>1, ProjectType, Zenon
        <3> HIDE DEF b, c, d
        <3> QED
            BY <2>1, <2>2, <3>2
    <2> HIDE DEF b, c, d
    <2>4. CASE d = c
        <3>1. UNCHANGED kvProjected
            BY <2>1, <2>2, <2>4 DEF RecordsOK
        <3> QED
            BY <2>1, <2>4, <3>1, KvFrame DEF b, c, d
    <2>5. CASE d > c
        <3>1. /\ KvsHeld' =
                   [KvsHeld EXCEPT ![l] = [@ EXCEPT ![b] = KvsHeld'[l][b]]]
              /\ \A y \in Backends \ {b} : KvsHeld[l][y] = 0
              /\ KvsHeld[l][b] = c /\ KvsHeld'[l][b] = d
            <4>1. lease[l].backend = b /\ lease'[l].backend = b /\ lease'[l].kv
                BY <2>1, <2>2 DEF b
            <4>2. /\ KvsHeld[l][b] = lease[l].charged
                  /\ KvsHeld'[l][b] = lease'[l].charged
                BY <2>2, <4>1, KvMove
            <4>3. /\ KvsHeld' =
                       [KvsHeld EXCEPT ![l] = [@ EXCEPT ![b] = KvsHeld'[l][b]]]
                  /\ \A y \in Backends \ {b} : KvsHeld[l][y] = 0
                BY <2>2, <4>1, KvMove, Zenon
            <4> QED
                BY <4>2, <4>3 DEF c, d
        <3>2. kvProjected[b] + KvsHeld'[l][b] - KvsHeld[l][b] =
                kvProjected[b] + (d - c)
            BY <2>2, <3>1 DEF RecordsOK
        <3>3. kvProjected' =
                [kvProjected EXCEPT ![b] = @ + KvsHeld'[l][b] - KvsHeld[l][b]]
            BY <2>1, <3>2, Zenon
        <3>4. KvLedger!Charge(l, b)
            BY <2>2, <2>5, <3>1, <3>3 DEF KvLedger!Charge, KvLedger!Move
        <3> QED
            BY <2>2, <3>4 DEF KvLedger!Next
    <2> QED
        BY <2>2, <2>3, <2>4, <2>5
<1>5. CASE BeginRelease(l)
    <2>1. /\ UNCHANGED kvProjected
          /\ lease'[l].kv = lease[l].kv
          /\ lease'[l].backend = lease[l].backend
          /\ lease'[l].charged = lease[l].charged
        BY <1>0, <1>5 DEF BeginRelease, RecordsOK, LeaseRecord
    <2> QED
        BY <2>1, KvFrame
<1>6. CASE ReleaseSubInflight(l)
    <2>1. /\ UNCHANGED kvProjected
          /\ lease'[l].kv = lease[l].kv
          /\ lease[l].kv => /\ lease'[l].backend = lease[l].backend
                            /\ lease'[l].charged = lease[l].charged
        BY <1>0, <1>6 DEF ReleaseSubInflight, RecordsOK, LeaseRecord, NoLease
    <2> QED
        BY <2>1, KvFrame
<1>7. CASE ReleaseSubKv(l)
    <2> DEFINE b == lease[l].backend
               c == lease[l].charged
    <2>1. /\ lease[l].kv = TRUE /\ lease'[l].kv = FALSE
          /\ b \in Backends /\ c \in Nat /\ c > 0
          /\ kvProjected' = [kvProjected EXCEPT ![b] = @ - c]
        BY <1>0, <1>7
        DEF ReleaseSubKv, LeaseShape, RecordsOK, LeaseRecord, NoLease
    <2> HIDE DEF b, c
    <2>2. /\ KvsHeld' =
               [KvsHeld EXCEPT ![l] = [@ EXCEPT ![b] = KvsHeld'[l][b]]]
          /\ KvsHeld[l][b] = c /\ KvsHeld'[l][b] = 0
        BY <2>1, KvMove DEF b, c
    <2>3. kvProjected[b] + KvsHeld'[l][b] - KvsHeld[l][b] = kvProjected[b] - c
        BY <2>1, <2>2 DEF RecordsOK
    <2>4. kvProjected' =
            [kvProjected EXCEPT ![b] = @ + KvsHeld'[l][b] - KvsHeld[l][b]]
        BY <2>1, <2>3, Zenon
    <2>5. KvLedger!Move(l, b)
        BY <2>2, <2>4 DEF KvLedger!Move
    <2>6. KvLedger!Refund(l, b)
        BY <2>1, <2>2, <2>5 DEF KvLedger!Refund
    <2> QED
        BY <2>1, <2>6 DEF KvLedger!Next
<1> QED
    BY <1>1, <1>2, <1>3, <1>4, <1>5, <1>6, <1>7 DEF LeaseStep

\* Opening, recharging and releasing leases is charging and refunding a ledger
\* of KV tokens.
THEOREM LeaseImplementsKvLedger == LeaseSpec => ImplementsKvLedger
<1>1. LeaseInit => KvLedger!Init
    BY DEF LeaseInit, NoLease, KvsHeld, KvHeld, KvLedger!Init
<1>2. RecordsOK /\ RecordsOK' /\ [LeaseNext]_leaseVars
        => [KvLedger!Next]_<<kvProjected, KvsHeld>>
    <2>1. ASSUME RecordsOK, UNCHANGED leaseVars
          PROVE  UNCHANGED <<kvProjected, KvsHeld>>
        BY <2>1 DEF leaseVars, KvsHeld, KvHeld
    <2> QED
        BY <2>1, KvStep DEF LeaseNext
<1> QED
    BY <1>1, <1>2, LeaseRecords, PTL
    DEF LeaseSpec, ImplementsKvLedger, KvLedger!Spec, KvLedger!vars

-----------------------------------------------------------------------------
(***************************************************************************)
(* What follows from the ledgers.                                          *)
(***************************************************************************)

\* Both counters are, in every reachable state, the sum of what the leases
\* have in them.
LEMMA CountersAreSums == LeaseSpec => [](SlotProofs!IInv /\ KvProofs!IInv)
<1>1. SlotLedger!Init <=> SlotProofs!Init
    BY DEF SlotLedger!Init, SlotProofs!Init
<1>2. SlotLedger!Next <=> SlotProofs!Next
    BY DEF SlotLedger!Next, SlotProofs!Next, SlotLedger!Charge,
           SlotProofs!Charge, SlotLedger!Refund, SlotProofs!Refund,
           SlotLedger!Move, SlotProofs!Move
<1>3. KvLedger!Init <=> KvProofs!Init
    BY DEF KvLedger!Init, KvProofs!Init
<1>4. KvLedger!Next <=> KvProofs!Next
    BY DEF KvLedger!Next, KvProofs!Next, KvLedger!Charge, KvProofs!Charge,
           KvLedger!Refund, KvProofs!Refund, KvLedger!Move, KvProofs!Move
<1>5. LeaseSpec => []SlotProofs!IInv
    BY <1>1, <1>2, LeaseImplementsSlotLedger, SlotProofs!LedgerBalanced, PTL
    DEF ImplementsSlotLedger, SlotLedger!Spec, SlotProofs!Spec,
        SlotLedger!vars, SlotProofs!vars
<1>6. LeaseSpec => []KvProofs!IInv
    BY <1>3, <1>4, LeaseImplementsKvLedger, KvProofs!LedgerBalanced, PTL
    DEF ImplementsKvLedger, KvLedger!Spec, KvProofs!Spec,
        KvLedger!vars, KvProofs!vars
<1> QED
    BY <1>5, <1>6, PTL

\* The strengthening of the invariants below: the shapes of the leases and the
\* sums.  It is inductive only through the ledgers.
LeaseIInv == RecordsOK /\ SlotProofs!IInv /\ KvProofs!IInv

LEMMA LeaseInvariant == LeaseSpec => []LeaseIInv
    BY LeaseRecords, CountersAreSums, PTL DEF LeaseIInv

\* The counters of a backend never go below zero, and every field of a lease
\* keeps its range.
THEOREM LeaseTypeCorrect == LeaseSpec => []LeaseTypeOK
<1>1. LeaseIInv => LeaseTypeOK
    BY DEF LeaseIInv, RecordsOK, LeaseTypeOK, SlotProofs!IInv, KvProofs!IInv,
           SlotProofs!TypeOK, KvProofs!TypeOK
<1> QED
    BY <1>1, LeaseInvariant, PTL

\* While nobody is inside open or release on a backend, no request in flight
\* there means no token charged there, and the other way round.
THEOREM LeaseCountersAgree == LeaseSpec => []SettledCountersAgree
<1>1. ASSUME LeaseIInv, NEW b \in Backends, ~Unsettled(b)
      PROVE  inflight[b] = 0 <=> kvProjected[b] = 0
    <2>1. inflight[b] = 0 <=> \A l \in Leases : SlotsHeld[l][b] = 0
        BY <1>1, SlotProofs!ZeroTotal DEF LeaseIInv
    <2>2. kvProjected[b] = 0 <=> \A l \in Leases : KvsHeld[l][b] = 0
        BY <1>1, KvProofs!ZeroTotal DEF LeaseIInv
    <2>3. ASSUME NEW l \in Leases
          PROVE  SlotsHeld[l][b] = 0 <=> KvsHeld[l][b] = 0
        <3>1. lease[l] \in LeaseRecord /\ LeaseShape(lease[l])
            BY <1>1 DEF LeaseIInv, RecordsOK
        <3>2. lease[l].backend = b => lease[l].phase \in {"free", "open"}
            BY <1>1, <3>1 DEF Unsettled, LeaseRecord, Phases
        <3>3. lease[l].backend = b => (lease[l].slot <=> lease[l].kv)
            BY <3>1, <3>2 DEF LeaseShape
        <3>4. lease[l].kv => lease[l].charged # 0
            BY <3>1 DEF LeaseShape, LeaseRecord
        <3> QED
            BY <3>3, <3>4 DEF SlotsHeld, KvsHeld, SlotHeld, KvHeld
    <2> QED
        BY <2>1, <2>2, <2>3
<1>2. LeaseIInv => SettledCountersAgree
    BY <1>1 DEF SettledCountersAgree
<1> QED
    BY <1>2, LeaseInvariant, PTL

\* Under PromptPlusOutput the charge of an open lease is never below the
\* context its request holds.
THEOREM LeaseChargeCovers == LeaseSpec => []ChargeCoversOutput
<1>1. RecordsOK => ChargeCoversOutput
    BY DEF RecordsOK, LeaseShape, LeaseRecord, ChargeCoversOutput, Project
<1> QED
    BY <1>1, LeaseRecords, PTL

\* A recharge overshoots the output by less than one step.
THEOREM LeaseRechargeBounded == LeaseSpec => []RechargeIsBounded
<1>1. RecordsOK => RechargeIsBounded
    BY DEF RecordsOK, LeaseShape, RechargeIsBounded
<1> QED
    BY <1>1, LeaseRecords, PTL
=============================================================================
