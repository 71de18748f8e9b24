------------------------------- MODULE Lease --------------------------------
(***************************************************************************)
(* The cost lease of router-core: lease.rs, with the live counters of      *)
(* backend.rs and the KV projection of cost.rs.                            *)
(*                                                                         *)
(* A lease is owned by one request and touched by one thread at a time,    *)
(* but the two counters of a backend are shared by all of them and are     *)
(* updated with separate Relaxed atomic operations.  So opening a lease,   *)
(* and releasing it, is two steps; other threads see the counters between  *)
(* them.  Relaxed operations on different locations may become visible in  *)
(* either order, so the two steps of one call are not ordered either.      *)
(***************************************************************************)
EXTENDS Integers, FiniteSets

CONSTANTS
    Leases,         \* identities of CostLease values, reused after release
    Backends,
    Prompts,        \* prompt token counts a request can arrive with
    Estimates,      \* output length estimates a request can arrive with
    Batches,        \* token counts observe_tokens is called with
    NoBackend,      \* the backend of a lease that does not exist
    KvModel,        \* "PromptOnly" or "PromptPlusOutput"
    RechargeStep,   \* cost::RECHARGE_STEP, 50 in the code
    MaxSeen         \* bound of the model: longest output of a request

\* tokens::count and RouteHistograms::estimate both return at least 1, and
\* CountingSseBody reports one token per call.
ASSUME LeaseAssumption ==
    /\ Prompts \subseteq Nat \ {0}
    /\ Estimates \subseteq Nat \ {0}
    /\ RechargeStep \in Nat \ {0}
    /\ Batches \subseteq 1 .. RechargeStep
    /\ KvModel \in {"PromptOnly", "PromptPlusOutput"}
    /\ MaxSeen \in Nat
    /\ NoBackend \notin Backends

VARIABLES
    inflight,       \* LiveCounters::inflight of each backend
    kvProjected,    \* LiveCounters::kv_projected_tokens of each backend
    lease           \* the CostLease values

leaseVars == <<inflight, kvProjected, lease>>

\* Where the owner of a lease is: it has none, is inside open, has an open
\* lease, or is inside release.
Phases == {"free", "opening", "open", "releasing"}

LeaseRecord ==
    [phase   : Phases,
     backend : Backends \cup {NoBackend},
     prompt  : Nat,          \* prompt_tokens
     est     : Nat,          \* the estimate the lease was opened with
     oHat    : Nat,          \* o_hat
     seen    : Nat,          \* tokens_seen
     charged : Nat,
     slot    : BOOLEAN,      \* its unit is in inflight
     kv      : BOOLEAN]      \* its charge is in kv_projected_tokens

-----------------------------------------------------------------------------

NoLease ==
    [phase |-> "free", backend |-> NoBackend, prompt |-> 0, est |-> 0,
     oHat |-> 0, seen |-> 0, charged |-> 0, slot |-> FALSE, kv |-> FALSE]

\* KvModel::project.
Project(prompt, oHat) ==
    IF KvModel = "PromptOnly" THEN prompt ELSE prompt + oHat

\* Open, after its first line: the charge is fixed, no counter is touched yet.
NewLease(b, p, o) ==
    [phase |-> "opening", backend |-> b, prompt |-> p, est |-> o, oHat |-> o,
     seen |-> 0, charged |-> Project(p, o), slot |-> FALSE, kv |-> FALSE]

BeginOpen(l, b, p, o) ==
    /\ lease[l].phase = "free"
    /\ lease' = [lease EXCEPT ![l] = NewLease(b, p, o)]
    /\ UNCHANGED <<inflight, kvProjected>>

\* Open returns when both of its atomic additions are done.
OpenAddInflight(l) ==
    LET ls == lease[l] IN
    /\ ls.phase = "opening" /\ ~ls.slot
    /\ inflight' = [inflight EXCEPT ![ls.backend] = @ + 1]
    /\ lease' = [lease EXCEPT ![l] =
                   [ls EXCEPT !.slot = TRUE,
                              !.phase = IF ls.kv THEN "open" ELSE "opening"]]
    /\ UNCHANGED kvProjected

\* Mutant: open charges the prompt alone while the lease records the
\* projection.
OpenAddKvPromptAlone(l) ==
    LET ls == lease[l] IN
    /\ ls.phase = "opening" /\ ~ls.kv
    /\ kvProjected' = [kvProjected EXCEPT ![ls.backend] = @ + ls.prompt]
    /\ lease' = [lease EXCEPT ![l] =
                   [ls EXCEPT !.kv = TRUE,
                              !.phase = IF ls.slot THEN "open" ELSE "opening"]]
    /\ UNCHANGED inflight

OpenAddKv(l) ==
    LET ls == lease[l] IN
    /\ ls.phase = "opening" /\ ~ls.kv
    /\ kvProjected' = [kvProjected EXCEPT ![ls.backend] = @ + ls.charged]
    /\ lease' = [lease EXCEPT ![l] =
                   [ls EXCEPT !.kv = TRUE,
                              !.phase = IF ls.slot THEN "open" ELSE "opening"]]
    /\ UNCHANGED inflight

\* The three assignments and the atomic addition of observe_tokens, once it is
\* known whether this call recharges.
Observed(l, n, recharge) ==
    LET ls == lease[l]
        oHat == IF recharge THEN ls.oHat + RechargeStep ELSE ls.oHat
        charge == IF recharge THEN Project(ls.prompt, oHat) ELSE ls.charged
    IN  /\ ls.phase = "open"
        /\ ls.seen + n =< MaxSeen
        /\ lease' = [lease EXCEPT ![l] =
                       [ls EXCEPT !.seen = @ + n, !.oHat = oHat,
                                  !.charged = charge]]
        /\ kvProjected' = [kvProjected EXCEPT ![ls.backend] =
                             @ + (charge - ls.charged)]
        /\ UNCHANGED inflight

\* Mutants: the comparison is not strict; it reads tokens_seen before the
\* addition; the new charge is added without taking the old one off.
ObserveTokensNotStrict(l, n) ==
    Observed(l, n, lease[l].seen + n >= lease[l].oHat)
ObserveTokensStale(l, n) ==
    Observed(l, n, lease[l].seen > lease[l].oHat)
ObserveTokensNoDelta(l, n) ==
    LET ls == lease[l]
        charge == Project(ls.prompt, ls.oHat + RechargeStep)
    IN  /\ ls.phase = "open"
        /\ ls.seen + n > ls.oHat /\ ls.seen + n =< MaxSeen
        /\ lease' = [lease EXCEPT ![l] =
                       [ls EXCEPT !.seen = @ + n, !.oHat = @ + RechargeStep,
                                  !.charged = charge]]
        /\ kvProjected' = [kvProjected EXCEPT ![ls.backend] = @ + charge]
        /\ UNCHANGED inflight

\* observe_tokens(n): when the output overruns the estimate, raise it by one
\* RechargeStep, once, and charge the difference.
ObserveTokens(l, n) ==
    Observed(l, n, lease[l].seen + n > lease[l].oHat)

\* Drop calls release, which runs its body once: the flag `released` is the
\* phase of the lease having left "open".
BeginRelease(l) ==
    /\ lease[l].phase = "open"
    /\ lease' = [lease EXCEPT ![l] = [@ EXCEPT !.phase = "releasing"]]
    /\ UNCHANGED <<inflight, kvProjected>>

\* Mutant: release runs again on a lease already released.
ReleaseSubInflightTwice(l) ==
    LET ls == lease[l] IN
    /\ ls.phase = "releasing"
    /\ inflight' = [inflight EXCEPT ![ls.backend] = @ - 1]
    /\ lease' = [lease EXCEPT ![l] =
                   IF ls.kv THEN [ls EXCEPT !.slot = FALSE] ELSE NoLease]
    /\ UNCHANGED kvProjected

ReleaseSubInflight(l) ==
    LET ls == lease[l] IN
    /\ ls.phase = "releasing" /\ ls.slot
    /\ inflight' = [inflight EXCEPT ![ls.backend] = @ - 1]
    /\ lease' = [lease EXCEPT ![l] =
                   IF ls.kv THEN [ls EXCEPT !.slot = FALSE] ELSE NoLease]
    /\ UNCHANGED kvProjected

\* Mutant: release gives back what open charged, not what is charged now.
ReleaseSubKvAtOpen(l) ==
    LET ls == lease[l] IN
    /\ ls.phase = "releasing" /\ ls.kv
    /\ kvProjected' = [kvProjected EXCEPT ![ls.backend] =
                         @ - Project(ls.prompt, ls.est)]
    /\ lease' = [lease EXCEPT ![l] =
                   IF ls.slot THEN [ls EXCEPT !.kv = FALSE, !.charged = 0]
                              ELSE NoLease]
    /\ UNCHANGED inflight

ReleaseSubKv(l) ==
    LET ls == lease[l] IN
    /\ ls.phase = "releasing" /\ ls.kv
    /\ kvProjected' = [kvProjected EXCEPT ![ls.backend] = @ - ls.charged]
    /\ lease' = [lease EXCEPT ![l] =
                   IF ls.slot THEN [ls EXCEPT !.kv = FALSE, !.charged = 0]
                              ELSE NoLease]
    /\ UNCHANGED inflight

-----------------------------------------------------------------------------

LeaseInit ==
    /\ inflight = [b \in Backends |-> 0]
    /\ kvProjected = [b \in Backends |-> 0]
    /\ lease = [l \in Leases |-> NoLease]

LeaseStep(l) ==
    \/ \E b \in Backends, p \in Prompts, o \in Estimates : BeginOpen(l, b, p, o)
    \/ OpenAddInflight(l)
    \/ OpenAddKv(l)
    \/ \E n \in Batches : ObserveTokens(l, n)
    \/ BeginRelease(l)
    \/ ReleaseSubInflight(l)
    \/ ReleaseSubKv(l)

LeaseNext == \E l \in Leases : LeaseStep(l)

LeaseSpec == LeaseInit /\ [][LeaseNext]_leaseVars

-----------------------------------------------------------------------------
(***************************************************************************)
(* Properties.                                                             *)
(***************************************************************************)

\* The counters and the lease fields are in range.  That the counters stay
\* in Nat says fetch_sub never underflows (inflight is a u32) and the
\* projection of a backend is never negative.
LeaseTypeOK ==
    /\ inflight \in [Backends -> Nat]
    /\ kvProjected \in [Backends -> Nat]
    /\ lease \in [Leases -> LeaseRecord]

\* The slots and the KV tokens each lease has in the counters of backend b.
SlotHeld(l, b) == IF lease[l].slot /\ lease[l].backend = b THEN 1 ELSE 0
KvHeld(l, b) ==
    IF lease[l].kv /\ lease[l].backend = b THEN lease[l].charged ELSE 0

SlotsHeld == [l \in Leases |-> [b \in Backends |-> SlotHeld(l, b)]]
KvsHeld == [l \in Leases |-> [b \in Backends |-> KvHeld(l, b)]]

SlotLedger == INSTANCE Ledger WITH
    Holders <- Leases, Accounts <- Backends,
    total <- inflight, held <- SlotsHeld

KvLedger == INSTANCE Ledger WITH
    Holders <- Leases, Accounts <- Backends,
    total <- kvProjected, held <- KvsHeld

\* CostLease implements a ledger of slots: every release gives back the one
\* slot its open took, on the same backend, once (lease.rs:107-110).
ImplementsSlotLedger == SlotLedger!Spec

\* CostLease implements a ledger of KV tokens: whatever recharges happened in
\* between, release gives back exactly what open and observe_tokens added.
ImplementsKvLedger == KvLedger!Spec

\* Some thread is between the two atomic operations of an open or a release
\* on backend b.
Unsettled(b) ==
    \E l \in Leases : /\ lease[l].backend = b
                      /\ lease[l].phase \in {"opening", "releasing"}

\* While no open or release is under way on a backend, it has no requests in
\* flight exactly when it has no KV tokens projected: no charge leaks and
\* none is given back early (lease.rs:87-101).
SettledCountersAgree ==
    \A b \in Backends :
        ~Unsettled(b) => (inflight[b] = 0 <=> kvProjected[b] = 0)

\* Under PromptPlusOutput an open lease is always charged for at least the
\* prompt and the output seen so far: one recharge per call is enough.
ChargeCoversOutput ==
    KvModel = "PromptPlusOutput" =>
        \A l \in Leases : lease[l].phase = "open" =>
            lease[l].charged >= lease[l].prompt + lease[l].seen

\* A recharge never raises the estimate further than RechargeStep - 1 tokens
\* past the output seen: a request that overruns is over-charged by less than
\* one step (lease.rs:52-54, the strict inequality).
RechargeIsBounded ==
    \A l \in Leases : lease[l].phase = "open" =>
        \/ lease[l].oHat = lease[l].est
        \/ lease[l].oHat =< lease[l].seen + RechargeStep - 1
=============================================================================
