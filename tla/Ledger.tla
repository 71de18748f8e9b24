------------------------------- MODULE Ledger -------------------------------
(***************************************************************************)
(* What a shared load counter promises, apart from how it is kept.        *)
(*                                                                         *)
(* Every holder may have an amount on deposit with one account at a time.  *)
(* It adds to the deposit, any number of times, and takes all of it back.  *)
(* An account publishes one number, its total, and the total is always     *)
(* the sum of what the holders have on deposit there: nothing is lost,     *)
(* nothing is counted twice and nobody takes back more or less than it     *)
(* put in.                                                                 *)
(*                                                                         *)
(* In the router the accounts are backends, the holders are cost leases,   *)
(* and there are two ledgers: one of slots (inflight) and one of KV tokens *)
(* (kv_projected_tokens).  Lease.tla shows that CostLease implements both. *)
(***************************************************************************)
EXTENDS Integers, FiniteSets

CONSTANTS Holders, Accounts

VARIABLES total,    \* total[a]: the number account a publishes
          held      \* held[h][a]: what holder h has on deposit with a

vars == <<total, held>>

Init ==
    /\ total = [a \in Accounts |-> 0]
    /\ held = [h \in Holders |-> [a \in Accounts |-> 0]]

\* Holder h's deposit with account a becomes held'[h][a], and the published
\* total moves by exactly the difference.
Move(h, a) ==
    /\ held'[h][a] \in Nat
    /\ held' = [held EXCEPT ![h] = [@ EXCEPT ![a] = held'[h][a]]]
    /\ total' = [total EXCEPT ![a] = @ + held'[h][a] - held[h][a]]

\* A first deposit or a top-up.  A holder deals with one account at a time.
Charge(h, a) ==
    /\ \A x \in Accounts \ {a} : held[h][x] = 0
    /\ Move(h, a)
    /\ held'[h][a] > held[h][a]

\* All of the deposit is taken back in one step.
Refund(h, a) ==
    /\ Move(h, a)
    /\ held[h][a] > 0
    /\ held'[h][a] = 0

Next == \E h \in Holders, a \in Accounts : Charge(h, a) \/ Refund(h, a)

Spec == Init /\ [][Next]_vars

-----------------------------------------------------------------------------

TypeOK ==
    /\ total \in [Accounts -> Nat]
    /\ held \in [Holders -> [Accounts -> Nat]]

\* The deposits with account a when the holders have d on deposit, one element
\* for every unit, so that their sum is a cardinality.
Units(d, a) == UNION {{h} \X (1 .. d[h][a]) : h \in Holders}

\* The published total of every account is the sum of the deposits with it.
Balanced == \A a \in Accounts : total[a] = Cardinality(Units(held, a))

\* No holder has a deposit with two accounts.
OneAccount ==
    \A h \in Holders : \A a, b \in Accounts :
        held[h][a] > 0 /\ held[h][b] > 0 => a = b

=============================================================================
