--------------------------- MODULE MCRequestPath ----------------------------
(* RequestPath.tla for TLC. *)
EXTENDS RequestPath, TLC

CONSTANTS b1, b2

\* One backend, or two of different sizes.
OneBackend == << b1 >>
TwoBackends == << b1, b2 >>

TwoSlots == [b \in Backends |-> 2]

\* One backend limited by its slots and one by its KV cache ...
OneFewSlots == [b \in Backends |-> IF b = b1 THEN 1 ELSE 4]
OneLittleKv == [b \in Backends |-> IF b = b1 THEN 20 ELSE 3]

\* ... and two backends of which the second is larger.
UnequalSlots == [b \in Backends |-> IF b = b1 THEN 1 ELSE 3]
UnequalKv == [b \in Backends |-> IF b = b1 THEN 8 ELSE 5]

SigmaOne == <<1, 1>>
SigmaHigh == <<9, 10>>

\* The knee, and penalties that validate lets pass.
ThetaHalf == <<1, 2>>
PenaltyTen == <<10, 1>>
PenaltyNegative == <<-2, 1>>
PenaltyNaN == NaN

\* Requests are interchangeable.
Symmetric == Permutations(Requests)
=============================================================================
