----------------------------- MODULE MCSseRelay -----------------------------
(* SseRelay.tla for TLC. *)
EXTENDS SseRelay, SequencesExt

\* The pieces of line i.
Line(i, kind, parts) ==
    [j \in 1 .. Len(parts) |-> [line |-> i, kind |-> kind, part |-> parts[j]]]

Narrow(i, kind) == Line(i, kind, <<"head", "tail">>)
Wide(i, kind) == Line(i, kind, <<"head", "lead", "cont", "tail">>)

\* A complete answer, one that fails in-band, one with multi-byte text
\* throughout, and one whose error message has a multi-byte character.
Answer ==
    Narrow(1, "role") \o Narrow(2, "content") \o Narrow(3, "content")
    \o Narrow(4, "noUsage") \o Narrow(5, "usage") \o Narrow(6, "done")
Failure == Narrow(1, "content") \o Narrow(2, "error") \o Narrow(3, "done")
WideAnswer ==
    Wide(1, "content") \o Narrow(2, "content") \o Wide(3, "content")
    \o Wide(4, "content") \o Narrow(5, "usage")
WideFailure == Narrow(1, "empty") \o Wide(2, "error")

SomeStreams == {Answer, Failure, WideAnswer, WideFailure}
=============================================================================
