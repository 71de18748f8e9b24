----------------------------- MODULE MCInbound ------------------------------
(* Inbound.tla for TLC. *)
EXTENDS Inbound, TLC

\* A half-life of one tick.
Halving == [e \in 0 .. MaxTime |-> << 1, 2 ^ e >>]

\* Bodies are interchangeable.
Symmetric == Permutations(Bodies)

\* One model, and prompts of the largest bucket.
ModelRoutes == {<<"m", BucketCap>>}

Plain(messages) ==
    [json |-> TRUE, model |-> "m", messages |-> messages, prompt |-> None,
     max_tokens |-> None, stream |-> TRUE, stream_options |-> "absent", size |-> 2]
T(words, bytes) == [words |-> words, bytes |-> bytes]
Usual == Plain(<<T(2, 9)>>)

\* Requests that differ in the prompt, in what the client decided, in how long
\* it lets the answer be, and in what makes them fail.
PromptBodies ==
    {Usual, Plain(<<T(1, 5), T(2, 5)>>), Plain(<<T(6, 30), None, T(5, 20)>>),
     Plain(<<T(0, 9), T(1, 5), T(1, 6)>>),
     Plain(<<T(8, 40)>>), Plain(<<T(0, 3), None>>),
     [Plain(None) EXCEPT !.prompt = T(3, 8)], Plain(None)}
ClientBodies ==
    {[Usual EXCEPT !.stream_options = o, !.stream = s] :
        o \in Options \ {"asked"}, s \in BOOLEAN}
OtherBodies ==
    {[Usual EXCEPT !.max_tokens = m] : m \in MaxTokens}
    \cup {[Usual EXCEPT !.json = FALSE], [Usual EXCEPT !.size = MaxBody + 1]}
AllRequests ==
    [body : PromptBodies \cup ClientBodies \cup OtherBodies,
     headers : {[host |-> 0, other |-> 0] @@ ("content-length" :> 2)}]
=============================================================================
