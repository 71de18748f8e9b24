------------------------------ MODULE SseRelay ------------------------------
(***************************************************************************)
(* CountingSseBody::poll_frame (upstream.rs) with parse_line and classify  *)
(* (sse.rs): one response body relayed to the client while the router      *)
(* reads the SSE lines that pass, whatever way they are cut into chunks.   *)
(*                                                                         *)
(* A stream is a sequence of pieces, the smallest parts of its lines that  *)
(* matter here.  A line starts with a head and ends with a tail, which     *)
(* holds its newline; between the two a line whose text has a multi-byte   *)
(* character has the first byte of the character, lead, and the others,    *)
(* cont.  A chunk is any run of pieces.                                    *)
(***************************************************************************)
EXTENDS Integers, Sequences, FiniteSets

CONSTANT Streams        \* the streams an upstream may send

\* What sse::classify can make of a line.  A usage frame with no completion
\* tokens, such as one with an empty choices array and no usage, is noUsage.
Frames == {"role", "content", "empty", "usage", "noUsage", "error", "done", "none"}

Parts == {"head", "lead", "cont", "tail"}
Pieces == [line : Nat, kind : Frames, part : Parts]

\* A line runs from the piece after a newline to the next newline; all its pieces
\* have its number and its kind, and no other line has the number.
WellFormed(s) ==
    /\ \A i \in DOMAIN s : s[i].part = "head" <=> (i = 1 \/ s[i - 1].part = "tail")
    /\ \A i, j \in DOMAIN s :
           i <= j /\ (\A k \in i .. j - 1 : s[k].part # "tail")
               => s[i].line = s[j].line /\ s[i].kind = s[j].kind
    /\ \A i, j \in DOMAIN s :
           i < j /\ s[i].line = s[j].line => s[i].part # "tail"

ASSUME RelayAssumption == Streams \subseteq {s \in Seq(Pieces) : WellFormed(s)}

VARIABLES
    stream,         \* what the upstream sends
    success,        \* upstream_status.is_success()
    sent,           \* number of pieces relayed
    lineBuf,        \* line_buf
    contentTokens,  \* content_tokens, and the calls of lease.observe_tokens(1)
    learned,        \* number of calls of route_hists.observe
    sawErrorFrame,  \* saw_error_frame
    undecoded,      \* history: the positions of the pieces of refused chunks
    state,          \* relaying, over (the inner body ended or failed) or dropped
    recorded        \* what record_request_result was told

relayVars == <<stream, success, sent, lineBuf, contentTokens, learned,
               sawErrorFrame, undecoded, state, recorded>>

-----------------------------------------------------------------------------
\* std::str::from_utf8 of a chunk: no character straddles its ends.
Decodes(chunk) == chunk[1].part # "cont" /\ chunk[Len(chunk)].part # "lead"

\* line_buf.find('\n') answers with the first of the newlines.
Newlines == {i \in 1 .. Len(lineBuf) : lineBuf[i].part = "tail"}
FirstNewline == CHOOSE i \in Newlines : \A j \in Newlines : i <= j

\* A line taken out of the buffer, which ends with its only newline, is whole when
\* the upstream sent it so, from its head on.
Whole(line) ==
    \E i \in DOMAIN stream :
        /\ stream[i].part = "head" /\ i + Len(line) - 1 <= Len(stream)
        /\ line = SubSeq(stream, i, i + Len(line) - 1)

\* What parse_line and classify may return for a line.  One put together from
\* the remains of several has no frame, the frame of one of them or an empty
\* content, depending on where in the JSON the chunks were cut.
Classify(line) ==
    IF Whole(line) THEN {line[1].kind}
    ELSE {"none", "empty"} \cup {line[i].kind : i \in 1 .. Len(line)}

-----------------------------------------------------------------------------
\* Mutant: the partial line of the previous chunk is forgotten.
ChunkForgettingPartial(n) ==
    /\ state = "relaying" /\ Newlines = {}
    /\ sent + n <= Len(stream)
    /\ sent' = sent + n
    /\ lineBuf' = SubSeq(stream, sent + 1, sent + n)
    /\ UNCHANGED <<stream, success, contentTokens, learned, sawErrorFrame,
                   undecoded, state, recorded>>

\* poll_frame gets n pieces from the inner body.
Chunk(n) ==
    /\ state = "relaying" /\ Newlines = {}
    /\ sent + n <= Len(stream)
    /\ sent' = sent + n
    /\ LET chunk == SubSeq(stream, sent + 1, sent + n)
       IN  IF Decodes(chunk)
           THEN lineBuf' = lineBuf \o chunk /\ UNCHANGED undecoded
           ELSE undecoded' = undecoded \cup (sent + 1 .. sent + n)
                /\ UNCHANGED lineBuf
    /\ UNCHANGED <<stream, success, contentTokens, learned, sawErrorFrame, state,
                   recorded>>

\* What a line counts for.
Account(frame) ==
    /\ contentTokens' = contentTokens + (IF frame = "content" THEN 1 ELSE 0)
    /\ learned' = learned + (IF frame = "usage" THEN 1 ELSE 0)
    /\ sawErrorFrame' = (sawErrorFrame \/ frame = "error")
    /\ UNCHANGED <<stream, success, sent, undecoded, state, recorded>>

\* Mutant: the line is classified and stays in the buffer.
DrainLineKeeping ==
    /\ state = "relaying" /\ Newlines # {}
    /\ contentTokens <= Len(stream)
    /\ \E frame \in Classify(SubSeq(lineBuf, 1, FirstNewline)) : Account(frame)
    /\ UNCHANGED lineBuf

\* Mutant: taking a line empties the buffer, whatever follows the newline.
DrainLineAndRest ==
    /\ state = "relaying" /\ Newlines # {}
    /\ \E frame \in Classify(SubSeq(lineBuf, 1, FirstNewline)) : Account(frame)
    /\ lineBuf' = << >>

\* One iteration of the loop that takes the lines out of line_buf.
DrainLine ==
    /\ state = "relaying" /\ Newlines # {}
    /\ lineBuf' = SubSeq(lineBuf, FirstNewline + 1, Len(lineBuf))
    /\ \E frame \in Classify(SubSeq(lineBuf, 1, FirstNewline)) : Account(frame)

\* The inner body ends or fails, wherever it is.
BodyOver ==
    /\ state = "relaying" /\ Newlines = {}
    /\ state' = "over"
    /\ UNCHANGED <<stream, success, sent, lineBuf, contentTokens, learned,
                   sawErrorFrame, undecoded, recorded>>

\* Mutant: only the status of the response decides.
DropBodyByStatus ==
    /\ state \in {"relaying", "over"} /\ Newlines = {}
    /\ state' = "dropped"
    /\ recorded' = IF success THEN "ok" ELSE "error"
    /\ UNCHANGED <<stream, success, sent, lineBuf, contentTokens, learned,
                   sawErrorFrame, undecoded>>

\* The body is dropped: it is over, or the client went away.
DropBody ==
    /\ state \in {"relaying", "over"} /\ Newlines = {}
    /\ state' = "dropped"
    /\ recorded' = IF sawErrorFrame \/ ~success THEN "error" ELSE "ok"
    /\ UNCHANGED <<stream, success, sent, lineBuf, contentTokens, learned,
                   sawErrorFrame, undecoded>>

RelayInit ==
    /\ stream \in Streams /\ success \in BOOLEAN
    /\ sent = 0 /\ lineBuf = << >>
    /\ contentTokens = 0 /\ learned = 0 /\ sawErrorFrame = FALSE
    /\ undecoded = {} /\ state = "relaying" /\ recorded = "none"

RelayNext ==
    \/ \E n \in 1 .. Len(stream) : Chunk(n)
    \/ DrainLine
    \/ BodyOver
    \/ DropBody

RelaySpec == RelayInit /\ [][RelayNext]_relayVars

-----------------------------------------------------------------------------
(***************************************************************************)
(* Properties.                                                             *)
(***************************************************************************)

\* Positions of the newlines, each of which stands for its line, among the
\* pieces relayed, and those of the lines of one kind.
Relayed == {i \in 1 .. sent : stream[i].part = "tail"}
RelayedOf(kind) == {i \in Relayed : stream[i].kind = kind}

\* Every variable keeps its range, and there are never more tokens or
\* observations than lines relayed.
RelayTypeOK ==
    /\ stream \in Streams /\ success \in BOOLEAN
    /\ sent \in 0 .. Len(stream)
    /\ lineBuf \in Seq(Pieces)
    /\ contentTokens \in 0 .. Cardinality(Relayed)
    /\ learned \in 0 .. Cardinality(Relayed)
    /\ sawErrorFrame \in BOOLEAN
    /\ undecoded \subseteq 1 .. sent
    /\ state \in {"relaying", "over", "dropped"}
    /\ recorded \in {"none", "ok", "error"}

\* As long as every chunk decodes, what the router makes of a body depends on
\* the lines that passed and not on the chunks they came in: each content line
\* counts one token, each usage line feeds the estimator once, and an error line
\* is noticed, no line twice and none before its newline.
ChunkingInvisible ==
    undecoded = {} /\ Newlines = {} =>
        /\ contentTokens = Cardinality(RelayedOf("content"))
        /\ learned = Cardinality(RelayedOf("usage"))
        /\ sawErrorFrame <=> RelayedOf("error") # {}

\* The same for the verdict: a body all of whose chunks decoded is recorded as an
\* error if the upstream said so in its status or in a line that passed.
VerdictFollowsStream ==
    state = "dropped" /\ undecoded = {} =>
        (recorded = "error" <=> ~success \/ RelayedOf("error") # {})

\* A chunk that does not decode harms the lines it has pieces of and, for each of
\* them, at most the one line that its remains are joined with: the count of tokens
\* is never further from that of the content lines, and the parser always recovers.
Damaged == {stream[i].line : i \in undecoded}

Gap(m, n) == IF m < n THEN n - m ELSE m - n

LossIsLocal ==
    Newlines = {} =>
        Gap(contentTokens, Cardinality(RelayedOf("content")))
            <= 2 * Cardinality(Damaged)

\* What tests/frame_boundary.rs says of an error frame that straddles chunks: a body
\* that relayed one whole is recorded as a failure.
ErrorFrameRecognised ==
    state = "dropped" /\ RelayedOf("error") # {} => recorded = "error"
=============================================================================
