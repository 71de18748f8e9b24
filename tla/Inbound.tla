------------------------------- MODULE Inbound --------------------------------
(***************************************************************************)
(* What becomes of a request before a backend is picked, and what is sent  *)
(* to that backend: inbound.rs, tokens.rs and rebuild_request, on top of   *)
(* the length estimator that build_features consults.                      *)
(*                                                                         *)
(* A body is a record of what the code looks up in the JSON; a text is its *)
(* number of words and of bytes.                                           *)
(***************************************************************************)
EXTENDS LengthEstimator, Sequences

CONSTANTS
    Requests,       \* the requests clients send
    MaxBody,        \* max_request_body_bytes
    CounterKinds,   \* what the configuration may choose: "Whitespace", "CharsPerToken"
    CharsPerToken,
    BucketCap       \* 4096

VARIABLES
    kind,           \* TokenCounter::kind, fixed by the configuration
    handled         \* the last request handled, and what became of it

inboundVars == <<estimatorVars, kind, handled>>

Text == {t \in [words : Nat, bytes : Nat] : t.words =< t.bytes}
Options == {"absent", "notObject", "undecided", "declined", "asked"}
Body ==
    [json : BOOLEAN, model : STRING \cup {None},
     messages : Seq(Text \cup {None}) \cup {None},  \* None: no array, no string
     prompt : Text \cup {None},
     max_tokens : MaxTokens \cup {None}, stream : BOOLEAN,
     stream_options : Options, size : Nat]
Headers == {"host", "content-length", "other"}

ASSUME InboundAssumption ==
    /\ \A q \in Requests : q.body \in Body /\ q.headers \in [Headers -> Nat \cup {None}]
    /\ MaxBody \in Nat /\ CharsPerToken \in Nat \ {0} /\ BucketCap \in Nat \ {0}
    /\ CounterKinds \subseteq {"Whitespace", "CharsPerToken"}

-----------------------------------------------------------------------------
CeilDiv(a, b) == (a + b - 1) \div b

\* Mutant: the clamp is left out and the cast wraps.
CountWrapping(text) ==
    IF text.words = 0 THEN 0
    ELSE (IF kind = "Whitespace" THEN text.words
                                 ELSE CeilDiv(text.bytes, CharsPerToken)) % Width

\* TokenCounter::count.
Count(text) ==
    IF text.words = 0 THEN 0
    ELSE Least(IF kind = "Whitespace" THEN text.words
                                      ELSE CeilDiv(text.bytes, CharsPerToken),
               Width - 1)

\* saturating_add, one after the other.
SaturatingSum(counts) ==
    LET total[n \in 0 .. Len(counts)] ==
          IF n = 0 THEN 0 ELSE Least(total[n - 1] + counts[n], Width - 1)
    IN  total[Len(counts)]

\* count_prompt_tokens.  A content that is not a string does not count.
CountPromptTokens(body) ==
    IF body.messages # None
    THEN SaturatingSum([i \in 1 .. Len(body.messages) |->
                          IF body.messages[i] = None THEN 0 ELSE Count(body.messages[i])])
    ELSE IF body.prompt # None THEN Count(body.prompt)
    ELSE 0

\* prompt_bucket, for the counts that are not rejected.
PromptBucket(tokens) ==
    Least(CHOOSE p \in {2 ^ k : k \in 0 .. tokens} : p =< tokens /\ tokens < 2 * p, BucketCap)

RouteKey(model, tokens) == <<model, PromptBucket(tokens)>>

\* The errors of build_features are BAD_REQUEST, whichever they are.
BadRequest(body) ==
    ~body.json \/ body.model = None \/ CountPromptTokens(body) = 0

BuildFeatures(body) ==
    LET tokens == CountPromptTokens(body)
        route == RouteKey(body.model, tokens)
    IN  [route |-> route, prompt_tokens |-> tokens,
         prompt_tokens_exact |-> kind = "Whitespace",
         expected_output_tokens |-> Estimate(route, body.max_tokens),
         streaming |-> body.stream]

\* Mutant: an object without the key is taken for a decision of the client.
EnsureUsageOnlyIfAbsent(body) ==
    IF body.stream /\ body.stream_options = "absent"
    THEN [body EXCEPT !.stream_options = "asked", !.size = @ + 1]
    ELSE body

\* ensure_usage_requested, which grows the body.  Its expect fails on a value
\* that is there and is not an object.
Panics(body) == body.stream /\ body.stream_options = "notObject"
EnsureUsageRequested(body) ==
    IF body.stream /\ body.stream_options \in {"absent", "undecided"}
    THEN [body EXCEPT !.stream_options = "asked", !.size = @ + 1]
    ELSE body

\* Mutant: only Host is left out.
RebuildRequestKeepingLength(headers, body) ==
    [headers |-> [headers EXCEPT !["host"] = None,
                                 !["content-length"] = IF @ = None THEN body.size ELSE @],
     body |-> body]

\* rebuild_request: Host and Content-Length are left out, and hyper computes
\* the latter from the body it is given.
RebuildRequest(headers, body) ==
    [headers |-> [headers EXCEPT !["host"] = None, !["content-length"] = body.size],
     body |-> body]

\* handle_inner up to the choice of a backend, and the request it would send.
Outcome(q) ==
    IF q.body.size > MaxBody THEN [status |-> "PAYLOAD_TOO_LARGE"]
    ELSE IF BadRequest(q.body) THEN [status |-> "BAD_REQUEST"]
    ELSE IF Panics(q.body) THEN [status |-> "abort"]
    ELSE [status |-> "dispatched", features |-> BuildFeatures(q.body),
          sent |-> RebuildRequest(q.headers, EnsureUsageRequested(q.body))]

Handle(q) ==
    /\ handled' = [request |-> q, outcome |-> Outcome(q)]
    /\ IF q.body.size =< MaxBody /\ ~BadRequest(q.body)
       THEN Ask(RouteKey(q.body.model, CountPromptTokens(q.body)), q.body.max_tokens)
       ELSE UNCHANGED estimatorVars
    /\ UNCHANGED kind

InboundInit == EstimatorInit /\ kind \in CounterKinds /\ handled = None

\* The release profile aborts the process on a panic.
Running == handled # None => handled.outcome.status # "abort"

InboundNext ==
    /\ Running
    /\ \/ \E q \in Requests : Handle(q)
       \/ Learn /\ UNCHANGED <<kind, handled>>

InboundSpec == InboundInit /\ [][InboundNext]_inboundVars

-----------------------------------------------------------------------------
(***************************************************************************)
(* Properties.                                                             *)
(***************************************************************************)

Dispatched == handled # None /\ handled.outcome.status = "dispatched"

\* The texts of a body, those of them that are strings and not blank, and what a
\* counter makes of these joined with a separator between them.
Texts(body) == IF body.messages = None THEN << body.prompt >> ELSE body.messages

Written(texts) == {i \in 1 .. Len(texts) : texts[i] # None /\ texts[i].words > 0}

Total(numbers) ==
    LET total[n \in 0 .. Len(numbers)] == IF n = 0 THEN 0 ELSE total[n - 1] + numbers[n]
    IN  total[Len(numbers)]

Joined(texts) ==
    LET Of(field) == Total([i \in 1 .. Len(texts) |->
                              IF i \in Written(texts) THEN texts[i][field] ELSE 0])
    IN  IF kind = "Whitespace" THEN Of("words") ELSE CeilDiv(Of("bytes"), CharsPerToken)

\* A dispatched request is never projected as free or as less than its prompt:
\* counting message by message gives the count of the joined prompt, up to one
\* for every boundary under chars_per_token, and a count out of range
\* saturates (tokens.rs:63-77, inbound.rs:75-93).
PromptNeverUndercounted ==
    Dispatched =>
        LET texts == Texts(handled.request.body)
            count == handled.outcome.features.prompt_tokens
        IN  /\ count \in 1 .. Width - 1
            /\ Least(Joined(texts), Width - 1) =< count
            /\ count =< Joined(texts)
                        + IF handled.outcome.features.prompt_tokens_exact THEN 0
                          ELSE Cardinality(Written(texts)) - 1

\* The usage frame the length estimator learns from is asked for in every
\* streamed request whose client has not decided otherwise, and nothing else
\* is changed: a decision of the client is kept (inbound.rs:96-117).
UsageAskedUnlessDeclined ==
    Dispatched =>
        LET asked == handled.request.body
            sent == handled.outcome.sent.body
        IN  /\ sent.stream => sent.stream_options \in {"asked", "declined"}
            /\ asked.stream_options \in {"asked", "declined"} \/ ~asked.stream =>
                   sent = asked
            /\ sent = [asked EXCEPT !.stream_options = sent.stream_options,
                                    !.size = sent.size]

\* The backend is told the length of the body it gets, not of the one the
\* client sent (upstream.rs:40-51).
LengthIsOfBodySent ==
    Dispatched =>
        handled.outcome.sent.headers["content-length"] = handled.outcome.sent.body.size

\* expect("stream_options was just inserted or already an object"): a request
\* does not get there with anything else.  One with stream_options null or a
\* string does, and a release build aborts on a panic.
StreamOptionsIsObject == Running
=============================================================================
