--------------------------- MODULE SseRelayProofs ---------------------------
(***************************************************************************)
(* For every stream, and however it is cut into chunks: as long as the     *)
(* chunks decode, the relay accounts for exactly the lines that passed.    *)
(*                                                                         *)
(* The invariant behind it says where the relay is.  The pieces still in   *)
(* line_buf are the last ones relayed; the lines before them, which end at *)
(* Drained, are the ones accounted for.                                    *)
(*                                                                         *)
(* With chunks that do not decode, the buffer may hold the remains of      *)
(* several lines.  LossOK keeps its place in the stream and the tally of   *)
(* the lines drained so far, each of which is one relayed whole or one     *)
(* with a damaged piece: the count of tokens is off by at most two for     *)
(* each line damaged.                                                      *)
(***************************************************************************)
EXTENDS SseRelay, FiniteSetTheorems, SequenceTheorems,
        WellFoundedInduction, TLAPS

\* The position of the newline of the last line taken out of the buffer.
Drained == sent - Len(lineBuf)

\* The newlines of the lines of one kind up to position n.
LinesTo(n, kind) == {i \in 1 .. n : stream[i].part = "tail" /\ stream[i].kind = kind}

RelayTypes ==
    /\ stream \in Streams /\ success \in BOOLEAN
    /\ sent \in Nat /\ sent <= Len(stream)
    /\ lineBuf \in Seq(Pieces)
    /\ contentTokens \in Nat /\ learned \in Nat /\ sawErrorFrame \in BOOLEAN
    /\ undecoded \subseteq 1 .. sent
    /\ state \in {"relaying", "over", "dropped"}
    /\ recorded \in {"none", "ok", "error"}

\* The buffer holds the pieces after Drained, where a line starts.
BufferInStep ==
    /\ Len(lineBuf) <= sent
    /\ \A i \in 1 .. Len(lineBuf) : lineBuf[i] = stream[Drained + i]
    /\ Drained = 0 \/ stream[Drained].part = "tail"

CountsInStep ==
    /\ contentTokens = Cardinality(LinesTo(Drained, "content"))
    /\ learned = Cardinality(LinesTo(Drained, "usage"))
    /\ sawErrorFrame <=> LinesTo(Drained, "error") # {}

VerdictInStep ==
    state = "dropped" =>
        /\ Newlines = {}
        /\ recorded = "error" <=> sawErrorFrame \/ ~success

RelayIInv ==
    /\ RelayTypes
    /\ undecoded = {} => BufferInStep /\ CountsInStep
    /\ VerdictInStep

-----------------------------------------------------------------------------

LEMMA StreamShape ==
    ASSUME NEW s \in Streams
    PROVE  s \in Seq(Pieces) /\ WellFormed(s)
    BY RelayAssumption

LEMMA FirstNumber ==
    ASSUME NEW S \in SUBSET Nat, S # {}
    PROVE  \E i \in S : \A j \in S : i <= j
    <1>1. PICK i \in S : \A j \in S : <<j, i>> \notin OpToRel(<, Nat)
        BY NatLessThanWellFounded, WFMin
    <1>2. \A j \in S : ~(j < i)
        BY <1>1 DEF OpToRel
    <1> QED
        BY <1>2

LEMMA LinesFinite ==
    ASSUME NEW n \in Nat, NEW kind
    PROVE  IsFiniteSet(LinesTo(n, kind)) /\ Cardinality(LinesTo(n, kind)) \in Nat
    <1>1. IsFiniteSet(1 .. n)
        BY FS_Interval
    <1>2. LinesTo(n, kind) \subseteq 1 .. n
        BY DEF LinesTo
    <1> QED
        BY <1>1, <1>2, FS_Subset, FS_CardinalityType

\* One more line: its newline joins the set of its kind and no other.
LEMMA OneMoreLine ==
    ASSUME NEW m \in Nat, NEW n \in Nat, m < n, stream[n].part = "tail",
           \A i \in m + 1 .. n - 1 : stream[i].part # "tail", NEW kind
    PROVE  /\ stream[n].kind = kind => LinesTo(n, kind) = LinesTo(m, kind) \cup {n}
           /\ stream[n].kind # kind => LinesTo(n, kind) = LinesTo(m, kind)
           /\ n \notin LinesTo(m, kind)
    <1>1. 1 .. n = (1 .. m) \cup (m + 1 .. n - 1) \cup {n}
        OBVIOUS
    <1> QED
        BY <1>1 DEF LinesTo

LEMMA OneMoreCounts ==
    ASSUME NEW m \in Nat, NEW n \in Nat, m < n, stream[n].part = "tail",
           \A i \in m + 1 .. n - 1 : stream[i].part # "tail", NEW kind
    PROVE  Cardinality(LinesTo(n, kind)) =
               Cardinality(LinesTo(m, kind)) + (IF stream[n].kind = kind THEN 1 ELSE 0)
    <1>1. IsFiniteSet(LinesTo(m, kind)) /\ Cardinality(LinesTo(m, kind)) \in Nat
        BY LinesFinite
    <1>2. CASE stream[n].kind = kind
        <2>1. Cardinality(LinesTo(m, kind) \cup {n}) = Cardinality(LinesTo(m, kind)) + 1
            BY <1>1, OneMoreLine, FS_AddElement
        <2> QED
            BY <2>1, <1>2, OneMoreLine
    <1>3. CASE stream[n].kind # kind
        <2>1. LinesTo(n, kind) = LinesTo(m, kind)
            BY <1>3, OneMoreLine
        <2> QED
            BY <1>1, <1>3, <2>1
    <1> QED
        BY <1>2, <1>3

LEMMA InitInStep == RelayInit => RelayIInv
    <1> SUFFICES ASSUME RelayInit PROVE RelayIInv
        OBVIOUS
    <1>1. stream \in Seq(Pieces) /\ Len(stream) \in Nat
        BY StreamShape DEF RelayInit
    <1>0. lineBuf \in Seq(Pieces) /\ Len(lineBuf) = 0 /\ sent = 0 /\ Drained = 0
        <2>1. lineBuf = << >>
            BY DEF RelayInit
        <2>2. sent = 0
            BY DEF RelayInit
        <2>3. lineBuf \in Seq(Pieces) /\ Len(lineBuf) = 0
            BY <2>1, EmptySeq
        <2> QED
            BY <2>2, <2>3 DEF Drained
    <1>2. RelayTypes
        <2>1. undecoded \subseteq 1 .. sent
            BY DEF RelayInit
        <2>2. sent \in Nat /\ sent <= Len(stream)
            BY <1>0, <1>1
        <2>3. contentTokens \in Nat /\ learned \in Nat /\ sawErrorFrame \in BOOLEAN
            BY DEF RelayInit
        <2>4. /\ stream \in Streams /\ success \in BOOLEAN
              /\ state \in {"relaying", "over", "dropped"}
              /\ recorded \in {"none", "ok", "error"}
            BY DEF RelayInit
        <2> QED
            BY <1>0, <2>1, <2>2, <2>3, <2>4 DEF RelayTypes
    <1>3. BufferInStep
        BY <1>0 DEF BufferInStep
    <1>4. \A kind : LinesTo(Drained, kind) = {}
        BY <1>0 DEF RelayInit, LinesTo, Drained
    <1>5. CountsInStep
        BY <1>4, FS_EmptySet DEF RelayInit, CountsInStep
    <1> QED
        BY <1>2, <1>3, <1>5 DEF RelayInit, RelayIInv, VerdictInStep

\* A chunk that decodes goes to the end of the buffer; another ends the claim.
LEMMA ChunkInStep ==
    ASSUME RelayIInv, NEW n \in 1 .. Len(stream), Chunk(n)
    PROVE  RelayIInv'
    <1> DEFINE chunk == SubSeq(stream, sent + 1, sent + n)
    <1> USE DEF RelayIInv
    <1>1. stream \in Seq(Pieces) /\ sent \in Nat /\ n \in Nat /\ sent + n <= Len(stream)
        BY StreamShape DEF RelayTypes, Chunk
    <1>2. /\ chunk \in Seq(Pieces) /\ Len(chunk) = n
          /\ \A i \in 1 .. n : chunk[i] = stream[sent + i]
        BY <1>1
    <1> HIDE DEF chunk
    <1>3. /\ stream' = stream /\ sent' = sent + n
          /\ contentTokens' = contentTokens /\ learned' = learned
          /\ sawErrorFrame' = sawErrorFrame /\ state = "relaying" /\ state' = state
        BY DEF Chunk
    <1>4. CASE Decodes(chunk)
        <2>1. lineBuf' = lineBuf \o chunk /\ undecoded' = undecoded
            BY <1>4 DEF Chunk, chunk
        <2>2. /\ lineBuf' \in Seq(Pieces) /\ Len(lineBuf') = Len(lineBuf) + n
              /\ Len(lineBuf) \in Nat
              /\ \A i \in 1 .. Len(lineBuf) : lineBuf'[i] = lineBuf[i]
              /\ \A i \in 1 .. n : lineBuf'[Len(lineBuf) + i] = chunk[i]
            <3>1. lineBuf \in Seq(Pieces)
                BY DEF RelayTypes
            <3>2. Len(lineBuf') = Len(lineBuf) + n
                BY <1>2, <2>1, <3>1, ConcatProperties
            <3>3. ASSUME NEW i \in 1 .. Len(lineBuf) PROVE lineBuf'[i] = lineBuf[i]
                BY <1>2, <2>1, <3>1, ConcatProperties
            <3>4. ASSUME NEW i \in 1 .. n PROVE lineBuf'[Len(lineBuf) + i] = chunk[i]
                BY <1>1, <1>2, <2>1, <3>1, ConcatProperties
            <3> QED
                BY <1>2, <2>1, <3>1, <3>2, <3>3, <3>4
        <2>3. RelayTypes'
            BY <1>1, <1>3, <2>1, <2>2 DEF RelayTypes, Chunk
        <2>4. Drained' = Drained
            BY <1>1, <1>3, <2>2 DEF Drained
        <2>5. ASSUME undecoded = {} PROVE BufferInStep'
            <3>1. BufferInStep
                BY <2>5
            <3>2. ASSUME NEW i \in 1 .. Len(lineBuf') PROVE lineBuf'[i] = stream'[Drained' + i]
                <4>1. CASE i <= Len(lineBuf)
                    BY <1>3, <2>2, <2>4, <3>1, <4>1 DEF BufferInStep
                <4>2. CASE i > Len(lineBuf)
                    <5>1. i - Len(lineBuf) \in 1 .. n /\ i = Len(lineBuf) + (i - Len(lineBuf))
                        BY <2>2, <4>2
                    <5>2. lineBuf'[i] = chunk[i - Len(lineBuf)]
                        BY <2>2, <5>1
                    <5>3. sent + (i - Len(lineBuf)) = Drained + i
                        BY <1>1, <2>2 DEF Drained
                    <5> QED
                        BY <1>2, <1>3, <2>4, <5>1, <5>2, <5>3
                <4> QED
                    BY <2>2, <4>1, <4>2
            <3> QED
                BY <1>1, <1>3, <2>2, <2>4, <3>1, <3>2 DEF BufferInStep
        <2>6. ASSUME undecoded = {} PROVE CountsInStep'
            BY <1>3, <2>4, <2>6 DEF CountsInStep, LinesTo
        <2> QED
            BY <1>3, <2>1, <2>3, <2>5, <2>6 DEF VerdictInStep
    <1>5. CASE ~Decodes(chunk)
        <2>1. lineBuf' = lineBuf /\ undecoded' = undecoded \cup (sent + 1 .. sent + n)
            BY <1>5 DEF Chunk, chunk
        <2>2. sent + 1 \in undecoded'
            BY <1>1, <2>1
        <2>3. RelayTypes'
            BY <1>1, <1>3, <2>1 DEF RelayTypes, Chunk
        <2> QED
            BY <1>3, <2>2, <2>3 DEF VerdictInStep
    <1> QED
        BY <1>4, <1>5

\* A line taken out of the buffer is the n pieces from one newline, or from the
\* start, to the next.
IsLineAt(line, d, n) ==
    /\ d + n <= Len(stream) /\ (d = 0 \/ stream[d].part = "tail")
    /\ \A i \in d + 1 .. d + n - 1 : stream[i].part # "tail"
    /\ Len(line) = n /\ \A i \in 1 .. n : line[i] = stream[d + i]

\* Such a line is classified as the upstream meant it.
LEMMA WholeLine ==
    ASSUME stream \in Streams, NEW d \in Nat, NEW pos \in Nat \ {0},
           NEW line \in Seq(Pieces), IsLineAt(line, d, pos)
    PROVE  Classify(line) = {stream[d + pos].kind}
    <1> USE DEF IsLineAt
    <1>1. stream \in Seq(Pieces) /\ WellFormed(stream) /\ Len(stream) \in Nat
        BY StreamShape
    <1>2. d + 1 \in DOMAIN stream /\ d + pos \in DOMAIN stream /\ d + 1 <= d + pos
        BY <1>1
    <1>3. stream[d + 1].part = "head"
        <2>1. d + 1 = 1 \/ stream[(d + 1) - 1].part = "tail"
            OBVIOUS
        <2> QED
            BY <1>1, <1>2, <2>1 DEF WellFormed
    <1>4. stream[d + 1].kind = stream[d + pos].kind
        <2> DEFINE first == d + 1
                   last == d + pos
        <2>1. /\ first \in DOMAIN stream /\ last \in DOMAIN stream /\ first <= last
              /\ \A k \in first .. last - 1 : stream[k].part # "tail"
            BY <1>2
        <2> HIDE DEF first, last
        <2>2. stream[first].kind = stream[last].kind
            BY <1>1, <2>1 DEF WellFormed
        <2> QED
            BY <2>2 DEF first, last
    <1>5. line = SubSeq(stream, d + 1, d + pos)
        <2> DEFINE sent1 == SubSeq(stream, d + 1, d + pos)
        <2>1. /\ sent1 \in Seq(Pieces) /\ Len(sent1) = pos
              /\ \A i \in 1 .. pos : sent1[i] = stream[d + i]
            BY <1>1
        <2> HIDE DEF sent1
        <2>2. \A i \in 1 .. pos : line[i] = sent1[i]
            BY <2>1
        <2> QED
            BY <2>1, <2>2, SeqEqual DEF sent1
    <1>6. Whole(line)
        <2>1. (d + 1) + Len(line) - 1 = d + pos
            OBVIOUS
        <2> QED
            BY <1>2, <1>3, <1>5, <2>1 DEF Whole
    <1>7. line[1].kind = stream[d + pos].kind
        BY <1>4
    <1> QED
        BY <1>6, <1>7 DEF Classify

\* The first line in the buffer, when every chunk decoded, is one the upstream sent:
\* it has one frame, and its newline is the next one after Drained.
LEMMA FirstLine ==
    ASSUME RelayTypes, BufferInStep, NEW pos \in Newlines,
           \A j \in Newlines : pos <= j
    PROVE  /\ Drained \in Nat /\ Drained + pos <= sent
           /\ stream[Drained + pos].part = "tail"
           /\ \A i \in Drained + 1 .. Drained + pos - 1 : stream[i].part # "tail"
           /\ Classify(SubSeq(lineBuf, 1, pos)) = {stream[Drained + pos].kind}
    <1> DEFINE d == Drained
               line == SubSeq(lineBuf, 1, pos)
    <1>1. stream \in Seq(Pieces) /\ WellFormed(stream) /\ Len(stream) \in Nat
        BY StreamShape DEF RelayTypes
    <1>2. /\ sent \in Nat /\ sent <= Len(stream)
          /\ lineBuf \in Seq(Pieces) /\ Len(lineBuf) \in Nat /\ Len(lineBuf) <= sent
        BY DEF RelayTypes, BufferInStep
    <1>3. d \in Nat /\ d + Len(lineBuf) = sent
        BY <1>2 DEF Drained
    <1>4. pos \in 1 .. Len(lineBuf) /\ lineBuf[pos].part = "tail"
        BY DEF Newlines
    <1>5. \A i \in 1 .. Len(lineBuf) : lineBuf[i] = stream[d + i]
        BY DEF BufferInStep
    <1>6. d = 0 \/ stream[d].part = "tail"
        BY DEF BufferInStep
    <1> HIDE DEF d
    <1>7. d + pos <= sent /\ stream[d + pos].part = "tail"
        BY <1>2, <1>3, <1>4, <1>5
    <1>8. ASSUME NEW i \in d + 1 .. d + pos - 1 PROVE stream[i].part # "tail"
        <2>1. i - d \in 1 .. Len(lineBuf) /\ i - d < pos /\ d + (i - d) = i
            BY <1>3, <1>4
        <2>2. i - d \notin Newlines
            BY <1>4, <2>1
        <2> QED
            BY <1>5, <2>1, <2>2 DEF Newlines
    <1>9. /\ line \in Seq(Pieces) /\ Len(line) = pos
          /\ \A i \in 1 .. pos : line[i] = lineBuf[i]
        BY <1>2, <1>4
    <1>10. \A i \in 1 .. pos : line[i] = stream[d + i]
        BY <1>4, <1>5, <1>9
    <1>11. pos \in Nat \ {0} /\ d + pos <= Len(stream)
        BY <1>1, <1>2, <1>3, <1>4, <1>7
    <1> HIDE DEF line
    <1>12. Classify(line) = {stream[d + pos].kind}
        <2>1. IsLineAt(line, d, pos)
            BY <1>6, <1>8, <1>9, <1>10, <1>11 DEF IsLineAt
        <2> QED
            BY <1>3, <1>9, <1>11, <2>1, WholeLine DEF RelayTypes
    <1> QED
        BY <1>3, <1>7, <1>8, <1>12 DEF d, line

\* DrainLine takes the pieces up to the first newline, and counts a frame.
LEMMA TakesFirstLine ==
    ASSUME RelayTypes, DrainLine
    PROVE  \E pos \in Newlines, frame \in Frames :
               /\ \A j \in Newlines : pos <= j
               /\ lineBuf' = SubSeq(lineBuf, pos + 1, Len(lineBuf))
               /\ frame \in Classify(SubSeq(lineBuf, 1, pos))
               /\ Account(frame)
    <1> DEFINE pos == FirstNewline
    <1>1. pos \in Newlines /\ \A j \in Newlines : pos <= j
        <2>1. Newlines \in SUBSET Nat /\ Newlines # {}
            BY DEF Newlines, DrainLine
        <2>2. \E i \in Newlines : \A j \in Newlines : i <= j
            BY <2>1, FirstNumber
        <2> QED
            BY <2>2 DEF FirstNewline
    <1>2. PICK frame \in Classify(SubSeq(lineBuf, 1, pos)) : Account(frame)
        BY DEF DrainLine
    <1>3. frame \in Frames
        <2>1. ASSUME NEW i \in 1 .. Len(lineBuf) PROVE lineBuf[i].kind \in Frames
            <3>1. lineBuf \in Seq(Pieces)
                BY DEF RelayTypes
            <3>2. lineBuf[i] \in Pieces
                BY <3>1
            <3> QED
                BY <3>2 DEF Pieces
        <2>2. /\ pos \in 1 .. Len(lineBuf) /\ lineBuf \in Seq(Pieces)
              /\ Len(lineBuf) \in Nat
            BY <1>1 DEF RelayTypes, Newlines
        <2> DEFINE line == SubSeq(lineBuf, 1, pos)
        <2>3. Len(line) = pos /\ \A i \in 1 .. pos : line[i] = lineBuf[i]
            BY <2>2
        <2>4. \A i \in 1 .. Len(line) : line[i].kind \in Frames
            BY <2>1, <2>2, <2>3
        <2>5. 1 \in 1 .. Len(line)
            BY <2>2, <2>3
        <2> QED
            BY <1>2, <2>4, <2>5 DEF Classify, Frames
    <1> QED
        BY <1>1, <1>2, <1>3 DEF DrainLine

\* Taking the line out moves Drained to its newline and counts its frame.
LEMMA DrainLineInStep ==
    ASSUME RelayIInv, DrainLine
    PROVE  RelayIInv'
    <1> USE DEF RelayIInv
    <1>1. PICK pos \in Newlines, frame \in Frames :
              /\ \A j \in Newlines : pos <= j
              /\ lineBuf' = SubSeq(lineBuf, pos + 1, Len(lineBuf))
              /\ frame \in Classify(SubSeq(lineBuf, 1, pos))
              /\ Account(frame)
        BY TakesFirstLine
    <1>2. /\ stream' = stream /\ success' = success /\ sent' = sent
          /\ undecoded' = undecoded /\ state' = state /\ recorded' = recorded
          /\ state = "relaying"
        BY <1>1 DEF Account, DrainLine
    <1>3. /\ lineBuf \in Seq(Pieces) /\ Len(lineBuf) \in Nat
          /\ pos \in 1 .. Len(lineBuf)
        BY <1>1 DEF RelayTypes, Newlines
    <1>4. /\ lineBuf' \in Seq(Pieces) /\ Len(lineBuf') = Len(lineBuf) - pos
          /\ \A i \in 1 .. Len(lineBuf') : lineBuf'[i] = lineBuf[pos + i]
        BY <1>1, <1>3
    <1>5. RelayTypes'
        BY <1>1, <1>2, <1>4 DEF RelayTypes, Account
    <1>6. ASSUME undecoded = {} PROVE BufferInStep' /\ CountsInStep'
        <2>1. BufferInStep /\ CountsInStep
            BY <1>6
        <2>2. /\ Drained \in Nat /\ Drained + pos <= sent /\ sent \in Nat
              /\ stream[Drained + pos].part = "tail"
              /\ \A i \in Drained + 1 .. Drained + pos - 1 : stream[i].part # "tail"
              /\ frame = stream[Drained + pos].kind
            BY <1>1, <2>1, FirstLine DEF RelayTypes
        <2>3. Drained' = Drained + pos
            BY <1>2, <1>3, <1>4, <2>2 DEF Drained
        <2>4. BufferInStep'
            <3>1. ASSUME NEW i \in 1 .. Len(lineBuf')
                  PROVE  lineBuf'[i] = stream'[Drained' + i]
                <4>1. pos + i \in 1 .. Len(lineBuf) /\ Drained + (pos + i) = Drained' + i
                    BY <1>3, <1>4, <2>2, <2>3
                <4> QED
                    BY <1>2, <1>4, <2>1, <4>1 DEF BufferInStep
            <3>2. Len(lineBuf') <= sent'
                BY <1>2, <1>3, <1>4, <2>1, <2>2 DEF BufferInStep
            <3> QED
                BY <1>2, <2>2, <2>3, <3>1, <3>2 DEF BufferInStep
        <2>5. \A n, kind : LinesTo(n, kind)' = LinesTo(n, kind)
            BY <1>2 DEF LinesTo
        <2> DEFINE n == Drained + pos
        <2>6. /\ n \in Nat /\ Drained < n /\ stream[n].part = "tail"
              /\ \A i \in Drained + 1 .. n - 1 : stream[i].part # "tail"
              /\ frame = stream[n].kind
            BY <1>3, <2>2
        <2> HIDE DEF n
        <2>7. \A kind : Cardinality(LinesTo(n, kind)) =
                  Cardinality(LinesTo(Drained, kind)) + (IF frame = kind THEN 1 ELSE 0)
            <3>1. ASSUME NEW kind
                  PROVE  Cardinality(LinesTo(n, kind)) =
                             Cardinality(LinesTo(Drained, kind))
                             + (IF stream[n].kind = kind THEN 1 ELSE 0)
                BY <2>2, <2>6, OneMoreCounts
            <3> QED
                BY <2>6, <3>1
        <2>8. /\ frame = "error" =>
                     LinesTo(n, "error") = LinesTo(Drained, "error") \cup {n}
              /\ frame # "error" =>
                     LinesTo(n, "error") = LinesTo(Drained, "error")
            <3>1. /\ stream[n].kind = "error" => LinesTo(n, "error") =
                         LinesTo(Drained, "error") \cup {n}
                  /\ stream[n].kind # "error" =>
                         LinesTo(n, "error") = LinesTo(Drained, "error")
                BY <2>2, <2>6, OneMoreLine
            <3> QED
                BY <2>6, <3>1
        <2>9. /\ contentTokens' = Cardinality(LinesTo(n, "content"))
              /\ learned' = Cardinality(LinesTo(n, "usage"))
            BY <1>1, <2>1, <2>7 DEF Account, CountsInStep
        <2>10. sawErrorFrame' <=> LinesTo(n, "error") # {}
            BY <1>1, <2>1, <2>8 DEF Account, CountsInStep
        <2>11. CountsInStep'
            BY <1>2, <2>3, <2>9, <2>10 DEF CountsInStep, LinesTo, n
        <2> QED
            BY <2>4, <2>11
    <1> QED
        BY <1>2, <1>5, <1>6 DEF VerdictInStep

\* The other steps leave the buffer and the counts alone.
LEMMA EndInStep ==
    ASSUME RelayIInv, BodyOver \/ DropBody
    PROVE  RelayIInv'
    <1> USE DEF RelayIInv
    <1>1. UNCHANGED <<stream, success, sent, lineBuf, contentTokens, learned,
                      sawErrorFrame, undecoded>>
        BY DEF BodyOver, DropBody
    <1>2. RelayTypes'
        BY <1>1 DEF RelayTypes, BodyOver, DropBody
    <1>3. undecoded' = {} => BufferInStep' /\ CountsInStep'
        BY <1>1 DEF BufferInStep, CountsInStep, Drained, LinesTo
    <1>4. Newlines' = Newlines
        BY <1>1 DEF Newlines
    <1>5. VerdictInStep'
        BY <1>1, <1>4 DEF VerdictInStep, BodyOver, DropBody
    <1> QED
        BY <1>2, <1>3, <1>5

THEOREM RelayStaysInStep == RelaySpec => []RelayIInv
    <1>1. RelayInit => RelayIInv
        BY InitInStep
    <1>2. RelayIInv /\ [RelayNext]_relayVars => RelayIInv'
        <2> SUFFICES ASSUME RelayIInv, [RelayNext]_relayVars PROVE RelayIInv'
            OBVIOUS
        <2>1. CASE \E n \in 1 .. Len(stream) : Chunk(n)
            BY <2>1, ChunkInStep
        <2>2. CASE DrainLine
            BY <2>2, DrainLineInStep
        <2>3. CASE BodyOver \/ DropBody
            BY <2>3, EndInStep
        <2>4. CASE UNCHANGED relayVars
            BY <2>4 DEF relayVars, RelayIInv, RelayTypes, BufferInStep, CountsInStep,
                VerdictInStep, Drained, LinesTo, Newlines
        <2> QED
            BY <2>1, <2>2, <2>3, <2>4 DEF RelayNext
    <1> QED
        BY <1>1, <1>2, PTL DEF RelaySpec

\* With no newline in the buffer, the lines relayed are those up to Drained.
LEMMA NothingPending ==
    ASSUME RelayTypes, BufferInStep, Newlines = {}, NEW kind
    PROVE  RelayedOf(kind) = LinesTo(Drained, kind)
    <1>1. sent \in Nat /\ Len(lineBuf) \in Nat /\ Len(lineBuf) <= sent
        BY DEF RelayTypes, BufferInStep
    <1>2. Drained \in Nat /\ Drained <= sent /\ Drained + Len(lineBuf) = sent
        BY <1>1 DEF Drained
    <1>3. ASSUME NEW i \in Drained + 1 .. sent PROVE stream[i].part # "tail"
        <2>1. i - Drained \in 1 .. Len(lineBuf) /\ Drained + (i - Drained) = i
            BY <1>1, <1>2
        <2> QED
            BY <2>1 DEF BufferInStep, Newlines
    <1>4. 1 .. sent = (1 .. Drained) \cup (Drained + 1 .. sent)
        BY <1>1, <1>2
    <1> QED
        BY <1>3, <1>4 DEF RelayedOf, Relayed, LinesTo

\* What the router makes of a body whose chunks decode does not depend on the
\* chunks: the counts and the error flag are those of the lines that passed.
THEOREM RelayChunkingInvisible == RelaySpec => []ChunkingInvisible
    <1>1. RelayIInv => ChunkingInvisible
        <2> SUFFICES ASSUME RelayIInv, undecoded = {}, Newlines = {}
                     PROVE  ChunkingInvisible
            BY DEF ChunkingInvisible
        <2>1. RelayTypes /\ BufferInStep /\ CountsInStep
            BY DEF RelayIInv
        <2>2. \A kind : RelayedOf(kind) = LinesTo(Drained, kind)
            BY <2>1, NothingPending
        <2> QED
            BY <2>1, <2>2 DEF ChunkingInvisible, CountsInStep
    <1> QED
        BY <1>1, RelayStaysInStep, PTL

\* The verdict on such a body is the upstream's own.
THEOREM RelayVerdictFollowsStream == RelaySpec => []VerdictFollowsStream
    <1>1. RelayIInv => VerdictFollowsStream
        <2> SUFFICES ASSUME RelayIInv, state = "dropped", undecoded = {}
                     PROVE  VerdictFollowsStream
            BY DEF VerdictFollowsStream
        <2>1. RelayTypes /\ BufferInStep /\ CountsInStep /\ VerdictInStep
            BY DEF RelayIInv
        <2>2. RelayedOf("error") = LinesTo(Drained, "error")
            BY <2>1, NothingPending DEF VerdictInStep
        <2> QED
            BY <2>1, <2>2 DEF VerdictFollowsStream, VerdictInStep, CountsInStep
    <1> QED
        BY <1>1, RelayStaysInStep, PTL

-----------------------------------------------------------------------------
(***************************************************************************)
(* What a chunk that does not decode costs.  The pieces in the buffer are  *)
(* those after position q, the newline of the last line taken out, that    *)
(* decoded, at the increasing positions pos.                               *)
(***************************************************************************)

\* The newlines up to n, and the lines that lost pieces up to n.
TailsTo(n) == {i \in 1 .. n : stream[i].part = "tail"}
DamagedTo(n) == {stream[i].line : i \in {u \in undecoded : u <= n}}

Place(q, pos) ==
    /\ q \in Nat /\ q <= sent /\ (q = 0 \/ stream[q].part = "tail")
    /\ pos \in [1 .. Len(lineBuf) -> Nat]
    /\ \A i \in 1 .. Len(lineBuf) :
           /\ q < pos[i] /\ pos[i] <= sent /\ pos[i] \notin undecoded
           /\ lineBuf[i] = stream[pos[i]]
    /\ \A i, j \in 1 .. Len(lineBuf) : i < j => pos[i] < pos[j]
    /\ \A p \in q + 1 .. sent :
           p \in undecoded \/ \E i \in 1 .. Len(lineBuf) : pos[i] = p

\* What has been counted, against the lines that ended up to q.
Tally(q) ==
    /\ contentTokens <= Cardinality(TailsTo(q)) /\ learned <= Cardinality(TailsTo(q))
    /\ contentTokens <= Cardinality(LinesTo(q, "content")) + 2 * Cardinality(DamagedTo(q))
    /\ Cardinality(LinesTo(q, "content")) <= contentTokens + 2 * Cardinality(DamagedTo(q))

LossOK == \E q, pos : Place(q, pos) /\ Tally(q)

\* The newlines after q, up to n, that were in refused chunks.
LostTails(q, n) == {i \in q + 1 .. n : stream[i].part = "tail" /\ i \in undecoded}

LEMMA Counts ==
    ASSUME RelayTypes, NEW q \in Nat, NEW n \in Nat
    PROVE  /\ IsFiniteSet(TailsTo(q)) /\ Cardinality(TailsTo(q)) \in Nat
           /\ IsFiniteSet(LinesTo(q, "content")) /\ Cardinality(LinesTo(q, "content")) \in Nat
           /\ IsFiniteSet(DamagedTo(q)) /\ Cardinality(DamagedTo(q)) \in Nat
           /\ IsFiniteSet(LostTails(q, n)) /\ Cardinality(LostTails(q, n)) \in Nat
    <1>1. IsFiniteSet(1 .. q) /\ IsFiniteSet(q + 1 .. n)
        BY FS_Interval
    <1>2. TailsTo(q) \subseteq 1 .. q /\ LostTails(q, n) \subseteq q + 1 .. n
        BY DEF TailsTo, LostTails
    <1>3. IsFiniteSet(TailsTo(q)) /\ IsFiniteSet(LostTails(q, n))
        BY <1>1, <1>2, FS_Subset
    <1>4. IsFiniteSet(DamagedTo(q))
        <2> DEFINE U == {u \in undecoded : u <= q}
                   f == [u \in U |-> stream[u].line]
        <2>1. U \subseteq 1 .. sent /\ sent \in Nat
            BY DEF RelayTypes
        <2>2. IsFiniteSet(1 .. sent)
            BY <2>1, FS_Interval
        <2>3. IsFiniteSet(U)
            BY <2>1, <2>2, FS_Subset
        <2>4. f \in Surjection(U, DamagedTo(q))
            BY DEF DamagedTo, Surjection
        <2> HIDE DEF U, f
        <2> QED
            BY <2>3, <2>4, FS_Surjection
    <1> QED
        BY <1>3, <1>4, LinesFinite, FS_CardinalityType

\* A line ends with its newline: no piece up to a newline is of the line of a
\* piece after it.
LEMMA NewlineSeparates ==
    ASSUME stream \in Streams, NEW m \in DOMAIN stream, stream[m].part = "tail",
           NEW u \in DOMAIN stream, u <= m, NEW v \in DOMAIN stream, m < v
    PROVE  stream[u].line # stream[v].line
    <1>1. stream \in Seq(Pieces) /\ WellFormed(stream) /\ DOMAIN stream \subseteq Nat
          /\ DOMAIN stream = 1 .. Len(stream)
        BY StreamShape
    <1> DEFINE T == {i \in DOMAIN stream : u <= i /\ stream[i].part = "tail"}
    <1>2. m \in T /\ T \in SUBSET Nat
        BY <1>1
    <1>3. PICK t \in T : \A j \in T : t <= j
        <2> HIDE DEF T
        <2> QED
            BY <1>2, FirstNumber
    <1>4. t \in DOMAIN stream /\ u <= t /\ t <= m /\ stream[t].part = "tail"
        BY <1>2, <1>3
    <1>5. \A k \in u .. t - 1 : stream[k].part # "tail"
        BY <1>1, <1>3, <1>4
    <1>6. stream[u].line = stream[t].line
        BY <1>1, <1>4, <1>5 DEF WellFormed
    <1>7. t < v
        BY <1>1, <1>4
    <1>8. stream[t].line # stream[v].line
        BY <1>1, <1>4, <1>7 DEF WellFormed
    <1> QED
        BY <1>6, <1>8

\* Every newline lost after q is of a damaged line of its own, and so is any other
\* piece lost.
LEMMA DamageGrows ==
    ASSUME RelayTypes, NEW q \in Nat, NEW n \in Nat, q <= n, n <= sent,
           q = 0 \/ stream[q].part = "tail"
    PROVE  /\ Cardinality(DamagedTo(n)) >= Cardinality(DamagedTo(q)) + Cardinality(LostTails(q, n))
           /\ (\E u \in undecoded : q < u /\ u <= n) =>
                  Cardinality(DamagedTo(n)) >= Cardinality(DamagedTo(q)) + 1
    <1> DEFINE D == {stream[i].line : i \in {u \in undecoded : q < u /\ u <= n}}
               A == DamagedTo(q)
               L == LostTails(q, n)
    <1>0. /\ stream \in Seq(Pieces) /\ WellFormed(stream) /\ Len(stream) \in Nat
          /\ DOMAIN stream = 1 .. Len(stream)
          /\ sent \in Nat /\ sent <= Len(stream) /\ undecoded \subseteq 1 .. sent
        BY StreamShape DEF RelayTypes
    <1>1. DamagedTo(n) = A \cup D
        BY <1>0 DEF DamagedTo
    <1>2. A \cap D = {}
        <2> SUFFICES ASSUME NEW u \in undecoded, u <= q,
                            NEW v \in undecoded, q < v, v <= n
                     PROVE  stream[u].line # stream[v].line
            BY DEF DamagedTo
        <2>1. u \in DOMAIN stream /\ v \in DOMAIN stream /\ q \in DOMAIN stream
            BY <1>0
        <2>2. stream[q].part = "tail" /\ stream \in Streams
            BY <1>0 DEF RelayTypes
        <2> QED
            BY <2>1, <2>2, NewlineSeparates
    <1>3. /\ IsFiniteSet(DamagedTo(n)) /\ IsFiniteSet(A) /\ IsFiniteSet(L)
          /\ Cardinality(A) \in Nat /\ Cardinality(L) \in Nat
        BY Counts
    <1>4. IsFiniteSet(D)
        BY <1>1, <1>3, FS_Subset
    <1>5. Cardinality(DamagedTo(n)) = Cardinality(A) + Cardinality(D) /\ Cardinality(D) \in Nat
        <2> HIDE DEF A, D
        <2>1. Cardinality(A \cup D) = Cardinality(A) + Cardinality(D) - Cardinality(A \cap D)
            BY <1>3, <1>4, FS_Union
        <2>2. Cardinality(A \cap D) = 0
            BY <1>2, FS_EmptySet
        <2>3. Cardinality(D) \in Nat
            BY <1>4, FS_CardinalityType
        <2> QED
            BY <1>1, <1>3, <2>1, <2>2, <2>3
    <1>6. Cardinality(L) <= Cardinality(D)
        <2> DEFINE f == [i \in L |-> stream[i].line]
        <2>1. \A i \in L : stream[i].line \in D
            BY <1>0 DEF LostTails
        <2>2. \A i, j \in L : stream[i].line = stream[j].line => i = j
            <3> SUFFICES ASSUME NEW i \in L, NEW j \in L, i < j
                         PROVE  stream[i].line # stream[j].line
                BY <1>0 DEF LostTails
            <3>1. i \in DOMAIN stream /\ j \in DOMAIN stream /\ stream[i].part = "tail"
                BY <1>0 DEF LostTails
            <3> QED
                BY <1>0, <3>1 DEF WellFormed
        <2> HIDE DEF L, D
        <2>3. f \in Injection(L, D)
            BY <2>1, <2>2 DEF Injection, IsInjective
        <2> HIDE DEF f
        <2> QED
            BY <1>4, <2>3, FS_Injection
    <1>7. (\E u \in undecoded : q < u /\ u <= n) => Cardinality(D) >= 1
        <2> SUFFICES ASSUME NEW u \in undecoded, q < u, u <= n
                     PROVE  Cardinality(D) >= 1
            OBVIOUS
        <2>1. D # {}
            OBVIOUS
        <2> HIDE DEF D
        <2>2. Cardinality(D) # 0
            BY <1>4, <2>1, FS_EmptySet
        <2> QED
            BY <1>5, <2>2
    <1> HIDE DEF A, D, L
    <1> QED
        BY <1>3, <1>5, <1>6, <1>7 DEF A, L

\* When the newlines after q, before n or up to it, were all lost, the lines of a
\* kind that ended up to n are those up to q and at most these.
LEMMA FewLines ==
    ASSUME RelayTypes, NEW q \in Nat, NEW n \in Nat, q <= n, n <= sent
    PROVE  /\ Cardinality(LinesTo(q, "content")) <= Cardinality(LinesTo(n, "content"))
           /\ (\A i \in q + 1 .. n : stream[i].part = "tail" => i \in undecoded) =>
                  Cardinality(LinesTo(n, "content")) <=
                      Cardinality(LinesTo(q, "content")) + Cardinality(LostTails(q, n))
           /\ (\A i \in q + 1 .. n - 1 : stream[i].part = "tail" => i \in undecoded) =>
                  Cardinality(LinesTo(n, "content")) <=
                      Cardinality(LinesTo(q, "content")) + Cardinality(LostTails(q, n)) + 1
    <1> DEFINE A == LinesTo(q, "content")
               B == LinesTo(n, "content")
               L == LostTails(q, n)
    <1>1. /\ IsFiniteSet(A) /\ IsFiniteSet(B) /\ IsFiniteSet(L)
          /\ Cardinality(A) \in Nat /\ Cardinality(B) \in Nat /\ Cardinality(L) \in Nat
        BY Counts
    <1>2. A \subseteq B
        BY DEF LinesTo
    <1>3. (\A i \in q + 1 .. n : stream[i].part = "tail" => i \in undecoded) => B \subseteq A \cup L
        BY DEF LinesTo, LostTails
    <1>4. (\A i \in q + 1 .. n - 1 : stream[i].part = "tail" => i \in undecoded)
              => B \subseteq (A \cup L) \cup {n}
        BY DEF LinesTo, LostTails
    <1> HIDE DEF A, B, L
    <1>5. IsFiniteSet(A \cup L) /\ Cardinality(A \cup L) <= Cardinality(A) + Cardinality(L)
          /\ Cardinality(A \cup L) \in Nat
        <2>1. /\ IsFiniteSet(A \cup L)
              /\ Cardinality(A \cup L) = Cardinality(A) + Cardinality(L) - Cardinality(A \cap L)
            BY <1>1, FS_Union
        <2>2. Cardinality(A \cap L) \in Nat
            BY <1>1, FS_Intersection, FS_CardinalityType
        <2>3. Cardinality(A \cup L) \in Nat
            BY <2>1, FS_CardinalityType
        <2> QED
            BY <1>1, <2>1, <2>2, <2>3
    <1>6. IsFiniteSet((A \cup L) \cup {n}) /\ Cardinality((A \cup L) \cup {n}) <= Cardinality(A \cup L) + 1
          /\ Cardinality((A \cup L) \cup {n}) \in Nat
        <2>1. /\ IsFiniteSet((A \cup L) \cup {n})
              /\ Cardinality((A \cup L) \cup {n}) =
                     IF n \in A \cup L THEN Cardinality(A \cup L) ELSE Cardinality(A \cup L) + 1
            BY <1>5, FS_AddElement
        <2> QED
            BY <1>5, <2>1
    <1>7. Cardinality(A) <= Cardinality(B)
        BY <1>1, <1>2, FS_Subset
    <1>8. B \subseteq A \cup L => Cardinality(B) <= Cardinality(A) + Cardinality(L)
        <2> HAVE B \subseteq A \cup L
        <2>1. Cardinality(B) <= Cardinality(A \cup L)
            BY <1>5, FS_Subset
        <2> QED
            BY <1>1, <1>5, <2>1
    <1>9. B \subseteq (A \cup L) \cup {n} => Cardinality(B) <= Cardinality(A) + Cardinality(L) + 1
        <2> HAVE B \subseteq (A \cup L) \cup {n}
        <2>1. Cardinality(B) <= Cardinality((A \cup L) \cup {n})
            BY <1>6, FS_Subset
        <2> QED
            BY <1>1, <1>5, <1>6, <2>1
    <1> QED
        BY <1>3, <1>4, <1>7, <1>8, <1>9 DEF A, B, L

LEMMA MoreTails ==
    ASSUME RelayTypes, NEW q \in Nat, NEW n \in Nat, q < n, stream[n].part = "tail"
    PROVE  Cardinality(TailsTo(n)) >= Cardinality(TailsTo(q)) + 1
    <1>1. /\ IsFiniteSet(TailsTo(q)) /\ IsFiniteSet(TailsTo(n))
          /\ Cardinality(TailsTo(q)) \in Nat /\ Cardinality(TailsTo(n)) \in Nat
        BY Counts
    <1>2. TailsTo(q) \cup {n} \subseteq TailsTo(n) /\ n \notin TailsTo(q)
        BY DEF TailsTo
    <1>3. Cardinality(TailsTo(q) \cup {n}) = Cardinality(TailsTo(q)) + 1
        BY <1>1, <1>2, FS_AddElement
    <1>4. Cardinality(TailsTo(q) \cup {n}) <= Cardinality(TailsTo(n))
        BY <1>1, <1>2, FS_Subset
    <1> QED
        BY <1>1, <1>3, <1>4

LEMMA InitLoss == RelayInit => LossOK
    <1> SUFFICES ASSUME RelayInit PROVE LossOK
        OBVIOUS
    <1>0. RelayTypes
        BY InitInStep DEF RelayIInv
    <1> DEFINE none == [i \in 1 .. 0 |-> 0]
    <1>1. Place(0, none)
        BY DEF RelayInit, Place
    <1>2. Tally(0)
        <2>1. TailsTo(0) = {} /\ LinesTo(0, "content") = {}
            BY DEF TailsTo, LinesTo
        <2>2. Cardinality(DamagedTo(0)) \in Nat
            BY <1>0, Counts
        <2>3. Cardinality(TailsTo(0)) = 0 /\ Cardinality(LinesTo(0, "content")) = 0
            BY <2>1, FS_EmptySet
        <2> QED
            BY <2>2, <2>3 DEF RelayInit, Tally
    <1> QED
        BY <1>1, <1>2 DEF LossOK

\* Increasing positions after q that leave out none are consecutive.
IncreasingAfter(q, pos, f) ==
    /\ \A i, j \in 1 .. f : i < j => pos[i] < pos[j]
    /\ \A i \in 1 .. f : q < pos[i]
    /\ \A p \in Nat : q < p /\ (\E i \in 1 .. f : p <= pos[i]) => \E i \in 1 .. f : pos[i] = p

LEMMA Consecutive ==
    ASSUME NEW q \in Nat, NEW f \in Nat, NEW pos \in [1 .. f -> Nat],
           IncreasingAfter(q, pos, f)
    PROVE  \A i \in 1 .. f : pos[i] = q + i
    <1> USE DEF IncreasingAfter
    <1> DEFINE W == {i \in 1 .. f : pos[i] # q + i}
    <1> SUFFICES ASSUME W # {} PROVE FALSE
        OBVIOUS
    <1>1. W \in SUBSET Nat
        OBVIOUS
    <1>2. PICK i \in W : \A j \in W : i <= j
        <2> HIDE DEF W
        <2> QED
            BY <1>1, FirstNumber
    <1>3. i \in 1 .. f /\ pos[i] # q + i /\ pos[i] \in Nat
        OBVIOUS
    <1>4. \A j \in 1 .. i - 1 : pos[j] = q + j
        BY <1>2, <1>3
    <1>5. pos[i] > q + i
        <2>1. CASE i = 1
            BY <1>3, <2>1
        <2>2. CASE i # 1
            <3>1. i - 1 \in 1 .. i - 1 /\ i - 1 \in 1 .. f /\ i - 1 < i
                BY <1>3, <2>2
            <3>2. pos[i - 1] < pos[i] /\ pos[i - 1] = q + (i - 1)
                BY <1>3, <1>4, <3>1
            <3> QED
                BY <1>3, <3>2
        <2> QED
            BY <2>1, <2>2
    <1>6. PICK j \in 1 .. f : pos[j] = q + i
        <2>1. q + i \in Nat /\ q < q + i /\ q + i <= pos[i]
            BY <1>3, <1>5
        <2> QED
            BY <1>3, <2>1
    <1>7. ~(j < i)
        BY <1>3, <1>4, <1>6
    <1>8. ~(i < j)
        BY <1>3, <1>5, <1>6
    <1> QED
        BY <1>3, <1>5, <1>6, <1>7, <1>8

LEMMA ChunkLoss ==
    ASSUME RelayTypes, LossOK, NEW n \in 1 .. Len(stream), Chunk(n)
    PROVE  LossOK'
    <1>0. PICK q, pos : Place(q, pos) /\ Tally(q)
        BY DEF LossOK
    <1> DEFINE chunk == SubSeq(stream, sent + 1, sent + n)
    <1>1. /\ stream \in Seq(Pieces) /\ sent \in Nat /\ n \in Nat /\ sent + n <= Len(stream)
          /\ lineBuf \in Seq(Pieces) /\ Len(lineBuf) \in Nat /\ undecoded \subseteq 1 .. sent
        BY StreamShape DEF RelayTypes, Chunk
    <1>2. /\ chunk \in Seq(Pieces) /\ Len(chunk) = n
          /\ \A i \in 1 .. n : chunk[i] = stream[sent + i]
        BY <1>1
    <1> HIDE DEF chunk
    <1>3. /\ stream' = stream /\ sent' = sent + n
          /\ contentTokens' = contentTokens /\ learned' = learned
        BY DEF Chunk
    <1>4. /\ q \in Nat /\ q <= sent /\ (q = 0 \/ stream[q].part = "tail")
          /\ pos \in [1 .. Len(lineBuf) -> Nat]
          /\ \A i \in 1 .. Len(lineBuf) :
                 /\ q < pos[i] /\ pos[i] <= sent /\ pos[i] \notin undecoded
                 /\ lineBuf[i] = stream[pos[i]]
          /\ \A i, j \in 1 .. Len(lineBuf) : i < j => pos[i] < pos[j]
          /\ \A p \in q + 1 .. sent :
                 p \in undecoded \/ \E i \in 1 .. Len(lineBuf) : pos[i] = p
        BY <1>0 DEF Place
    <1>5. CASE Decodes(chunk)
        <2>1. lineBuf' = lineBuf \o chunk /\ undecoded' = undecoded
            BY <1>5 DEF Chunk, chunk
        <2>2. PICK k, m \in Nat : k = sent /\ m = Len(lineBuf)
            BY <1>1
        <2>3. /\ Len(lineBuf') = m + n
              /\ \A i \in 1 .. m : lineBuf'[i] = lineBuf[i]
              /\ \A i \in 1 .. n : lineBuf'[m + i] = stream[k + i]
            <3>1. Len(lineBuf') = m + n
                BY <1>1, <1>2, <2>1, <2>2, ConcatProperties
            <3>2. ASSUME NEW i \in 1 .. m PROVE lineBuf'[i] = lineBuf[i]
                BY <1>1, <1>2, <2>1, <2>2, ConcatProperties
            <3>3. ASSUME NEW i \in 1 .. n PROVE lineBuf'[m + i] = stream[k + i]
                BY <1>1, <1>2, <2>1, <2>2, ConcatProperties
            <3> QED
                BY <3>1, <3>2, <3>3
        <2> DEFINE new == [i \in 1 .. m + n |-> IF i <= m THEN pos[i] ELSE k + (i - m)]
        <2>4. \A i \in 1 .. m : new[i] = pos[i] /\ pos[i] \in Nat
            BY <1>4, <2>2
        <2>5. \A i \in m + 1 .. m + n :
                  /\ i - m \in 1 .. n /\ new[i] = k + (i - m) /\ new[i] \in Nat
                  /\ lineBuf'[i] = stream[new[i]]
            <3> TAKE i \in m + 1 .. m + n
            <3>1. i - m \in 1 .. n /\ i = m + (i - m) /\ new[i] = k + (i - m)
                BY <1>1, <2>2
            <3>2. lineBuf'[m + (i - m)] = stream[k + (i - m)]
                BY <2>3, <3>1
            <3> QED
                BY <2>2, <3>1, <3>2
        <2>6. new \in [1 .. m + n -> Nat]
            <3>1. \A i \in 1 .. m + n : new[i] \in Nat
                <4> TAKE i \in 1 .. m + n
                <4>1. i \in 1 .. m \/ i \in m + 1 .. m + n
                    BY <2>2
                <4> HIDE DEF new
                <4> QED
                    BY <2>4, <2>5, <4>1
            <3> QED
                BY <3>1
        <2>7. \A i \in 1 .. m + n : i \in 1 .. m \/ i \in m + 1 .. m + n
            BY <2>2
        <2> HIDE DEF new
        <2>8. ASSUME NEW i \in 1 .. m + n
              PROVE  /\ q < new[i] /\ new[i] <= k + n /\ new[i] \notin undecoded
                     /\ lineBuf'[i] = stream[new[i]]
            <3>1. CASE i \in 1 .. m
                BY <1>1, <1>4, <2>2, <2>3, <2>4, <3>1
            <3>2. CASE i \in m + 1 .. m + n
                BY <1>1, <1>4, <2>2, <2>5, <3>2
            <3> QED
                BY <2>7, <3>1, <3>2
        <2>9. ASSUME NEW i \in 1 .. m + n, NEW j \in 1 .. m + n, i < j
              PROVE  new[i] < new[j]
            <3>1. CASE i \in 1 .. m /\ j \in 1 .. m
                BY <1>4, <2>2, <2>4, <2>9, <3>1
            <3>2. CASE i \in 1 .. m /\ j \in m + 1 .. m + n
                BY <1>1, <1>4, <2>2, <2>4, <2>5, <3>2
            <3>3. CASE i \in m + 1 .. m + n
                <4>1. j \in m + 1 .. m + n
                    BY <2>2, <2>9, <3>3
                <4> QED
                    BY <2>2, <2>5, <2>9, <3>3, <4>1
            <3> QED
                BY <2>7, <3>1, <3>2, <3>3
        <2>10. ASSUME NEW p \in q + 1 .. k + n
               PROVE  p \in undecoded \/ \E i \in 1 .. m + n : new[i] = p
            <3>1. CASE p <= k
                <4>1. p \in q + 1 .. sent
                    BY <1>4, <2>2, <3>1
                <4>2. p \in undecoded \/ \E i \in 1 .. m : pos[i] = p
                    BY <1>4, <2>2, <4>1
                <4> QED
                    BY <2>2, <2>4, <4>2
            <3>2. CASE ~(p <= k)
                <4>1. m + (p - k) \in m + 1 .. m + n /\ m + (p - k) \in 1 .. m + n
                    BY <1>4, <2>2, <3>2
                <4>2. new[m + (p - k)] = p
                    BY <1>4, <2>2, <2>5, <4>1
                <4> QED
                    BY <4>1, <4>2
            <3> QED
                BY <3>1, <3>2
        <2>11. Place(q, new)'
            BY <1>1, <1>3, <1>4, <2>1, <2>2, <2>3, <2>6, <2>8, <2>9, <2>10 DEF Place
        <2>12. Tally(q)'
            BY <1>0, <1>3, <2>1 DEF Tally, TailsTo, LinesTo, DamagedTo
        <2> QED
            BY <2>11, <2>12 DEF LossOK
    <1>6. CASE ~Decodes(chunk)
        <2>1. lineBuf' = lineBuf /\ undecoded' = undecoded \cup (sent + 1 .. sent + n)
            BY <1>6 DEF Chunk, chunk
        <2>2. ASSUME NEW i \in 1 .. Len(lineBuf)
              PROVE  pos[i] <= sent + n /\ pos[i] \notin undecoded'
            BY <1>1, <1>4, <2>1
        <2>3. ASSUME NEW p \in q + 1 .. sent + n
              PROVE  p \in undecoded' \/ \E i \in 1 .. Len(lineBuf) : pos[i] = p
            <3>1. p \in q + 1 .. sent \/ p \in sent + 1 .. sent + n
                BY <1>1, <1>4
            <3> QED
                BY <1>4, <2>1, <3>1
        <2>4. Place(q, pos)'
            BY <1>1, <1>3, <1>4, <2>1, <2>2, <2>3 DEF Place
        <2>5. DamagedTo(q)' = DamagedTo(q)
            <3>1. {u \in undecoded' : u <= q} = {u \in undecoded : u <= q}
                BY <1>1, <1>4, <2>1
            <3> QED
                BY <1>3, <3>1 DEF DamagedTo
        <2>6. Tally(q)'
            BY <1>0, <1>3, <2>5 DEF Tally, TailsTo, LinesTo
        <2> QED
            BY <2>4, <2>6 DEF LossOK
    <1> QED
        BY <1>5, <1>6

LEMMA DrainLoss ==
    ASSUME RelayTypes, LossOK, DrainLine
    PROVE  LossOK'
    <1>0. PICK q, pos : Place(q, pos) /\ Tally(q)
        BY DEF LossOK
    <1>1. PICK f \in Newlines, frame \in Frames :
              /\ \A j \in Newlines : f <= j
              /\ lineBuf' = SubSeq(lineBuf, f + 1, Len(lineBuf))
              /\ frame \in Classify(SubSeq(lineBuf, 1, f))
              /\ Account(frame)
        BY TakesFirstLine
    <1>2. PICK m \in Nat : m = Len(lineBuf)
        BY DEF RelayTypes
    <1>3. /\ stream \in Seq(Pieces) /\ sent \in Nat /\ sent <= Len(stream) /\ Len(stream) \in Nat
          /\ lineBuf \in Seq(Pieces) /\ undecoded \subseteq 1 .. sent
          /\ contentTokens \in Nat /\ learned \in Nat
        BY StreamShape DEF RelayTypes
    <1>4. /\ q \in Nat /\ q <= sent /\ (q = 0 \/ stream[q].part = "tail")
          /\ pos \in [1 .. m -> Nat]
          /\ \A i \in 1 .. m :
                 /\ q < pos[i] /\ pos[i] <= sent /\ pos[i] \notin undecoded
                 /\ lineBuf[i] = stream[pos[i]]
          /\ \A i, j \in 1 .. m : i < j => pos[i] < pos[j]
          /\ \A p \in q + 1 .. sent :
                 p \in undecoded \/ \E i \in 1 .. m : pos[i] = p
        BY <1>0, <1>2 DEF Place
    <1>5. f \in 1 .. m /\ lineBuf[f].part = "tail" /\ \A i \in 1 .. f - 1 : lineBuf[i].part # "tail"
        <2>1. Newlines = {i \in 1 .. m : lineBuf[i].part = "tail"}
            BY <1>2 DEF Newlines
        <2> QED
            BY <1>1, <1>2, <2>1
    <1>6. PICK n \in Nat :
              /\ n = pos[f] /\ q < n /\ n <= sent /\ n \notin undecoded
              /\ stream[n].part = "tail"
        BY <1>4, <1>5
    <1> DEFINE new == [i \in 1 .. m - f |-> pos[f + i]]
    <1>7. /\ stream' = stream /\ sent' = sent /\ undecoded' = undecoded
          /\ contentTokens' = contentTokens + (IF frame = "content" THEN 1 ELSE 0)
          /\ learned' = learned + (IF frame = "usage" THEN 1 ELSE 0)
        BY <1>1 DEF Account
    <1>8. /\ Len(lineBuf') = m - f
          /\ \A i \in 1 .. m - f : lineBuf'[i] = lineBuf[f + i]
        BY <1>1, <1>2, <1>3, <1>5
    \* A piece between q and n that decoded is in the buffer, before the newline.
    <1>9. \A p \in q + 1 .. n - 1 : p \notin undecoded =>
              \E i \in 1 .. f - 1 : pos[i] = p
        <2> TAKE p \in q + 1 .. n - 1
        <2> HAVE p \notin undecoded
        <2>1. PICK i \in 1 .. m : pos[i] = p
            <3>1. p \in q + 1 .. sent
                BY <1>3, <1>4, <1>6
            <3> QED
                BY <1>4, <3>1
        <2>2. ~(i = f) /\ ~(f < i)
            <3>1. p < n
                BY <1>4, <1>6
            <3>2. f < i => n < p
                BY <1>4, <1>5, <1>6, <2>1
            <3> QED
                BY <1>6, <2>1, <3>1, <3>2
        <2>3. i \in 1 .. f - 1
            BY <1>2, <1>5, <2>2
        <2> QED
            BY <2>1, <2>3
    <1>10. \A p \in q + 1 .. n - 1 : stream[p].part = "tail" => p \in undecoded
        <2> TAKE p \in q + 1 .. n - 1
        <2>1. ASSUME p \notin undecoded PROVE stream[p].part # "tail"
            <3>1. PICK i \in 1 .. f - 1 : pos[i] = p
                BY <1>9, <2>1
            <3>2. i \in 1 .. m
                BY <1>2, <1>5
            <3> QED
                BY <1>4, <1>5, <3>1, <3>2
        <2> QED
            BY <2>1
    <1>11. Place(n, new)'
        <2>1. new \in [1 .. m - f -> Nat]
            <3>1. \A i \in 1 .. m - f : f + i \in 1 .. m
                BY <1>2, <1>5
            <3> QED
                BY <1>4, <3>1
        <2>2. ASSUME NEW i \in 1 .. m - f
              PROVE  /\ n < new[i] /\ new[i] <= sent /\ new[i] \notin undecoded
                     /\ lineBuf'[i] = stream[new[i]]
            <3>1. f + i \in 1 .. m /\ f < f + i /\ new[i] = pos[f + i]
                BY <1>2, <1>5
            <3>2. n < pos[f + i]
                BY <1>4, <1>5, <1>6, <3>1
            <3> QED
                BY <1>4, <1>8, <3>1, <3>2
        <2>3. ASSUME NEW i \in 1 .. m - f, NEW j \in 1 .. m - f, i < j
              PROVE  new[i] < new[j]
            <3>1. f + i \in 1 .. m /\ f + j \in 1 .. m /\ f + i < f + j
                BY <1>2, <1>5, <2>3
            <3> QED
                BY <1>4, <3>1
        <2>4. ASSUME NEW p \in n + 1 .. sent
              PROVE  p \in undecoded \/ \E i \in 1 .. m - f : new[i] = p
            <3> SUFFICES ASSUME p \notin undecoded
                         PROVE  \E i \in 1 .. m - f : new[i] = p
                OBVIOUS
            <3>1. p \in q + 1 .. sent /\ n < p
                BY <1>3, <1>4, <1>6
            <3>2. PICK j \in 1 .. m : pos[j] = p
                BY <1>4, <3>1
            <3>3. ~(j = f) /\ ~(j < f)
                <4>1. j < f => pos[j] < n
                    BY <1>4, <1>5, <1>6
                <4> QED
                    BY <1>6, <3>1, <3>2, <4>1
            <3>4. j - f \in 1 .. m - f /\ f + (j - f) = j
                BY <1>2, <1>5, <3>3
            <3> QED
                BY <3>2, <3>4
        <2> HIDE DEF new
        <2> QED
            BY <1>6, <1>7, <1>8, <2>1, <2>2, <2>3, <2>4 DEF Place
    <1>12. Tally(n)'
        <2> DEFINE tq == Cardinality(TailsTo(q))
                   tn == Cardinality(TailsTo(n))
                   cq == Cardinality(LinesTo(q, "content"))
                   cn == Cardinality(LinesTo(n, "content"))
                   dq == Cardinality(DamagedTo(q))
                   dn == Cardinality(DamagedTo(n))
                   l == Cardinality(LostTails(q, n))
        <2>1. /\ tq \in Nat /\ tn \in Nat /\ cq \in Nat /\ cn \in Nat
              /\ dq \in Nat /\ dn \in Nat /\ l \in Nat
            BY <1>4, <1>6, Counts
        <2>2. tn >= tq + 1
            BY <1>4, <1>6, MoreTails
        <2>3. cq <= cn /\ cn <= cq + l + 1
            <3>1. q <= n
                BY <1>4, <1>6
            <3> QED
                BY <1>4, <1>6, <1>10, <3>1, FewLines
        <2>4. dn >= dq + l
            <3>1. q <= n
                BY <1>4, <1>6
            <3> QED
                BY <1>4, <1>6, <3>1, DamageGrows
        <2>5. contentTokens <= tq /\ learned <= tq /\ contentTokens <= cq + 2 * dq
              /\ cq <= contentTokens + 2 * dq
            BY <1>0 DEF Tally
        <2> DEFINE one == IF frame = "content" THEN 1 ELSE 0
        <2>6. one \in {0, 1} /\ contentTokens' = contentTokens + one
            BY <1>7
        <2>7. learned' \in Nat /\ learned' <= learned + 1
            BY <1>3, <1>7
        <2>8. contentTokens + one <= cn + 2 * dn /\ cn <= contentTokens + one + 2 * dn
            <3>1. CASE \E u \in undecoded : q < u /\ u <= n
                <4>1. dn >= dq + 1
                    <5>1. q <= n
                        BY <1>4, <1>6
                    <5> QED
                        BY <1>4, <1>6, <3>1, <5>1, DamageGrows
                <4> HIDE DEF tq, tn, cq, cn, dq, dn, l, one
                <4> QED
                    BY <1>3, <2>1, <2>3, <2>4, <2>5, <2>6, <4>1
            <3>2. CASE ~ \E u \in undecoded : q < u /\ u <= n
                <4>1. \A i \in 1 .. f : pos[i] = q + i
                    <5> DEFINE g == [i \in 1 .. f |-> pos[i]]
                    <5>1. g \in [1 .. f -> Nat] /\ f \in Nat
                        BY <1>2, <1>4, <1>5
                    <5>2. /\ \A i, j \in 1 .. f : i < j => g[i] < g[j]
                          /\ \A i \in 1 .. f : q < g[i]
                        BY <1>2, <1>4, <1>5
                    <5>3. \A i \in 1 .. f : g[i] <= n
                        BY <1>2, <1>4, <1>5, <1>6
                    <5>4. ASSUME NEW p \in Nat, q < p, NEW i \in 1 .. f, p <= g[i]
                          PROVE  \E j \in 1 .. f : g[j] = p
                        <6>1. p <= n
                            BY <1>6, <5>1, <5>3, <5>4
                        <6>2. CASE p = n
                            BY <1>5, <1>6, <6>2
                        <6>3. CASE p # n
                            <7>1. p \in q + 1 .. n - 1 /\ p \notin undecoded
                                BY <1>4, <1>6, <3>2, <5>4, <6>1, <6>3
                            <7>2. PICK j \in 1 .. f - 1 : pos[j] = p
                                BY <1>9, <7>1
                            <7> QED
                                BY <1>5, <7>2
                        <6> QED
                            BY <6>2, <6>3
                    <5>5. \A p \in Nat : q < p /\ (\E i \in 1 .. f : p <= g[i])
                              => \E i \in 1 .. f : g[i] = p
                        BY <5>4
                    <5> HIDE DEF g
                    <5>6. IncreasingAfter(q, g, f)
                        BY <5>2, <5>5 DEF IncreasingAfter
                    <5>7. \A i \in 1 .. f : g[i] = q + i
                        BY <1>4, <5>1, <5>6, Consecutive
                    <5> QED
                        BY <5>7 DEF g
                <4>2. n = q + f /\ f \in Nat \ {0}
                    BY <1>2, <1>5, <1>6, <4>1
                <4>3. \A i \in q + 1 .. n - 1 : stream[i].part # "tail"
                    <5> TAKE i \in q + 1 .. n - 1
                    <5>1. i \notin undecoded
                        BY <1>4, <1>6, <3>2
                    <5> QED
                        BY <1>10, <5>1
                <4> DEFINE line == SubSeq(lineBuf, 1, f)
                <4>4. line \in Seq(Pieces) /\ Len(line) = f /\ \A i \in 1 .. f : line[i] = lineBuf[i]
                    BY <1>2, <1>3, <1>5
                <4>5. \A i \in 1 .. f : line[i] = stream[q + i]
                    <5> TAKE i \in 1 .. f
                    <5>1. i \in 1 .. m
                        BY <1>2, <1>5
                    <5> HIDE DEF line
                    <5> QED
                        BY <1>4, <4>1, <4>4, <5>1
                <4> HIDE DEF line
                <4>6. IsLineAt(line, q, f)
                    <5>1. q + f <= Len(stream)
                        BY <1>3, <1>4, <1>6, <4>2
                    <5>2. \A i \in q + 1 .. q + f - 1 : stream[i].part # "tail"
                        <6>1. q + f - 1 = n - 1
                            BY <1>4, <4>2
                        <6> QED
                            BY <4>3, <6>1, Zenon
                    <5> QED
                        BY <1>4, <4>4, <4>5, <5>1, <5>2 DEF IsLineAt
                <4>7. Classify(line) = {stream[n].kind}
                    BY <1>4, <4>2, <4>4, <4>6, WholeLine DEF RelayTypes
                <4>8. frame = stream[n].kind
                    BY <1>1, <4>7 DEF line
                <4>9. cn = cq + one
                    <5>1. cn = cq + (IF stream[n].kind = "content" THEN 1 ELSE 0)
                        <6>1. q \in Nat /\ q < n /\ stream[n].part = "tail"
                            BY <1>4, <1>6
                        <6> QED
                            BY <4>3, <6>1, OneMoreCounts, Zenon
                    <5> QED
                        BY <4>8, <5>1
                <4> HIDE DEF tq, tn, cq, cn, dq, dn, l, one
                <4> QED
                    BY <1>3, <2>1, <2>4, <2>5, <2>6, <4>9
            <3> QED
                BY <3>1, <3>2
        <2>9. /\ TailsTo(n)' = TailsTo(n) /\ LinesTo(n, "content")' = LinesTo(n, "content")
              /\ DamagedTo(n)' = DamagedTo(n)
            BY <1>7 DEF TailsTo, LinesTo, DamagedTo
        <2>10. contentTokens + one <= tn /\ learned' <= tn
            <3> HIDE DEF tq, tn, one
            <3> QED
                BY <1>3, <2>1, <2>2, <2>5, <2>6, <2>7
        <2> QED
            BY <2>6, <2>8, <2>9, <2>10 DEF Tally
    <1> QED
        BY <1>11, <1>12 DEF LossOK

LEMMA RelayLoss == RelaySpec => [](RelayTypes /\ LossOK)
    <1>1. RelayInit => LossOK
        BY InitLoss
    <1>2. RelayIInv /\ LossOK /\ [RelayNext]_relayVars => LossOK'
        <2> SUFFICES ASSUME RelayIInv, LossOK, [RelayNext]_relayVars PROVE LossOK'
            OBVIOUS
        <2>0. RelayTypes
            BY DEF RelayIInv
        <2>1. CASE \E n \in 1 .. Len(stream) : Chunk(n)
            BY <2>0, <2>1, ChunkLoss
        <2>2. CASE DrainLine
            BY <2>0, <2>2, DrainLoss
        <2>3. CASE BodyOver \/ DropBody \/ UNCHANGED relayVars
            <3>1. PICK q, pos : Place(q, pos) /\ Tally(q)
                BY DEF LossOK
            <3>2. UNCHANGED <<stream, sent, lineBuf, contentTokens, learned, undecoded>>
                BY <2>3 DEF BodyOver, DropBody, relayVars
            <3>3. Place(q, pos)' /\ Tally(q)'
                BY <3>1, <3>2 DEF Place, Tally, TailsTo, LinesTo, DamagedTo
            <3> QED
                BY <3>3 DEF LossOK
        <2> QED
            BY <2>1, <2>2, <2>3 DEF RelayNext
    <1>3. RelayIInv => RelayTypes
        BY DEF RelayIInv
    <1> QED
        BY <1>1, <1>2, <1>3, RelayStaysInStep, PTL DEF RelaySpec

\* Every variable of the relay keeps its range, and no line counts for more than
\* one token or one observation, whatever chunks were refused.
THEOREM RelayTypeCorrect == RelaySpec => []RelayTypeOK
    <1>1. RelayTypes /\ LossOK => RelayTypeOK
        <2> SUFFICES ASSUME RelayTypes, LossOK PROVE RelayTypeOK
            OBVIOUS
        <2>1. PICK q, pos : Place(q, pos) /\ Tally(q)
            BY DEF LossOK
        <2>2. q \in Nat /\ q <= sent /\ sent \in Nat
            BY <2>1 DEF Place, RelayTypes
        <2>3. TailsTo(q) \subseteq Relayed /\ Relayed = TailsTo(sent)
            BY <2>2 DEF TailsTo, Relayed
        <2>4. /\ IsFiniteSet(Relayed) /\ Cardinality(Relayed) \in Nat
              /\ Cardinality(TailsTo(q)) \in Nat
            BY <2>2, <2>3, Counts
        <2>5. Cardinality(TailsTo(q)) <= Cardinality(Relayed)
            BY <2>3, <2>4, FS_Subset
        <2> QED
            BY <2>1, <2>2, <2>4, <2>5 DEF Tally, RelayTypes, RelayTypeOK
    <1> QED
        BY <1>1, RelayLoss, PTL

\* A refused chunk harms the lines it has pieces of and, for each of these, at
\* most one more.
THEOREM RelayLossIsLocal == RelaySpec => []LossIsLocal
    <1>1. RelayTypes /\ LossOK => LossIsLocal
        <2> SUFFICES ASSUME RelayTypes, LossOK, Newlines = {}
                     PROVE  Gap(contentTokens, Cardinality(RelayedOf("content")))
                                <= 2 * Cardinality(Damaged)
            BY DEF LossIsLocal
        <2>1. PICK q, pos : Place(q, pos) /\ Tally(q)
            BY DEF LossOK
        <2>2. /\ q \in Nat /\ q <= sent /\ sent \in Nat /\ (q = 0 \/ stream[q].part = "tail")
              /\ undecoded \subseteq 1 .. sent /\ contentTokens \in Nat
            BY <2>1 DEF Place, RelayTypes
        <2>3. RelayedOf("content") = LinesTo(sent, "content")
            BY DEF RelayedOf, Relayed, LinesTo
        <2>4. Damaged = DamagedTo(sent)
            <3>1. \A u \in undecoded : u <= sent
                BY <2>2
            <3> QED
                BY <3>1 DEF Damaged, DamagedTo
        <2>5. \A i \in q + 1 .. sent : stream[i].part = "tail" => i \in undecoded
            BY <2>1 DEF Place, Newlines
        <2> DEFINE cq == Cardinality(LinesTo(q, "content"))
                   cn == Cardinality(LinesTo(sent, "content"))
                   dq == Cardinality(DamagedTo(q))
                   dn == Cardinality(DamagedTo(sent))
                   l == Cardinality(LostTails(q, sent))
        <2>6. cq \in Nat /\ cn \in Nat /\ dq \in Nat /\ dn \in Nat /\ l \in Nat
            BY <2>2, Counts
        <2>7. cq <= cn /\ cn <= cq + l
            BY <2>2, <2>5, FewLines
        <2>8. dn >= dq + l
            BY <2>2, DamageGrows
        <2>9. contentTokens <= cq + 2 * dq /\ cq <= contentTokens + 2 * dq
            BY <2>1 DEF Tally
        <2> HIDE DEF cq, cn, dq, dn, l
        <2>10. contentTokens <= cn + 2 * dn /\ cn <= contentTokens + 2 * dn
            BY <2>2, <2>6, <2>7, <2>8, <2>9
        <2>11. Gap(contentTokens, cn) <= 2 * dn
            BY <2>2, <2>6, <2>10 DEF Gap
        <2> QED
            BY <2>3, <2>4, <2>11 DEF cn, dn
    <1> QED
        BY <1>1, RelayLoss, PTL
=============================================================================
