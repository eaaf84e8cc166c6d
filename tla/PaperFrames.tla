---------------------------- MODULE PaperFrames ----------------------------
(***************************************************************************)
(* From a ciphertext to the codes and the text on paper, and back          *)
(* (encoding/, qr/capacity.py, shared/io/frames.py, fallback_parser.py,    *)
(* features/kit/workflow.py).                                              *)
(*                                                                         *)
(* Bytes are counted, not kept: the data of a frame is the interval of its *)
(* payload that it carries, [of, from, to].  A document id is a digest of  *)
(* the ciphertext, so two payloads of one document are one payload.  A     *)
(* code or a text is damaged (Noise) or says what was printed: magic,      *)
(* lengths, canonical encodings and CRC-32 turn a damaged one into an      *)
(* error.                                                                  *)
(***************************************************************************)
EXTENDS FrameSets, Sequences

CONSTANTS
    MAX_MAIN_FRAME_TOTAL,
    VarintRadix,   \* 128: from here on a varint takes a second byte
    Noise          \* a code that decodes to no frame

ASSUME FrameConstants == MAX_MAIN_FRAME_TOTAL \in Nat \ {0} /\ VarintRadix \in Nat \ {0, 1}

DivUp(a, b) == (a + b - 1) \div b
Least2(a, b) == IF a < b THEN a ELSE b

-----------------------------------------------------------------------------
(* The size of a frame and of its code. *)

VarintLen(n) ==
    IF n < VarintRadix THEN 1 ELSE IF n < VarintRadix * VarintRadix THEN 2 ELSE 3

\* Magic, version, type, document id, three varints, the data, CRC-32.
FrameLen(size, index, total) ==
    2 + 1 + 1 + 8 + VarintLen(index) + VarintLen(total) + VarintLen(size) + size + 4

\* Raw bytes, or unpadded base64.
QrLen(n, codec) == IF codec = "raw" THEN n ELSE DivUp(4 * n, 3)

FrameFits(b, size, index, total) ==
    size > 0 /\ QrLen(FrameLen(size, index, total), b.codec) <= b.capacity

-----------------------------------------------------------------------------
(* chunk_payload *)

TotalOf(length, chunkSize) == DivUp(length, chunkSize)

\* Sizes differ by one byte at most; the longer chunks come first.
ChunkStart(length, total, i) == i * (length \div total) + Least2(i, length % total)

LargestChunk(length, total) == DivUp(length, total)

MainFrame(doc, length, total, i) ==
    [type |-> "main", doc |-> doc, index |-> i, total |-> total,
     data |-> [of |-> doc, from |-> ChunkStart(length, total, i) + 1, to |-> ChunkStart(length, total, i + 1)]]

Chunks(doc, length, total) == [i \in 1..total |-> MainFrame(doc, length, total, i - 1)]

SizeOf(f) == f.data.to - f.data.from + 1

\* The other payloads take one frame; what it holds is not told apart.
OneFrame(type, doc) ==
    [type |-> type, doc |-> doc, index |-> 0, total |-> 1, data |-> [of |-> type, from |-> 1, to |-> 1]]

AuthFrame(doc) == OneFrame("auth", doc)
KeyFrame(doc) == OneFrame("key", doc)

-----------------------------------------------------------------------------
(* choose_frame_chunk_size *)

\* The probe is the last frame, with the longest chunk.
Probe(b, size, total) == FrameFits(b, size, total - 1, total)

\* A search is a function of its window <<lo, hi>>.

\* [mutant] The search stops one short.
FittingShort(b, total, upper) ==
    LET search[w \in (1..upper) \X (1..upper)] ==
          LET mid == (w[1] + w[2] + 1) \div 2
          IN  IF w[1] + 1 >= w[2] THEN w[1]
              ELSE search[IF Probe(b, mid, total) THEN <<mid, w[2]>> ELSE <<w[1], mid - 1>>]
    IN  search[<<1, upper>>]

\* [mutant] The size that did not fit is tried again.
FittingUpper(b, total, upper) == upper

\* _max_fitting_frame_data_len, once one byte fits
FittingSize(b, total, upper) ==
    LET search[w \in (1..upper) \X (1..upper)] ==
          LET mid == (w[1] + w[2] + 1) \div 2
          IN  IF w[1] >= w[2] THEN w[1]
              ELSE search[IF Probe(b, mid, total) THEN <<mid, w[2]>> ELSE <<w[1], mid - 1>>]
    IN  search[<<1, upper>>]

-----------------------------------------------------------------------------
(* The recovery kit: a script, its characters escaped, cut into codes. *)

\* b.escapes holds the positions of the characters that are written as six.
ScriptLen(b, from, to) ==
    b.wrapper + (to - from + 1) + 5 * Cardinality({i \in b.escapes : from <= i /\ i <= to})

\* The search of _split_kit_payload_chunks, with the best so far: the last character that
\* still fits, 0 if none does.
LastFitting(b, size, from) ==
    LET rest == b.length - from + 1
        search[w \in (1..(rest + 1)) \X (0..rest) \X (0..rest)] ==
          LET mid == (w[1] + w[2]) \div 2
          IN  IF w[1] > w[2] THEN w[3]
              ELSE search[IF ScriptLen(b, from, from + mid - 1) <= size
                          THEN <<mid + 1, w[2], mid>> ELSE <<w[1], mid - 1, w[3]>>]
        best == search[<<1, rest, 0>>]
    IN  IF best = 0 THEN 0 ELSE from + best - 1

\* _max_qr_payload_bytes, with the probe of maxProbe bytes
LargestCode(capacity, maxProbe) ==
    LET search[w \in (1..maxProbe) \X (1..maxProbe)] ==
          LET mid == (w[1] + w[2]) \div 2
          IN  IF w[1] + 1 >= w[2] THEN w[1]
              ELSE search[IF mid <= capacity THEN <<mid, w[2]>> ELSE <<w[1], mid>>]
    IN  IF maxProbe <= capacity THEN maxProbe ELSE search[<<1, maxProbe>>]

-----------------------------------------------------------------------------
(* Reading. *)

Decoded(S) == S \ {Noise}

\* A scan drops what does not decode and what the other kind of input is for.
FromScan(S) == {f \in Decoded(S) : f.type \in {"main", "auth"}}

\* A list of payloads must decode entirely; a shard among them is refused by the split.
FromPayloads(S) == IF Noise \in S THEN {} ELSE S

Recovers(F) == ~Clash(F) /\ OfType(F, "key") = {} /\ Reassembles(OfType(F, "main"))

\* The payload that the chunks join to: an interval, or Noise if they do not continue each other.
PayloadOf(F) ==
    LET M == OfType(F, "main")
        joined == Joined(M)
        last == (CHOOSE f \in M : TRUE).total - 1
    IN  IF /\ \A f, g \in M : f.data.of = g.data.of
           /\ \A i \in 1..last : joined[i].from = joined[i - 1].to + 1
        THEN [of |-> joined[0].of, from |-> joined[0].from, to |-> joined[last].to]
        ELSE Noise

-----------------------------------------------------------------------------
(* Typed text: a sequence of [title, section, from, to], where title is the *)
(* name of a section or NoTitle, and the rest the tokens that were typed.   *)

NoTitle == 0

Marked(typed) == \E i \in 1..Len(typed) : typed[i].title # NoTitle

\* The section that a line belongs to: the last title above it.
Under(typed, i) ==
    LET above == {j \in 1..i : typed[j].title # NoTitle}
    IN  IF above = {} THEN NoTitle
        ELSE typed[CHOOSE j \in above : \A k \in above : k <= j].title

\* split_fallback_sections
InSection(typed, title) == {i \in 1..Len(typed) : Under(typed, i) = title}

\* The tokens typed under I, read one after the other, are all those of a section.
Spells(typed, I, section, tokens) ==
    /\ I # {}
    /\ \A i \in I : typed[i].section = section
    /\ \A i \in I :
         LET before == {j \in I : j < i} IN
         typed[i].from = IF before = {} THEN 1
                         ELSE typed[CHOOSE j \in before : \A k \in before : k <= j].to + 1
    /\ \E i \in I : (\A j \in I : j <= i) /\ typed[i].to = tokens
=============================================================================
