---------------------------- MODULE PaperBackup ----------------------------
(***************************************************************************)
(* A backup on paper, from the ciphertext to what a reader gets back: the  *)
(* size of a chunk is chosen and the codes are made (backup/execution.py,  *)
(* qr/capacity.py; kit/workflow.py for the recovery kit), one document is  *)
(* laid out (PaperPages), and what was printed is scanned or typed, in any *)
(* order, with losses, repetitions, damaged codes and pieces of other      *)
(* documents, and read (shared/io/frames.py, fallback_parser.py, the       *)
(* loader script of the kit).                                              *)
(*                                                                         *)
(* A backup is a record: kind of the document to print, length of the      *)
(* ciphertext (of the kit's script), smallLen of an AUTH or shard payload, *)
(* preferred chunk size (0: none asked, kit only), capacity of one QR      *)
(* code, codec, what else may get under the reader's camera (strays), the  *)
(* lengths of the ciphertexts it may be from (others), how much is read    *)
(* (reads), the allowance for an invalid AUTH section (rescue), and the    *)
(* fields of the document that PaperPages lays out.                        *)
(***************************************************************************)
EXTENDS PaperPages, PaperFrames

CONSTANTS
    Backups,
    DEFAULT_KIT_CHUNK_SIZE, MAX_QR_PROBE_BYTES,
    ShellLen(_)   \* the first code of a kit, which names the number of the others

VARIABLES
    backup,
    stage,    \* "size", "frame", "print", "read", "end" or "refused"
    size,     \* the chunk size tried
    codes,    \* the contents of the QR codes to print
    read,     \* what was scanned or typed, in that order
    outcome   \* what came of it

vars == <<pageVars, backup, stage, size, codes, read, outcome>>

Ours == "ours"
Nothing == [ok |-> FALSE]

\* The ciphertext of which d is the document id: the backup's or a stranger's.
LengthOf(b, d) == IF d = Ours THEN b.length ELSE b.others[d]
Whole(b, d) == [of |-> d, from |-> 1, to |-> LengthOf(b, d)]

Tokens(frameLen) == DivUp(DivUp(8 * frameLen, 5), 4)
SmallTokens(b) == Tokens(FrameLen(b.smallLen, 0, 1))
MainTokens(b) == Tokens(FrameLen(b.length, 0, 1))

TextsOf(b) ==
    CASE b.kind = "recovery" -> <<SmallTokens(b), MainTokens(b)>>
      [] b.kind \in ShardKinds -> <<SmallTokens(b)>>
      [] OTHER -> <<>>

\* The document with n codes.
DocumentOf(b, n) ==
    [kind |-> b.kind, qrs |-> n, texts |-> TextsOf(b), quorumless |-> b.quorumless,
     tops |-> b.tops, groups |-> b.groups, sheet |-> b.sheet, style |-> b.style]

\* A frame of a ciphertext, of the size that somebody chose for it.
IsChunk(b, x) ==
    \E n \in 1..LengthOf(b, x.doc) : \E i \in 0..(n - 1) : x = MainFrame(x.doc, LengthOf(b, x.doc), n, i)

(* What a backup is: the numbers that settings and templates give, none of them negative; a   *)
(* ciphertext that may be written (execution.py checks its size before anything is printed);  *)
(* strays that are damaged codes, AUTH and KEY frames of whatever document, and frames that   *)
(* chunk_payload made, of ciphertexts with document ids of their own; beside a typed text,    *)
(* lines of other texts.  Nothing that is printed is damaged.                                 *)
ASSUME BackupsAssumption ==
    \A b \in Backups :
      /\ Printable(DocumentOf(b, 1))
      /\ b.length \in Nat \ {0} /\ b.smallLen \in Nat \ {0} /\ b.capacity \in Nat \ {0}
      /\ b.preferred \in Nat /\ (b.kind # "kit" => b.preferred > 0)
      /\ b.wrapper \in Nat /\ b.escapes \subseteq Nat
      /\ \A n \in 1..b.length : ~TooLarge(Joined({MainFrame(Ours, b.length, n, i) : i \in 0..(n - 1)}))
      /\ \A x \in b.strays :
           /\ b.kind = "main" => /\ x # Noise => x.type \in {"main", "auth", "key"}
                                 /\ x # Noise /\ x.type = "main" =>
                                      LengthOf(b, x.doc) \in Nat \ {0} /\ IsChunk(b, x)
           /\ b.kind = "recovery" => x # Noise

ASSUME NoiseAssumption ==
    /\ Noise \notin [type : {"main", "auth", "key"}, doc : {Ours}, index : Nat, total : Nat,
                     data : [of : {Ours, "auth", "key"}, from : Nat, to : Nat]]
    /\ Noise \notin [title : Nat, section : Nat, from : Nat, to : Nat]

ASSUME KitAssumption == DEFAULT_KIT_CHUNK_SIZE \in Nat \ {0} /\ MAX_QR_PROBE_BYTES \in Nat \ {0}

-----------------------------------------------------------------------------
Init ==
    /\ backup \in Backups
    /\ stage = "size"
    /\ size = IF backup.kind = "kit"
              THEN IF backup.preferred > 0 THEN backup.preferred
                   ELSE Least2(DEFAULT_KIT_CHUNK_SIZE, LargestCode(backup.capacity, MAX_QR_PROBE_BYTES))
              ELSE Least2(backup.preferred, backup.length)
    /\ codes = <<>> /\ read = <<>> /\ outcome = Nothing
    /\ PagesInit(DocumentOf(backup, 1))

Refuse == stage' = "refused" /\ UNCHANGED <<pageVars, backup, size, codes, read, outcome>>

(* choose_frame_chunk_size: one turn of its loop. *)
ChooseSize ==
    LET n == TotalOf(backup.length, size)
        largest == LargestChunk(backup.length, n)
    IN
    /\ stage = "size" /\ backup.kind # "kit"
    /\ \/ n > MAX_MAIN_FRAME_TOTAL /\ Refuse
       \/ ~Probe(backup, largest, n) /\ ~Probe(backup, 1, n) /\ Refuse
       \/ /\ n <= MAX_MAIN_FRAME_TOTAL
          /\ \/ Probe(backup, largest, n) /\ stage' = "frame" /\ UNCHANGED size
             \/ /\ ~Probe(backup, largest, n) /\ Probe(backup, 1, n)
                /\ size' = FittingSize(backup, n, largest) /\ UNCHANGED stage
          /\ UNCHANGED <<pageVars, backup, codes, read, outcome>>

(* chunk_payload, the AUTH frame behind it, and the codes that the document shows. *)
FrameDocument ==
    LET chunks == Chunks(Ours, backup.length, TotalOf(backup.length, size))
        frames == CASE backup.kind = "main" -> Append(chunks, AuthFrame(Ours))
                    [] backup.kind \in ShardKinds -> <<KeyFrame(Ours)>>
                    [] OTHER -> chunks
        smallFits == FrameFits(backup, backup.smallLen, 0, 1)
    IN
    /\ stage = "frame"
    /\ \/ backup.kind \in ShardKinds \cup {"main"} /\ ~smallFits /\ Refuse
       \/ /\ backup.kind = "recovery" \/ smallFits
          /\ codes' = frames
          /\ doc' = DocumentOf(backup, Len(frames))
          /\ stage' = "print"
          /\ UNCHANGED <<phase, total, pages, blocks, cursor, lines, left, backup, size, read, outcome>>

(* _split_kit_payload_chunks: one chunk. *)
Cut == IF codes = <<>> THEN 0 ELSE codes[Len(codes)].to

SplitKit ==
    LET last == LastFitting(backup, size, Cut + 1) IN
    /\ stage = "size" /\ backup.kind = "kit" /\ Cut < backup.length
    /\ \/ last = 0 /\ Refuse
       \/ /\ last > 0
          /\ codes' = Append(codes, [from |-> Cut + 1, to |-> last])
          /\ UNCHANGED <<pageVars, backup, stage, size, read, outcome>>

(* The shell goes first; all must fit a code. *)
FrameKit ==
    LET fits == /\ ShellLen(Len(codes)) <= backup.capacity
                /\ \A i \in 1..Len(codes) : ScriptLen(backup, codes[i].from, codes[i].to) <= backup.capacity
    IN
    /\ stage = "size" /\ backup.kind = "kit" /\ Cut = backup.length
    /\ \/ ~fits /\ Refuse
       \/ /\ fits
          /\ codes' = <<[shell |-> Len(codes)]>> \o codes
          /\ doc' = DocumentOf(backup, Len(codes) + 1)
          /\ stage' = "print"
          /\ UNCHANGED <<phase, total, pages, blocks, cursor, lines, left, backup, size, read, outcome>>

(* build_pages *)
RenderPages ==
    /\ stage = "print" /\ PagesNext
    /\ stage' = CASE phase' = "printed" -> "read" [] phase' = "refused" -> "refused" [] OTHER -> "print"
    /\ UNCHANGED <<backup, size, codes, read, outcome>>

-----------------------------------------------------------------------------
(* The reader. *)

Printed == {q \in 1..Len(codes) :
              \E i \in 1..Len(pages) : pages[i].qrs.from <= q /\ q <= pages[i].qrs.to}

Reading == stage = "read" /\ Len(read) < backup.reads

Note(x) == /\ read' = Append(read, x)
           /\ UNCHANGED <<pageVars, backup, stage, size, codes, outcome>>

ScanCode == Reading /\ \E q \in Printed : Note(codes[q])
ScanStray == Reading /\ \E x \in backup.strays : Note(x)

\* A block is typed with its title or, by a reader who takes it for decoration, without.
TypeBlock ==
    /\ Reading
    /\ \E k \in 1..Len(blocks), withTitle \in BOOLEAN :
         Note([title |-> IF blocks[k].titled /\ withTitle THEN blocks[k].section ELSE NoTitle,
               section |-> blocks[k].section, from |-> blocks[k].from, to |-> blocks[k].to])

End(result) == /\ stage = "read" /\ read # <<>>
               /\ stage' = "end" /\ outcome' = result
               /\ UNCHANGED <<pageVars, backup, size, codes, read>>

Taken == {read[i] : i \in 1..Len(read)}

Recovered(F) ==
    IF F # {} /\ Recovers(F) THEN [ok |-> TRUE, payload |-> PayloadOf(F), auth |-> OfType(F, "auth") # {}]
    ELSE Nothing

(* _recovery_frames_from_scan, _frames_from_payloads, then _load_main_ciphertext *)
ReadScan == backup.kind = "main" /\ End(Recovered(FromScan(Taken)))
ReadPayloads == backup.kind = "main" /\ End(Recovered(FromPayloads(Taken)))

(* _shard_frames_from_scan *)
ReadShards ==
    LET keys == OfType(Decoded(Taken), "key") IN
    /\ backup.kind \in ShardKinds
    /\ \A x \in Decoded(Taken) : "doc" \in DOMAIN x
    /\ End(IF keys = {} THEN Nothing ELSE [ok |-> TRUE, payload |-> keys])

Auth == 1
Main == 2

Typed(I, section) == Spells(read, I, section, doc.texts[section])

TextFrames(main, auth) ==
    (IF main THEN {MainFrame(Ours, backup.length, 1, 0)} ELSE {})
      \cup (IF auth THEN {AuthFrame(Ours)} ELSE {})

(* _frames_from_fallback_lines *)
TextRead ==
    LET all == 1..Len(read)
        inMain == InSection(read, Main)
        inAuth == InSection(read, Auth)
    IN  IF ~Marked(read) THEN TextFrames(Typed(all, Main), Typed(all, Auth))
        ELSE IF \/ InSection(read, NoTitle) # {}
                \/ ~Typed(inMain, Main)
                \/ inAuth # {} /\ ~Typed(inAuth, Auth) /\ ~backup.rescue
        THEN {}
        ELSE TextFrames(TRUE, Typed(inAuth, Auth))

ReadText == backup.kind = "recovery" /\ End(Recovered(TextRead))

(* _frame_from_fallback: a shard's text, which has no titles *)
ReadShardText ==
    /\ backup.kind \in ShardKinds
    /\ Noise \notin Taken /\ \A x \in Taken : "section" \in DOMAIN x
    /\ End(IF Spells(read, 1..Len(read), 1, doc.texts[1])
           THEN [ok |-> TRUE, payload |-> {KeyFrame(Ours)}] ELSE Nothing)

(* The loader of the kit: the chunks in the order in which they were pasted behind the shell. *)
OpenKit ==
    LET pasted == SubSeq(read, 2, Len(read)) IN
    /\ backup.kind = "kit"
    /\ End(IF /\ "shell" \in DOMAIN read[1]
              /\ \A i \in 1..Len(pasted) : "from" \in DOMAIN pasted[i]
              /\ read[1].shell = Len(pasted)
           THEN [ok |-> TRUE, payload |-> pasted] ELSE Nothing)

Program == ChooseSize \/ FrameDocument \/ SplitKit \/ FrameKit \/ RenderPages
Reader == \/ ScanCode \/ ScanStray \/ TypeBlock
          \/ ReadScan \/ ReadPayloads \/ ReadShards \/ ReadText \/ ReadShardText \/ OpenKit

Next == Program \/ Reader

\* The program does not wait for anybody; whether anything is read is the reader's affair.
Spec == Init /\ [][Next]_vars /\ WF_vars(Program)

-----------------------------------------------------------------------------
\* A chunk size that makes few enough frames, each of which fits its code; and one that does
\* with a byte to spare: the longest chunk also fits under the last index, where the varint
\* may be longer.
Works(c) ==
    LET n == TotalOf(backup.length, c) IN
    /\ n <= MAX_MAIN_FRAME_TOTAL
    /\ \A i \in 1..n : LET f == Chunks(Ours, backup.length, n)[i]
                       IN FrameFits(backup, SizeOf(f), f.index, f.total)

WorksEasily(c) ==
    LET n == TotalOf(backup.length, c) IN
    n <= MAX_MAIN_FRAME_TOTAL /\ Probe(backup, LargestChunk(backup.length, n), n)

\* The size that the loop settles on makes frames that all fit, no larger chunks that were
\* asked for do so easily, and a refusal means that none do: although every size tried
\* changes the number of frames, and with it the size of all of them.  A kit's chunks are
\* as long as they can be and leave nothing out.
SizesAreBest ==
    LET allowed == 1..Least2(backup.preferred, backup.length)
        longest(c) == LargestChunk(backup.length, TotalOf(backup.length, c))
    IN
    IF backup.kind = "kit"
    THEN \A i \in 1..Len(codes) : "from" \in DOMAIN codes[i] =>
           /\ ScriptLen(backup, codes[i].from, codes[i].to) <= size
           /\ codes[i].to < backup.length => ScriptLen(backup, codes[i].from, codes[i].to + 1) > size
           /\ codes[i].from = IF i = 1 \/ "shell" \in DOMAIN codes[i - 1] THEN 1 ELSE codes[i - 1].to + 1
    ELSE /\ stage = "frame" =>
              Works(size) /\ \A c \in allowed : WorksEasily(c) => longest(c) <= longest(size)
         /\ stage = "refused" /\ codes = <<>> /\ FrameFits(backup, backup.smallLen, 0, 1) =>
              \A c \in allowed : ~WorksEasily(c)

\* Every code is on exactly one page, and the pages show them in order (a repeated reference
\* code aside).
QrsInOrder ==
    phase = "printed" /\ ShowsQr(doc) =>
      /\ \A q \in 1..doc.qrs : \E i \in 1..Len(pages) :
           ~pages[i].qrs.repeated /\ pages[i].qrs.from <= q /\ q <= pages[i].qrs.to
      /\ \A j \in 1..Len(pages) : pages[j].qrs.from <= pages[j].qrs.to =>
           /\ pages[j].qrs.to <= doc.qrs
           /\ ~pages[j].qrs.repeated => \A i \in 1..(j - 1) : pages[i].qrs.to < pages[j].qrs.from

RowsUsed(i) ==
    SumOf([k \in 1..Len(blocks) |->
             IF blocks[k].page # i THEN 0
             ELSE blocks[k].gap + blocks[k].lines + (IF blocks[k].titled THEN 1 ELSE 0)])

Bottom == doc.sheet.height - doc.sheet.margin

\* The grid ends above the lower margin (its gap may be narrowed to fit), and so does the
\* text below it, unless the template claims bonus lines for a layout of its own.
NothingOffThePage ==
    \A i \in 1..Len(pages) :
      LET page == i - 1 IN
      /\ pages[i].qrs.from <= pages[i].qrs.to =>
           Top(doc, UsesFirst(doc, page)) + GridRows(doc, page) * doc.sheet.qr <= Bottom
      /\ doc.style.bonus = NoBonus /\ RowsUsed(i) > 0 =>
           TextTop(doc, page) + RowsUsed(i) * LineHeight(doc) <= Bottom

\* All the codes are on paper once and in order, and neither they nor the text run off a
\* page: five pieces of code compute the capacity of a page, and must agree.
CodesAndTextFit == QrsInOrder /\ NothingOffThePage

\* The blocks as a reader types them who leaves out nothing.
AsPrinted ==
    [k \in 1..Len(blocks) |->
       [title |-> IF blocks[k].titled THEN blocks[k].section ELSE NoTitle,
        section |-> blocks[k].section, from |-> blocks[k].from, to |-> blocks[k].to]]

AllRead ==
    CASE backup.kind = "main" -> Taken = {codes[q] : q \in Printed}
      [] backup.kind = "recovery" -> read = AsPrinted
      [] backup.kind = "kit" -> read = codes
      [] OTHER -> Taken = {codes[q] : q \in Printed} \/ read = AsPrinted

\* What is read is the whole ciphertext of the document it was read from or nothing,
\* whatever was mixed, lost or damaged; and all that was printed and nothing else, in any
\* order and any number of times (typed text and a kit: once, in the printed order), is enough.
ReadsBackOrRefuses ==
    stage = "end" =>
      /\ outcome.ok /\ backup.kind \in {"main", "recovery"} =>
           \E x \in Taken \ {Noise} :
             outcome.payload = Whole(backup, IF backup.kind = "main" THEN x.doc ELSE Ours)
      /\ outcome.ok /\ backup.kind \in ShardKinds => outcome.payload \subseteq {KeyFrame(Ours)} \cup Taken
      /\ AllRead => outcome.ok
      /\ AllRead /\ backup.kind = "kit" =>
           \A i \in 2..Len(codes) : outcome.payload[i - 1] = codes[i]

\* The loops over sizes, chunks, pages and sections end.
PaperIsPrinted == <>(stage \in {"read", "refused", "end"})
=============================================================================
