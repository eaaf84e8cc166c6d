----------------------------- MODULE PaperPages -----------------------------
(***************************************************************************)
(* How a document is laid out on pages (render/pdf_render.py, layout.py,   *)
(* pages.py, fallback.py, layout_policy.py, geometry.py): the QR codes in  *)
(* a grid, the text that can be typed instead in blocks below it.          *)
(*                                                                         *)
(* A document is a record                                                  *)
(*   kind       "main", "recovery", "shard", "signing" or "kit"            *)
(*   qrs        the number of its frames                                   *)
(*   texts      for each text section, its number of tokens (groups of     *)
(*              z-base-32 characters)                                      *)
(*   quorumless a recovery document of an unsharded backup                 *)
(*   tops       where the content starts on the first page and on the rest *)
(*   groups     the tokens that fit the width of a line, on either         *)
(*   sheet      the spec: heights in tenths of a millimetre                *)
(*   style      the capabilities of the template                           *)
(*                                                                         *)
(* A printed page is the interval of frames on it and whether it shows     *)
(* instructions; the blocks of text are kept in printing order, each with  *)
(* its page, the interval of tokens it holds and its first line number.    *)
(* Positions, labels and drawing are left out.  Lengths are integers here. *)
(* A section is never empty (its frame is not), nor a token longer than a  *)
(* line: the branches for these are left out.                              *)
(***************************************************************************)
EXTENDS Integers, Sequences

VARIABLES
    doc,     \* the document being rendered
    phase,   \* "idle", "page", "text", "printed" or "refused"
    total,   \* the number of pages estimated beforehand
    pages,   \* the pages begun so far
    blocks,  \* the blocks of text placed so far
    cursor,  \* the next section and the tokens of it placed (FallbackConsumerState)
    lines,   \* for each section, the lines printed of it
    left     \* the lines left on the page

pageVars == <<doc, phase, total, pages, blocks, cursor, lines, left>>

Larger(a, b) == IF a > b THEN a ELSE b
Smaller(a, b) == IF a < b THEN a ELSE b
Ceil(a, b) == (a + b - 1) \div b

ShardKinds == {"shard", "signing"}
ShowsQr(d) == d.kind # "recovery"
ShowsText(d) == d.kind \in ShardKinds \cup {"recovery"}
NoBonus == [first |-> 0, rest |-> 0, perExtraSection |-> 0, quorumlessFirst |-> 0,
            quorumlessRest |-> 0, reserved |-> 0]

Titled(d) == d.kind = "recovery"   \* by sections; the other texts are bare lines

(* What the templates and the specs of the sheets give: heights and counts, a line and a code *)
(* of some height, a line of some tokens, text where a document has some.                     *)
Printable(d) ==
    /\ d.kind \in {"main", "recovery", "kit"} \cup ShardKinds
    /\ d.qrs \in Nat \ {0}
    /\ d.texts \in Seq(Nat \ {0})
    /\ ShowsText(d) => d.texts # <<>>
    /\ d.tops.first \in Nat /\ d.tops.rest \in Nat
    /\ d.groups.first \in Nat \ {0} /\ d.groups.rest \in Nat \ {0}
    /\ \A k \in {"height", "width", "margin", "gap", "textGap", "maxRows", "maxCols", "minLines"} :
         d.sheet[k] \in Nat
    /\ d.sheet.qr \in Nat \ {0} /\ d.sheet.line \in Nat \ {0}
    /\ d.style.quorumlessGroups \in Nat
    /\ \A k \in DOMAIN NoBonus : d.style.bonus[k] \in Nat
    /\ \A k \in ShardKinds : d.style.estimate[k] \in Nat
    /\ \A k \in ShardKinds \cup {"recovery"} :
         /\ d.style.groups[k] \in Nat
         /\ \A z \in {"floor", "first", "rest"} : d.style.zone[k][z] \in Nat

-----------------------------------------------------------------------------
(* compute_layout, for the first page and for the rest. *)

Cells(usable, cell, gap, most) == Smaller((usable + gap) \div (cell + gap), most)

GridHeight(s, rows) == rows * s.qr + (rows - 1) * s.gap

Top(d, first) == IF first THEN d.tops.first ELSE d.tops.rest

\* max_rows_override_for_template
MaxRows(d, first) ==
    IF ~d.style.advanced \/ d.kind \notin {"main", "kit"} THEN d.sheet.maxRows
    ELSE Smaller(d.sheet.maxRows, IF d.kind = "main" /\ first /\ d.tops.first >= 450 THEN 2 ELSE 3)

LinesBelow(d, first, rows) ==
    Larger(0, d.sheet.height - Top(d, first) - GridHeight(d.sheet, rows) - d.sheet.margin)
      \div d.sheet.line

\* The rows of the QR grid: what fits; all of them if a tighter gap makes them fit; fewer
\* until the text has its least number of lines.  0: the page is too small.
Rows(d, first) ==
    LET s == d.sheet
        usable == s.height - s.margin - Top(d, first)
        fit == Cells(usable - (IF ShowsText(d) THEN s.minLines * s.line ELSE 0),
                     s.qr, s.gap, MaxRows(d, first))
        enough == {r \in 1..fit : LinesBelow(d, first, r) >= s.minLines}
    IN  IF fit <= 0 THEN 0
        ELSE IF ShowsText(d)
        THEN IF enough = {} THEN 0 ELSE CHOOSE r \in enough : \A q \in enough : q <= r
        ELSE IF ~d.style.advanced /\ usable >= MaxRows(d, first) * s.qr THEN MaxRows(d, first)
        ELSE fit

Columns(d) == Cells(d.sheet.width - 2 * d.sheet.margin, d.sheet.qr, d.sheet.gap, d.sheet.maxCols)

HasRoom(d, first) == ShowsQr(d) => Rows(d, first) > 0 /\ Columns(d) > 0

LineHeight(d) == IF d.style.advanced /\ ShowsText(d)
                 THEN Larger(d.sheet.line, d.style.zone[d.kind].floor) ELSE d.sheet.line

\* The lines that a template leaves for the text: its fixed zone, or the page above its footer.
ZoneLines(d, first) ==
    LET zone == d.style.zone[d.kind]
        height == IF first THEN zone.first ELSE zone.rest
    IN  Larger(1, (IF d.kind = "recovery"
                   THEN Larger(0, d.sheet.height - d.sheet.margin - Top(d, first) - height)
                   ELSE height) \div LineHeight(d))

\* adjust_page_fallback_capacity
WithinZone(d, first, n) == IF d.style.advanced THEN Smaller(n, ZoneLines(d, first)) ELSE n

\* Layout.fallback_lines_per_page
LinesPerPage(d, first) ==
    IF d.style.advanced
    THEN ZoneLines(d, first) + (IF first /\ d.kind \in ShardKinds THEN d.style.estimate[d.kind] ELSE 0)
    ELSE Larger(1, IF ShowsQr(d) THEN LinesBelow(d, first, Rows(d, first))
                   ELSE (d.sheet.height - Top(d, first) - d.sheet.margin) \div d.sheet.line)

GroupBonus(d) ==
    d.style.groups[d.kind] + (IF d.kind = "recovery" /\ d.quorumless THEN d.style.quorumlessGroups ELSE 0)

LayoutGroups(d, first) == (IF first THEN d.groups.first ELSE d.groups.rest) + GroupBonus(d)

\* Main pages that repeat the instructions, or have one capacity, have a single layout.
RestIsFirst(d) == d.kind = "main" /\ (d.style.uniform \/ d.style.repeatInstructions)

UsesFirst(d, page) == page = 0 \/ RestIsFirst(d)

-----------------------------------------------------------------------------
(* _calculate_total_pages *)

SumOf(s) ==
    LET sum[k \in 0..Len(s)] == IF k = 0 THEN 0 ELSE sum[k - 1] + s[k]
    IN  sum[Len(s)]

\* Titles and the gaps between sections are lines, too.
TextLines(d) ==
    SumOf([i \in 1..Len(d.texts) |-> Ceil(d.texts[i], LayoutGroups(d, TRUE)) + (IF Titled(d) THEN 1 ELSE 0)])
      + (IF Titled(d) THEN Len(d.texts) - 1 ELSE 0)

PerPage(d, page) == Columns(d) * Rows(d, UsesFirst(d, page))

ExtraSlots(d) == IF d.kind = "main" /\ d.style.extraSlot THEN 1 ELSE 0

FirstCount(d) == PerPage(d, 0) + ExtraSlots(d)

EstimatedLines(d, page) ==
    WithinZone(d, page = 0, LinesPerPage(d, UsesFirst(d, page)))

Spread(n, first, rest) == IF n <= first THEN 1 ELSE 1 + Ceil(n - first, rest)

TotalPages(d) ==
    Larger(IF ShowsQr(d) THEN Spread(d.qrs, FirstCount(d), PerPage(d, 1)) ELSE 1,
           IF ShowsText(d) THEN Spread(TextLines(d), EstimatedLines(d, 0), EstimatedLines(d, 1)) ELSE 1)

-----------------------------------------------------------------------------
(* _build_qr_slots *)

\* [mutant] Every page counts from a first page without the extra slot.
FrameStartWithoutExtra(d, page) ==
    IF page = 0 THEN 0 ELSE PerPage(d, 0) + (page - 1) * PerPage(d, 1)

FrameStart(d, page) ==
    IF page = 0 THEN 0 ELSE FirstCount(d) + (page - 1) * PerPage(d, 1)

FramesLeft(d, page) == Larger(0, d.qrs - FrameStart(d, page))

\* Shard sheets keep their code in view while the text goes on.
Repeats(d, page) == FramesLeft(d, page) = 0 /\ d.style.repeatQr /\ d.kind \in ShardKinds

InGrid(d, page) == IF Repeats(d, page) THEN 1 ELSE Smaller(PerPage(d, page), FramesLeft(d, page))

BesideGrid(d, page) ==
    IF page = 0 THEN Smaller(ExtraSlots(d), Larger(0, FramesLeft(d, page) - InGrid(d, page))) ELSE 0

QrsOn(d, page) ==
    IF ~ShowsQr(d) THEN [from |-> 1, to |-> 0, repeated |-> FALSE]
    ELSE LET start == IF Repeats(d, page) THEN 0 ELSE FrameStart(d, page)
         IN  [from |-> start + 1, to |-> start + InGrid(d, page) + BesideGrid(d, page),
              repeated |-> Repeats(d, page)]

GridRows(d, page) == IF ShowsQr(d) THEN Ceil(InGrid(d, page), Columns(d)) ELSE 0

ShowsInstructions(d, page) == d.kind # "kit" /\ (page = 0 \/ (d.kind = "main" /\ d.style.repeatInstructions))

-----------------------------------------------------------------------------
(* _build_fallback_blocks *)

\* Where the text starts on a page, and the lines there are below.
TextTop(d, page) ==
    Top(d, UsesFirst(d, page)) +
      (IF GridRows(d, page) > 0 THEN GridHeight(d.sheet, GridRows(d, page)) + d.sheet.textGap ELSE 0)

PageCapacity(d, page) ==
    WithinZone(d, page = 0,
        Larger(0, (d.sheet.height - d.sheet.margin - TextTop(d, page)) \div LineHeight(d)))

\* The bonus lines of a template for its recovery pages.
SectionCapacity(d, page, section, token) ==
    LET b == d.style.bonus IN
    IF page = 0
    THEN PageCapacity(d, page) + b.first + (IF d.quorumless THEN b.quorumlessFirst ELSE 0)
           + (IF Len(d.texts) > 1 THEN b.perExtraSection ELSE 0)
    ELSE Larger(0, PageCapacity(d, page) + b.rest
                     - (IF section = 2 /\ token = 0 THEN b.reserved ELSE 0))
           + (IF d.quorumless THEN b.quorumlessRest ELSE 0)

LineCapacity(d, page) ==
    IF page = 0 THEN Smaller(EstimatedLines(d, 0), PageCapacity(d, page)) ELSE PageCapacity(d, page)

\* The bonus groups are in the layout's line length and are added to it once more.
Groups(d, page) ==
    IF Titled(d) THEN LayoutGroups(d, UsesFirst(d, page)) + GroupBonus(d) ELSE LayoutGroups(d, TRUE)

TextRemains == ShowsText(doc) /\ cursor.section <= Len(doc.texts)

-----------------------------------------------------------------------------
PagesInit(d) ==
    /\ doc = d
    /\ phase = "idle"
    /\ total = 0 /\ pages = <<>> /\ blocks = <<>> /\ left = 0
    /\ cursor = [section |-> 1, token |-> 0]
    /\ lines = [i \in 1..Len(d.texts) |-> 0]

(* render_frames_to_pdf up to build_pages *)
LayOut ==
    /\ phase = "idle"
    /\ IF HasRoom(doc, TRUE) /\ HasRoom(doc, UsesFirst(doc, 1))
       THEN phase' = "page" /\ total' = TotalPages(doc)
       ELSE phase' = "refused" /\ UNCHANGED total
    /\ UNCHANGED <<doc, pages, blocks, cursor, lines, left>>

(* The head of the loop of build_pages: the codes of the page, the room for its text. *)
BeginPage ==
    LET page == Len(pages) IN
    /\ phase = "page"
    /\ page < total \/ TextRemains
    /\ pages' = Append(pages, [qrs |-> QrsOn(doc, page), instructions |-> ShowsInstructions(doc, page)])
    /\ \/ /\ ~TextRemains
          /\ UNCHANGED <<phase, left>>
       \/ /\ TextRemains /\ PageCapacity(doc, page) <= 0
          /\ phase' = "refused" /\ UNCHANGED left
       \/ /\ TextRemains /\ PageCapacity(doc, page) > 0
          /\ phase' = "text"
          /\ left' = IF Titled(doc) THEN SectionCapacity(doc, page, cursor.section, cursor.token)
                     ELSE LineCapacity(doc, page)
    /\ UNCHANGED <<doc, total, blocks, cursor, lines>>

(* consume_fallback_blocks: one turn of its loop. *)
FirstBlock == \A k \in 1..Len(blocks) : blocks[k].page # Len(pages)
Gap == IF FirstBlock THEN 0 ELSE 1
Title == IF Titled(doc) /\ cursor.token = 0 THEN 1 ELSE 0
Room == left - Gap - Title

Placeable ==
    /\ TextRemains
    /\ Room > 0
    /\ doc.style.oneSectionFirst /\ Len(pages) = 1 => FirstBlock

\* [mutant] The line number of a section starts over on every page.
AdvancedReset(section, count) == [lines EXCEPT ![section] = count]

\* FallbackConsumerState.advance_line_number
Advanced(section, count) == [lines EXCEPT ![section] = @ + count]

PlaceBlock ==
    LET groups == Groups(doc, Len(pages) - 1)
        size == doc.texts[cursor.section]
        to == Smaller(size, cursor.token + Room * groups)
        used == Ceil(to - cursor.token, groups)
    IN
    /\ phase = "text" /\ Placeable
    /\ blocks' = Append(blocks, [page |-> Len(pages), section |-> cursor.section, titled |-> Title = 1,
                                 gap |-> Gap, from |-> cursor.token + 1, to |-> to,
                                 offset |-> lines[cursor.section], lines |-> used])
    /\ lines' = Advanced(cursor.section, used)
    /\ left' = Room - used
    /\ cursor' = IF to = size THEN [section |-> cursor.section + 1, token |-> 0]
                 ELSE [cursor EXCEPT !.token = to]
    /\ UNCHANGED <<doc, phase, total, pages>>

(* The text of the page ends; a page that took none of it would be followed by the same. *)
EndText ==
    /\ phase = "text" /\ ~Placeable
    /\ phase' = IF TextRemains /\ FirstBlock THEN "refused" ELSE "page"
    /\ UNCHANGED <<doc, total, pages, blocks, cursor, lines, left>>

HasContent(i) ==
    \/ pages[i].qrs.from <= pages[i].qrs.to
    \/ pages[i].instructions
    \/ \E k \in 1..Len(blocks) : blocks[k].page = i

(* The end of build_pages: the last page of a kit, trailing empty pages dropped. *)
FinishPages ==
    LET kept == {i \in 1..Len(pages) : HasContent(i)}
        last == CHOOSE i \in kept : \A j \in kept : j <= i
        printed == IF kept = {} THEN <<>> ELSE SubSeq(pages, 1, last)
        noQrs == [from |-> 1, to |-> 0, repeated |-> FALSE]
    IN
    /\ phase = "page"
    /\ Len(pages) >= total /\ ~TextRemains
    /\ phase' = "printed"
    /\ pages' = IF doc.kind = "kit" THEN Append(pages, [qrs |-> noQrs, instructions |-> TRUE]) ELSE printed
    /\ UNCHANGED <<doc, total, blocks, cursor, lines, left>>

PagesNext == LayOut \/ BeginPage \/ PlaceBlock \/ EndText \/ FinishPages

-----------------------------------------------------------------------------
Follows(b, c) ==
    /\ b.page <= c.page
    /\ \/ /\ c.section = b.section /\ c.from = b.to + 1
          /\ ~c.titled /\ c.offset = b.offset + b.lines
       \/ /\ c.section = b.section + 1 /\ c.from = 1 /\ b.to = doc.texts[b.section]
          /\ c.titled = Titled(doc) /\ c.offset = 0

\* The text runs on from block to block over the pages, titles and line numbers included,
\* and a printed document has all of it.
TextRunsOn ==
    /\ blocks # <<>> => /\ blocks[1].section = 1 /\ blocks[1].from = 1 /\ blocks[1].offset = 0
                        /\ blocks[1].titled = Titled(doc)
    /\ \A k \in 1..(Len(blocks) - 1) : Follows(blocks[k], blocks[k + 1])
    /\ phase = "printed" /\ ShowsText(doc) =>
         /\ blocks # <<>>
         /\ blocks[Len(blocks)].section = Len(doc.texts)
         /\ blocks[Len(blocks)].to = doc.texts[Len(doc.texts)]
=============================================================================
