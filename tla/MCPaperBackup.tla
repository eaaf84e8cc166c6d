--------------------------- MODULE MCPaperBackup ---------------------------
(***************************************************************************)
(* Three families of backups: ciphertexts of every small length, where the *)
(* question is the size of a chunk; documents on real sheets with the      *)
(* numbers of the templates, where it is the pages; and small documents on *)
(* small sheets, which are read again.                                     *)
(***************************************************************************)
EXTENDS PaperBackup

CONSTANTS noise

MCTooLarge(joined) == FALSE
MCShellLen(n) == IF n < 10 THEN 9 ELSE 10

-----------------------------------------------------------------------------
(* Templates (render/template_style.py and the style.json of each). *)

NoZone == [floor |-> 0, first |-> 0, rest |-> 0]
NoZones == [recovery |-> NoZone, shard |-> NoZone, signing |-> NoZone]
NoGroups == [recovery |-> 0, shard |-> 0, signing |-> 0]

Plain == [advanced |-> FALSE, uniform |-> FALSE, repeatInstructions |-> FALSE, repeatQr |-> FALSE,
          extraSlot |-> FALSE, oneSectionFirst |-> FALSE, quorumlessGroups |-> 0, groups |-> NoGroups,
          estimate |-> [shard |-> 0, signing |-> 0], zone |-> NoZones, bonus |-> NoBonus]

Maritime == [Plain EXCEPT !.repeatInstructions = TRUE]
Uniform == [Plain EXCEPT !.uniform = TRUE]
Archive == [Plain EXCEPT !.groups = [recovery |-> 5, shard |-> 10, signing |-> 10],
                         !.bonus = [NoBonus EXCEPT !.first = 13, !.rest = 16, !.perExtraSection = 2]]
Forge == [Plain EXCEPT !.advanced = TRUE, !.oneSectionFirst = TRUE, !.repeatQr = TRUE,
                       !.groups.signing = 2, !.estimate = [shard |-> 1, signing |-> 3],
                       !.bonus = [NoBonus EXCEPT !.reserved = 1],
                       !.zone = [recovery |-> [floor |-> 58, first |-> 702, rest |-> 0],
                                 shard |-> [floor |-> 48, first |-> 432, rest |-> 624],
                                 signing |-> [floor |-> 42, first |-> 378, rest |-> 546]]]
Sentinel == [Plain EXCEPT !.advanced = TRUE, !.repeatQr = TRUE, !.extraSlot = TRUE,
                          !.quorumlessGroups = 1, !.groups.signing = 3,
                          !.bonus = [NoBonus EXCEPT !.quorumlessFirst = 5, !.quorumlessRest = 2],
                          !.zone = [recovery |-> [floor |-> 58, first |-> 354, rest |-> 0],
                                    shard |-> [floor |-> 48, first |-> 480, rest |-> 528],
                                    signing |-> [floor |-> 42, first |-> 714, rest |-> 462]]]
Styles == {Plain, Maritime, Uniform, Archive, Forge, Sentinel}

Page(height) == [height |-> height, width |-> 2100, margin |-> 140, qr |-> 580, gap |-> 30, textGap |-> 25,
                 maxCols |-> 3, maxRows |-> 4, line |-> 42, minLines |-> 10]
A4 == Page(2970)
Letter == Page(2794)

Tops(kind) == IF kind = "recovery" THEN [first |-> 641, rest |-> 466]
              ELSE IF kind = "kit" THEN [first |-> 300, rest |-> 300]
              ELSE [first |-> 475, rest |-> 300]

Groups17 == [first |-> 17, rest |-> 17]

Blank == [kind |-> "main", length |-> 1, smallLen |-> 1, preferred |-> 1, capacity |-> 100, codec |-> "raw",
          strays |-> {}, others |-> [theirs |-> 5], reads |-> 0, rescue |-> FALSE, wrapper |-> 0, escapes |-> {}, quorumless |-> FALSE,
          tops |-> Tops("main"), groups |-> Groups17, sheet |-> A4, style |-> Plain]

-----------------------------------------------------------------------------
(* The size of a chunk: capacities around the length of a frame of no data. *)
Sizing ==
    {[Blank EXCEPT !.length = n, !.preferred = p, !.capacity = c, !.codec = k] :
       n \in 1..40, p \in {1, 2, 5, 12, 50}, c \in 20..33, k \in {"raw", "base64"}}
    \cup {[Blank EXCEPT !.length = n, !.smallLen = 90] : n \in {1, 5}}   \* the AUTH frame does not fit

(* Documents on real pages: frames in number, sections in length. *)
Laid(kind, length, small, sheet, style) ==
    [Blank EXCEPT !.kind = kind, !.length = length, !.smallLen = small, !.preferred = 20, !.capacity = 2000,
                  !.sheet = sheet, !.style = style, !.tops = Tops(kind)]

Laying ==
    LET kinds(b, S) == {[b EXCEPT !.quorumless = q] : q \in S} IN
    {Laid("main", n, 1, sheet, style) :
       n \in {1, 60, 100, 120, 160, 180, 200, 219, 220, 221, 300, 400, 500}, sheet \in {A4, Letter}, style \in Styles}
    \cup UNION {kinds(Laid("recovery", n, s, sheet, style), BOOLEAN) :
       n \in {1, 300, 1000, 1800, 2200, 3000, 6000}, s \in {150, 900}, sheet \in {A4, Letter}, style \in Styles}
    \cup {Laid(kind, 1, s, sheet, style) :
       kind \in ShardKinds, s \in {1, 150, 400, 700, 1000, 1500}, sheet \in {A4, Letter}, style \in Styles}

(* Kits: preferred is the size of a chunk, 0 for the default. *)
Kits ==
    {[Blank EXCEPT !.kind = "kit", !.length = n, !.preferred = p, !.capacity = c, !.wrapper = 4,
                   !.escapes = e, !.tops = Tops("kit"), !.style = style, !.reads = r] :
       n \in {1, 7}, p \in {0, 8, 9, 11, 14, 60}, c \in {8, 14, 40, 60}, e \in {{}, {2, 3, 7}},
       style \in {Plain, Forge}, r \in {0, 4}}

(* Small sheets: two codes to a row, one or two rows. *)
Sheet(height) == [height |-> height, width |-> 24, margin |-> 1, qr |-> 10, gap |-> 2, textGap |-> 1,
                  maxCols |-> 2, maxRows |-> 3, line |-> 2, minLines |-> 2]

Small(kind, height, style) ==
    [Blank EXCEPT !.kind = kind, !.sheet = Sheet(height), !.style = style,
                  !.tops = [first |-> 3, rest |-> 2], !.groups = [first |-> 3, rest |-> 2]]

SmallSheets ==
    {[Small(kind, h, [Plain EXCEPT !.repeatQr = r]) EXCEPT !.length = n, !.smallLen = n] :
       kind \in {"main", "recovery", "shard"}, h \in 3..32, n \in {1, 9, 30}, r \in BOOLEAN}

Other(i) == MainFrame("theirs", 5, 2, i)

Scanned ==
    {[Small("main", 30, Plain) EXCEPT !.length = 6, !.preferred = p, !.reads = 4,
        !.strays = {noise, MainFrame(Ours, 6, 3, 1), MainFrame(Ours, 6, 3, 2), Other(0), Other(1),
                    AuthFrame("theirs"), KeyFrame(Ours)}] :
       p \in {2, 3, 6}}
    \cup {[Small(kind, 30, [Plain EXCEPT !.repeatQr = TRUE]) EXCEPT !.smallLen = n, !.reads = 3,
             !.strays = {noise, KeyFrame("theirs"), AuthFrame(Ours)}] :
            kind \in ShardKinds, n \in {1, 40}}

AnotherLine == [title |-> NoTitle, section |-> 0, from |-> 1, to |-> 1]

TypedIn ==
    {[Small("recovery", h, Plain) EXCEPT !.length = n, !.smallLen = 5, !.reads = 4, !.rescue = r,
        !.strays = {AnotherLine}] :
       h \in {20, 30}, n \in {1, 12}, r \in BOOLEAN}

MCBackups == Sizing \cup Laying \cup Kits \cup SmallSheets \cup Scanned \cup TypedIn
=============================================================================
