-------------------------- MODULE UserConfig_proofs --------------------------
(***************************************************************************)
(* Proofs about UserConfig, for any number of runs, requests, faults,      *)
(* kills and edits, and any settings.                                      *)
(***************************************************************************)
EXTENDS UserConfig, FiniteSetTheorems, TLAPS

-------------------------------------------------------------------------------
(* Texts *)

(* Texts whose table defaults.backup has its own header, or is absent. *)
Plain(text) == text.layout \in {"none", "section"}
PlainHands == \A text \in HandTexts : Plain(text)

(* A text pairs its counts; where users write plain texts, it is plain.    *)
Good == {text \in Text : Paired(text) /\ (PlainHands => Plain(text))}

(* The texts the program starts from. *)
LEMMA FirstTexts ==
  /\ BuiltIn \in Values /\ Consistent(BuiltIn)
  /\ Empty \in Good /\ Broken \in Good /\ PackagedText \in Good /\ HandTexts \subseteq Good
<1>1. BuiltIn \in Values /\ Consistent(BuiltIn)
  BY SettingsAssumption DEF BuiltIn, Values, Consistent
<1>2. Reads(Empty, BuiltIn) = [k \in Settings |-> BuiltIn[k]]
      /\ Reads(Broken, BuiltIn) = [k \in Settings |-> BuiltIn[k]]
      /\ Reads(PackagedText, BuiltIn) = [k \in Settings |-> BuiltIn[k]]
  BY DEF Reads, Empty, Broken, PackagedText
<1>3. Consistent([k \in Settings |-> BuiltIn[k]])
  BY <1>1 DEF Consistent, Settings, BackupKeys
<1>4. Empty \in Text /\ Broken \in Text /\ PackagedText \in Text
  BY <1>1 DEF Text, Empty, Broken, PackagedText, Layouts, Settings, BackupKeys
<1>5. Empty.layout # "dotted" /\ Broken.layout # "dotted" /\ PackagedText.layout # "dotted"
  BY DEF Empty, Broken, PackagedText
<1>6. QED
  <2>1. Empty \in Good /\ Broken \in Good /\ PackagedText \in Good
    BY <1>1, <1>2, <1>3, <1>4, <1>5 DEF Good, Paired, Plain, Empty, Broken, PackagedText
  <2>2. HandTexts \subseteq Good
    BY HandTextsAssumption DEF Good, PlainHands
  <2>3. QED
    BY <1>1, <2>1, <2>2

(* What is read from a text has the types of the settings. *)
LEMMA ReadsTyped ==
  ASSUME NEW text \in Text, NEW fallback \in Values
  PROVE  Reads(text, fallback) \in Values
<1>1. text.values \in Values
  BY DEF Text
<1> DEFINE v == Reads(text, fallback)
<1>2. v = [k \in Settings |-> IF k \in text.keys THEN text.values[k] ELSE fallback[k]]
  BY DEF Reads
<1>3. DOMAIN v = {"page", "threshold", "count", "codec"}
      /\ v["page"] \in Pages /\ v["threshold"] \in 0..MaxShards
      /\ v["count"] \in 0..MaxShards /\ v["codec"] \in Codecs
  BY <1>1, <1>2 DEF Values, Settings, BackupKeys
<1>4. v = [page |-> v["page"], threshold |-> v["threshold"], count |-> v["count"],
           codec |-> v["codec"]]
  BY <1>2, <1>3
<1>5. QED
  BY <1>3, <1>4 DEF Values

(* The values a patch is merged into have their types, and so do the       *)
(* merged ones.                                                            *)
LEMMA MergedTyped ==
  ASSUME NEW v \in Values, NEW asks, DOMAIN asks \subseteq Settings,
         \E w \in Values : \A k \in DOMAIN asks : asks[k] = w[k]
  PROVE  Merged(v, asks) \in Values
<1>1. PICK w \in Values : \A k \in DOMAIN asks : asks[k] = w[k]
  OBVIOUS
<1> DEFINE m == Merged(v, asks)
<1>2. m = [k \in Settings |-> IF k \in DOMAIN asks THEN w[k] ELSE v[k]]
  BY <1>1 DEF Merged
<1>3. DOMAIN m = {"page", "threshold", "count", "codec"}
      /\ m["page"] \in Pages /\ m["threshold"] \in 0..MaxShards
      /\ m["count"] \in 0..MaxShards /\ m["codec"] \in Codecs
  BY <1>2 DEF Values, Settings, BackupKeys
<1>4. m = [page |-> m["page"], threshold |-> m["threshold"], count |-> m["count"],
           codec |-> m["codec"]]
  BY <1>2, <1>3
<1>5. QED
  BY <1>3, <1>4 DEF Values

(* Writing consistent values into a text that pairs its counts leaves one: *)
(* both counts are written, or neither is there.                           *)
LEMMA WrittenGood ==
  ASSUME NEW text \in Good, NEW v \in Values, Consistent(v)
  PROVE  Written(text, v) \in Good
<1>1. CASE ~text.parses \/ text.layout = "inline"
  BY <1>1, FirstTexts DEF Written
<1>2. CASE text.parses /\ text.layout # "inline"
  <2> DEFINE R == Reached(text)
             vs == [k \in Settings |-> IF k \in R THEN v[k] ELSE text.values[k]]
             w == [text EXCEPT !.headed = TRUE,
                     !.layout = IF text.layout = "none" THEN "section" ELSE text.layout,
                     !.keys = text.keys \cup R, !.stray = text.stray \cup (Settings \ R),
                     !.values = vs]
  <2>1. Written(text, v) = w
    BY <1>2 DEF Written
  <2>2. text \in Text /\ Paired(text) /\ text.values \in Values
    BY DEF Good, Text
  <2>3. R \subseteq Settings /\ "page" \in R
        /\ R = IF text.layout = "dotted" THEN text.keys \cup {"page"} ELSE Settings
    BY <2>2 DEF Reached, Text, Settings
  <2>4. vs \in Values
    <3>1. DOMAIN vs = {"page", "threshold", "count", "codec"}
          /\ vs["page"] \in Pages /\ vs["threshold"] \in 0..MaxShards
          /\ vs["count"] \in 0..MaxShards /\ vs["codec"] \in Codecs
      BY <2>2 DEF Values, Settings, BackupKeys
    <3>2. vs = [page |-> vs["page"], threshold |-> vs["threshold"], count |-> vs["count"],
                codec |-> vs["codec"]]
      BY <3>1
    <3>3. QED
      BY <3>1, <3>2 DEF Values
  <2>5. /\ vs["threshold"] = IF "threshold" \in R THEN v["threshold"] ELSE text.values["threshold"]
        /\ vs["count"] = IF "count" \in R THEN v["count"] ELSE text.values["count"]
    BY DEF Settings, BackupKeys
  <2> HIDE DEF vs, R
  <2>6. w \in Text
    BY <2>2, <2>3, <2>4 DEF Text, Layouts, Settings
  <2>7. w.layout = "dotted" => text.layout = "dotted"
    BY <2>2 DEF Text
  <2>8. w.keys = text.keys \cup R /\ w.values = vs
    BY <2>2 DEF Text
  <2>9. "threshold" \in w.keys <=> "count" \in w.keys
    BY <2>2, <2>3, <2>8 DEF Paired, Settings, BackupKeys
  <2> DEFINE q == Reads(w, BuiltIn)
  <2>10. /\ q.threshold = IF "threshold" \in w.keys THEN vs["threshold"] ELSE 0
         /\ q.count = IF "count" \in w.keys THEN vs["count"] ELSE 0
    BY <2>8 DEF Reads, BuiltIn, Settings, BackupKeys
  <2>11. /\ "threshold" \in w.keys <=> "threshold" \in R
         /\ "count" \in w.keys <=> "count" \in R
    BY <2>2, <2>3, <2>8 DEF Settings, BackupKeys, Text
  <2>12. Consistent(q)
    <3>1. CASE "threshold" \in w.keys
      BY <3>1, <2>5, <2>9, <2>10, <2>11 DEF Consistent
    <3>2. CASE "threshold" \notin w.keys
      BY <3>2, <2>9, <2>10 DEF Consistent
    <3>3. QED
      BY <3>1, <3>2
  <2>13. QED
    <3>1. PlainHands => Plain(w)
      BY <2>2 DEF Good, Plain, Text
    <3>2. QED
      BY <2>1, <2>6, <2>9, <2>12, <3>1 DEF Good, Paired
<1>3. QED
  BY <1>1, <1>2

(* The migration touches no count. *)
LEMMA MigratedGood ==
  ASSUME NEW text \in Good
  PROVE  Migrated(text) \in Good
<1>1. text \in Text /\ Paired(text) /\ text.values \in Values
  BY DEF Good, Text
<1> DEFINE c == WithCodec(text)
           vs == [text.values EXCEPT !.codec = DefaultCodec]
<1>2. vs \in Values /\ vs.threshold = text.values.threshold /\ vs.count = text.values.count
  BY <1>1, SettingsAssumption DEF Values
<1>3. /\ c \in Text /\ c.layout = text.layout /\ c.keys = text.keys \cup {"codec"}
      /\ c.values = vs
  BY <1>1, <1>2 DEF WithCodec, Text, Settings, BackupKeys
<1> HIDE DEF c, vs
<1>4. ASSUME NEW t \in Text, t.keys \subseteq text.keys \cup {"codec"}, text.keys \subseteq t.keys,
             t.values = vs \/ t.values = text.values,
             t.layout = text.layout \/ t.layout = "section"
      PROVE  t \in Good
  <2> DEFINE q == Reads(t, BuiltIn)
             p == Reads(text, BuiltIn)
  <2>1. q.threshold = p.threshold /\ q.count = p.count
    BY <1>2, <1>4 DEF Reads, Settings, BackupKeys
  <2>2. Consistent(p)
    BY <1>1 DEF Paired
  <2>3. Consistent(q)
    BY <2>1, <2>2 DEF Consistent
  <2>4. t.layout = "dotted" => ("threshold" \in t.keys <=> "count" \in t.keys)
    BY <1>1, <1>4 DEF Paired
  <2>5. QED
    BY <1>4, <2>3, <2>4 DEF Good, Paired, Plain
<1>5. c \in Good
  BY <1>3, <1>4
<1>6. [c EXCEPT !.layout = "section", !.headed = TRUE] \in Good
  <2> DEFINE t == [c EXCEPT !.layout = "section", !.headed = TRUE]
  <2>1. t \in Text /\ t.keys = c.keys /\ t.values = c.values /\ t.layout = "section"
    BY <1>3 DEF Text, Layouts
  <2> HIDE DEF t
  <2>2. t \in Good
    BY <1>3, <1>4, <2>1
  <2>3. QED
    BY <2>2 DEF t
<1>7. [text EXCEPT !.stray = @ \cup {"codec"}] \in Good
  <2> DEFINE t == [text EXCEPT !.stray = @ \cup {"codec"}]
  <2>1. t \in Text /\ t.keys = text.keys /\ t.values = text.values /\ t.layout = text.layout
    BY <1>1 DEF Text, Settings, BackupKeys
  <2> HIDE DEF t
  <2>2. t \in Good
    BY <1>4, <2>1
  <2>3. QED
    BY <2>2 DEF t
<1>8. Broken \in Good
  BY FirstTexts
<1>9. Migrated(text) \in {c, [c EXCEPT !.layout = "section", !.headed = TRUE],
                          [text EXCEPT !.stray = @ \cup {"codec"}], Broken}
  BY DEF Migrated, c
<1>10. QED
  BY <1>5, <1>6, <1>7, <1>8, <1>9

(* Written into a plain text, every value is found again. *)
LEMMA WrittenFound ==
  ASSUME NEW text \in Good, NEW v, Plain(text), text.parses
  PROVE  /\ Written(text, v).parses /\ Written(text, v).keys = Settings
         /\ Written(text, v).values = [k \in Settings |-> v[k]]
<1>1. text \in Text
  BY DEF Good
<1>2. Reached(text) = Settings
  BY DEF Reached, Plain
<1>3. text.keys \cup Settings = Settings
  BY <1>1 DEF Text
<1>4. QED
  BY <1>1, <1>2, <1>3 DEF Written, Plain, Text

(* Migrated, a plain text keeps what it sets. *)
LEMMA MigratedKeeps ==
  ASSUME NEW text \in Good, Plain(text), Migrates(text)
  PROVE  Migrated(text).parses /\ Keeps(text, Migrated(text), {})
<1>1. text \in Text /\ "codec" \notin text.keys /\ text.parses
  BY DEF Good, Migrates
<1> DEFINE c == WithCodec(text)
<1>2. c.parses /\ c.keys = text.keys \cup {"codec"} /\ c.layout = text.layout
      /\ c.values = [text.values EXCEPT !.codec = DefaultCodec]
  BY <1>1 DEF WithCodec, Text
<1>0. c \in Text
  <2> DEFINE vs == [text.values EXCEPT !.codec = DefaultCodec]
  <2>1. text.values \in Values
    BY <1>1 DEF Text
  <2>2. vs \in Values
    BY <2>1, SettingsAssumption DEF Values
  <2>3. c = [text EXCEPT !.keys = text.keys \cup {"codec"}, !.values = vs]
    BY <1>1, <2>1 DEF WithCodec, Text, Values
  <2> HIDE DEF vs
  <2>4. QED
    BY <1>1, <2>2, <2>3 DEF Text, Settings, BackupKeys
<1> HIDE DEF c
<1>3. Keeps(text, c, {})
  <2>1. SUFFICES ASSUME NEW k \in text.keys
                 PROVE  k \in c.keys /\ c.values[k] = text.values[k]
    BY DEF Keeps
  <2>2. k \in {"page", "threshold", "count"} /\ text.values \in Values
    BY <1>1 DEF Text, Settings, BackupKeys
  <2>3. c.values[k] = text.values[k]
    BY <1>2, <2>2 DEF Values
  <2>4. QED
    BY <1>2, <2>3
<1>4. CASE text.layout = "section"
  BY <1>2, <1>3, <1>4 DEF Migrated, c
<1>5. CASE text.layout = "none"
  <2> DEFINE m == [c EXCEPT !.layout = "section", !.headed = TRUE]
  <2>1. Migrated(text) = m
    BY <1>5 DEF Migrated, c
  <2>2. m.parses = c.parses /\ m.keys = c.keys /\ m.values = c.values
    BY <1>0 DEF Text
  <2>3. QED
    BY <1>2, <1>3, <2>1, <2>2 DEF Keeps
<1>6. QED
  BY <1>4, <1>5 DEF Plain

-------------------------------------------------------------------------------
(* Files *)

Inode == Inodes \cup {NoInode}

(* The markers, with what a patch may ask of the marker. *)
Marks == Markers \cup {"keep"}

RunState ==
  [pc : {"idle", "check", "create", "fill", "migrate", "bak", "fillBak", "tmp", "fillTmp",
         "swap", "sync", "ask", "read", "reread", "write", "mark", "undo", "undoMark", "end"},
   request : Requests \cup {Idle.request}, path : {"config", "packaged"}, round : {1, 2},
   out : Inode, in : Inode, found : BOOLEAN, text : Good, new : Good, before : Marks,
   alone : BOOLEAN, faults : Nat, misread : BOOLEAN, outcome : {"none", "ok", "failed"}]

(* A run that copies has the file it copies from open. *)
TInv ==
  /\ dir \in [Names -> Inode] /\ data \in [Inodes -> Good]
  /\ packaged \in Good /\ marker \in Marks
  /\ run \in [Runs -> RunState]
  /\ \A r \in Runs : run[r].pc = "fillBak" => run[r].in \in Inodes

(* A set is no larger than one that is mapped onto it. *)
LEMMA OntoSize ==
  ASSUME NEW S, NEW T, NEW f \in [S -> T], IsFiniteSet(S), \A t \in T : \E x \in S : f[x] = t
  PROVE  IsFiniteSet(T) /\ Cardinality(T) <= Cardinality(S)
<1>1. f \in Surjection(S, T)
  BY DEF Surjection
<1>2. QED
  BY <1>1, FS_Surjection

(* The directory has finitely many names. *)
LEMMA NamesFinite == IsFiniteSet(Names)
<1>1. IsFiniteSet({} \cup {"config"})
  BY FS_EmptySet, FS_AddElement, Zenon
<1>2. IsFiniteSet(({} \cup {"config"}) \cup {"bak"})
  BY <1>1, FS_AddElement, Zenon
<1>3. IsFiniteSet((({} \cup {"config"}) \cup {"bak"}) \cup {"tmp"})
  BY <1>2, FS_AddElement, Zenon
<1>4. (({} \cup {"config"}) \cup {"bak"}) \cup {"tmp"} = Names
  BY DEF Names
<1>5. QED
  BY <1>3, <1>4

(* There is an inode for a new file: every name and every run hold as many *)
(* as they can.                                                            *)
LEMMA NewInodeFree ==
  ASSUME TInv
  PROVE  NewInode \in Inodes \ InUse(dir, run)
<1> DEFINE D == {dir[n] : n \in Names}
           O == {run[r].out : r \in Runs}
           I == {run[r].in : r \in Runs}
           U == InUse(dir, run)
<1>1. IsFiniteSet(Names) /\ Cardinality(Names) \in Nat
  <2>1. IsFiniteSet(Names)
    BY NamesFinite
  <2>2. QED
    BY <2>1, FS_CardinalityType
<1>2. IsFiniteSet(Runs) /\ Cardinality(Runs) \in Nat
  BY RunsAssumption, FS_CardinalityType
<1>3. IsFiniteSet(D) /\ Cardinality(D) <= Cardinality(Names)
  <2> DEFINE f == [n \in Names |-> dir[n]]
  <2>1. f \in [Names -> D] /\ \A d \in D : \E n \in Names : f[n] = d
    OBVIOUS
  <2> HIDE DEF f, D
  <2>2. QED
    BY <1>1, <2>1, OntoSize
<1>4. IsFiniteSet(O) /\ Cardinality(O) <= Cardinality(Runs)
  <2> DEFINE f == [r \in Runs |-> run[r].out]
  <2>1. f \in [Runs -> O] /\ \A d \in O : \E r \in Runs : f[r] = d
    OBVIOUS
  <2> HIDE DEF f, O
  <2>2. QED
    BY <1>2, <2>1, OntoSize
<1>5. IsFiniteSet(I) /\ Cardinality(I) <= Cardinality(Runs)
  <2> DEFINE f == [r \in Runs |-> run[r].in]
  <2>1. f \in [Runs -> I] /\ \A d \in I : \E r \in Runs : f[r] = d
    OBVIOUS
  <2> HIDE DEF f, I
  <2>2. QED
    BY <1>2, <2>1, OntoSize
<1> HIDE DEF D, O, I
<1>6. /\ IsFiniteSet(D \cup O)
      /\ Cardinality(D \cup O) <= Cardinality(D) + Cardinality(O)
      /\ Cardinality(D \cup O) \in Nat /\ Cardinality(D) \in Nat /\ Cardinality(O) \in Nat
  <2>1. /\ IsFiniteSet(D \cup O)
        /\ Cardinality(D \cup O) = Cardinality(D) + Cardinality(O) - Cardinality(D \cap O)
    BY <1>3, <1>4, FS_Union
  <2>2. Cardinality(D \cap O) \in Nat
    BY <1>3, FS_Intersection, FS_CardinalityType
  <2>3. Cardinality(D \cup O) \in Nat /\ Cardinality(D) \in Nat /\ Cardinality(O) \in Nat
    BY <1>3, <1>4, <2>1, FS_CardinalityType
  <2>4. QED
    BY <2>1, <2>2, <2>3
<1>7. /\ IsFiniteSet((D \cup O) \cup I)
      /\ Cardinality((D \cup O) \cup I) <= Cardinality(D \cup O) + Cardinality(I)
      /\ Cardinality((D \cup O) \cup I) \in Nat /\ Cardinality(I) \in Nat
  <2>1. /\ IsFiniteSet((D \cup O) \cup I)
        /\ Cardinality((D \cup O) \cup I)
              = Cardinality(D \cup O) + Cardinality(I) - Cardinality((D \cup O) \cap I)
    BY <1>5, <1>6, FS_Union
  <2>2. Cardinality((D \cup O) \cap I) \in Nat
    BY <1>6, FS_Intersection, FS_CardinalityType
  <2>3. Cardinality((D \cup O) \cup I) \in Nat /\ Cardinality(I) \in Nat
    BY <1>5, <2>1, FS_CardinalityType
  <2>4. QED
    BY <1>6, <2>1, <2>2, <2>3
<1> DEFINE N == Cardinality(Names) + 2 * Cardinality(Runs) + 1
<1>8. N \in Nat /\ Cardinality((D \cup O) \cup I) < N
  BY <1>1, <1>2, <1>3, <1>4, <1>5, <1>6, <1>7
<1>9. IsFiniteSet(Inodes) /\ Cardinality(Inodes) = N
  <2>1. 1 \in Int /\ N \in Int /\ Inodes = 1..N /\ ~(1 > N) /\ N - 1 + 1 = N
    BY <1>1, <1>2 DEF Inodes
  <2> HIDE DEF N
  <2>2. IsFiniteSet(1..N) /\ Cardinality(1..N) = IF 1 > N THEN 0 ELSE N - 1 + 1
    BY <2>1, FS_Interval
  <2>3. QED
    BY <2>1, <2>2
<1>10. U \subseteq (D \cup O) \cup I
  BY DEF InUse, D, O, I
<1> HIDE DEF N, U
<1>11. \E i \in Inodes : i \notin U
  <2>1. SUFFICES ASSUME Inodes \subseteq (D \cup O) \cup I
                 PROVE  FALSE
    BY <1>10
  <2>2. Cardinality(Inodes) <= Cardinality((D \cup O) \cup I)
    BY <1>7, <2>1, FS_Subset
  <2>3. QED
    BY <1>7, <1>8, <1>9, <2>2
<1>12. QED
  BY <1>11 DEF NewInode, U

(* What is kept of good texts is good. *)
LEMMA UpdateTyped ==
  ASSUME NEW texts \in [Inodes -> Good], Update(texts)
  PROVE  data' \in [Inodes -> Good]
BY FirstTexts DEF Update, Kept

(* Replacing and truncating a file. *)
LEMMA ReplaceTyped ==
  ASSUME TInv, NEW name \in Names, NEW text \in Good, Replace(name, text)
  PROVE  dir' \in [Names -> Inode] /\ data' \in [Inodes -> Good]
<1>1. NewInode \in Inodes
  BY NewInodeFree
<1>2. dir' \in [Names -> Inode]
  BY <1>1 DEF TInv, Replace, Inode
<1>3. [data EXCEPT ![NewInode] = text] \in [Inodes -> Good]
  BY <1>1 DEF TInv
<1>4. QED
  BY <1>2, <1>3, UpdateTyped DEF Replace

LEMMA TruncateTyped ==
  ASSUME TInv, NEW name \in Names, Truncate(name)
  PROVE  dir' \in [Names -> Inode] /\ data' \in [Inodes -> Good] /\ Opened(name) \in Inodes
<1>1. NewInode \in Inodes
  BY NewInodeFree
<1>2. Opened(name) \in Inodes
  BY <1>1 DEF TInv, Opened, Exists, Inode
<1>3. dir' \in [Names -> Inode]
  BY <1>2 DEF TInv, Truncate, Inode
<1>4. [data EXCEPT ![Opened(name)] = Empty] \in [Inodes -> Good]
  BY <1>2, FirstTexts DEF TInv
<1>5. QED
  BY <1>2, <1>3, <1>4, UpdateTyped DEF Truncate

(* A file that exists has a good text. *)
LEMMA ContentGood ==
  ASSUME TInv, NEW name \in Names, Exists(name)
  PROVE  dir[name] \in Inodes /\ ContentOf(name) \in Good
BY DEF TInv, Exists, ContentOf, Inode

-------------------------------------------------------------------------------
(* Runs *)

RunsOK ==
  /\ run' \in [Runs -> RunState]
  /\ \A r \in Runs : run'[r].pc = "fillBak" => run'[r].in \in Inodes

FilesOK == dir' \in [Names -> Inode] /\ data' \in [Inodes -> Good] /\ packaged' \in Good

(* One run changes its state. *)
LEMMA SetRun ==
  ASSUME TInv, NEW r \in Runs, NEW u \in RunState, run' = [run EXCEPT ![r] = u],
         u.pc = "fillBak" => u.in \in Inodes
  PROVE  RunsOK
BY DEF TInv, RunsOK

(* A run goes on, quits, ends, or has resolved the path. *)
LEMMA GoTyped ==
  ASSUME TInv, NEW r \in Runs,
         NEW pc \in {"create", "fill", "migrate", "tmp", "swap", "sync", "check", "read", "write",
                     "mark", "undo"},
         Go(r, pc)
  PROVE  RunsOK
<1> DEFINE u == [run[r] EXCEPT !.pc = pc]
<1>1. run[r] \in RunState
  BY DEF TInv
<1>2. u \in RunState /\ u.pc = pc
  BY <1>1 DEF RunState
<1>3. run' = [run EXCEPT ![r] = u]
  BY Zenon DEF Go
<1> HIDE DEF u
<1>4. QED
  BY <1>2, <1>3, SetRun

LEMMA QuitTyped ==
  ASSUME TInv, NEW r \in Runs, Quit(r)
  PROVE  RunsOK
<1>1. Idle \in RunState /\ Idle.pc = "idle"
  BY FirstTexts DEF Idle, RunState, Inode, Marks, Markers
<1>2. QED
  BY <1>1, SetRun DEF Quit

LEMMA EndTyped ==
  ASSUME TInv, NEW r \in Runs, NEW outcome \in {"ok", "failed"}, End(r, outcome)
  PROVE  RunsOK
<1> DEFINE u == [run[r] EXCEPT !.pc = "end", !.outcome = outcome, !.new = Empty,
                               !.out = NoInode, !.in = NoInode]
<1>1. run[r] \in RunState /\ Empty \in Good
  BY FirstTexts DEF TInv
<1>2. u \in RunState /\ u.pc = "end"
  BY <1>1 DEF RunState, Inode
<1>3. run' = [run EXCEPT ![r] = u]
  BY DEF End, TInv
<1> HIDE DEF u
<1>4. QED
  BY <1>2, <1>3, SetRun

LEMMA ResolvedTyped ==
  ASSUME TInv, NEW r \in Runs, NEW path \in {"config", "packaged"}, Resolved(r, path)
  PROVE  RunsOK
<1>1. CASE Quit(r)
  BY <1>1, QuitTyped
<1>2. CASE ~Quit(r)
  <2> DEFINE next == IF Onboards(r) /\ run[r].round = 1 THEN "ask" ELSE "read"
             u == [run[r] EXCEPT !.path = path, !.out = NoInode, !.in = NoInode,
                                 !.new = Empty, !.pc = next]
  <2>1. run[r] \in RunState /\ Empty \in Good
    BY FirstTexts DEF TInv
  <2>2. next \in {"ask", "read"}
    OBVIOUS
  <2>3. run' = [run EXCEPT ![r].path = path, ![r].out = NoInode, ![r].in = NoInode,
                           ![r].new = Empty, ![r].pc = next]
    BY <1>2, Zenon DEF Resolved
  <2> HIDE DEF next
  <2>4. run' = [run EXCEPT ![r] = u]
    BY <2>3 DEF TInv
  <2>5. u \in RunState /\ u.pc = next
    BY <2>1, <2>2 DEF RunState, Inode
  <2> HIDE DEF u
  <2>6. QED
    BY <2>2, <2>4, <2>5, SetRun
<1>3. QED
  BY <1>1, <1>2

LEMMA NotInstalledTyped ==
  ASSUME TInv, NEW r \in Runs, NotInstalled(r)
  PROVE  RunsOK
BY QuitTyped, ResolvedTyped, Zenon DEF NotInstalled

-------------------------------------------------------------------------------
(* Every step keeps the types. *)

(* Steps of an installation that open a file. *)
LEMMA OpensTyped ==
  ASSUME TInv, NEW r \in Runs, Create(r) \/ OpenTmp(r) \/ OpenBak(r)
  PROVE  RunsOK /\ FilesOK
<1>1. run[r] \in RunState
  BY DEF TInv
<1>2. CASE Create(r)
  <2> DEFINE x == Opened("config")
             u == [run[r] EXCEPT !.pc = "fill", !.out = x]
  <2>1. x \in Inodes /\ FilesOK
    BY <1>2, TruncateTyped DEF Create, Names, FilesOK, TInv
  <2>2. run' = [run EXCEPT ![r].pc = "fill", ![r].out = x]
    BY <1>2, Zenon DEF Create
  <2> HIDE DEF x
  <2>3. run' = [run EXCEPT ![r] = u]
    BY <2>2 DEF TInv
  <2>4. u \in RunState /\ u.pc = "fill"
    BY <1>1, <2>1 DEF RunState, Inode
  <2> HIDE DEF u
  <2>5. QED
    BY <2>1, <2>3, <2>4, SetRun
<1>3. CASE OpenTmp(r)
  <2> DEFINE x == Opened("tmp")
             u == [run[r] EXCEPT !.pc = "fillTmp", !.out = x]
  <2>1. x \in Inodes /\ FilesOK
    BY <1>3, TruncateTyped DEF OpenTmp, Names, FilesOK, TInv
  <2>2. run' = [run EXCEPT ![r].pc = "fillTmp", ![r].out = x]
    BY <1>3, Zenon DEF OpenTmp
  <2> HIDE DEF x
  <2>3. run' = [run EXCEPT ![r] = u]
    BY <2>2 DEF TInv
  <2>4. u \in RunState /\ u.pc = "fillTmp"
    BY <1>1, <2>1 DEF RunState, Inode
  <2> HIDE DEF u
  <2>5. QED
    BY <2>1, <2>3, <2>4, SetRun
<1>4. CASE OpenBak(r)
  <2> DEFINE x == Opened("bak")
             c == dir["config"]
             u == [run[r] EXCEPT !.pc = "fillBak", !.in = c, !.out = x]
  <2>1. x \in Inodes /\ FilesOK
    BY <1>4, TruncateTyped DEF OpenBak, Names, FilesOK, TInv
  <2>2. run' = [run EXCEPT ![r].pc = "fillBak", ![r].in = c, ![r].out = x]
    BY <1>4, Zenon DEF OpenBak
  <2>3. c \in Inodes
    BY <1>4, ContentGood DEF OpenBak, Names
  <2> HIDE DEF x, c
  <2>4. run' = [run EXCEPT ![r] = u]
    BY <2>2 DEF TInv
  <2>5. u \in RunState /\ u.pc = "fillBak" /\ u.in = c
    BY <1>1, <2>1, <2>3 DEF RunState, Inode
  <2> HIDE DEF u
  <2>6. QED
    BY <2>1, <2>3, <2>4, <2>5, SetRun
<1>5. QED
  BY <1>2, <1>3, <1>4

(* Steps of an installation that write to what they opened. *)
LEMMA FillsTyped ==
  ASSUME TInv, NEW r \in Runs, Fill(r) \/ FillBak(r) \/ FillTmp(r)
  PROVE  RunsOK /\ FilesOK
<1>1. run[r] \in RunState
  BY DEF TInv
<1>2. ASSUME NEW text \in Good, UNCHANGED <<dir, packaged>>,
             Update([data EXCEPT ![run[r].out] = text])
      PROVE  FilesOK
  <2>1. [data EXCEPT ![run[r].out] = text] \in [Inodes -> Good]
    BY DEF TInv
  <2>2. QED
    BY <1>2, <2>1, UpdateTyped DEF FilesOK, TInv
<1>3. CASE Fill(r)
  <2> DEFINE u == [run[r] EXCEPT !.pc = "migrate", !.out = NoInode]
  <2>1. run' = [run EXCEPT ![r] = u]
    BY <1>3 DEF Fill, TInv
  <2>2. u \in RunState /\ u.pc = "migrate"
    BY <1>1 DEF RunState, Inode
  <2>3. FilesOK
    BY <1>2, <1>3 DEF Fill, TInv
  <2> HIDE DEF u
  <2>4. QED
    BY <2>1, <2>2, <2>3, SetRun
<1>4. CASE FillBak(r)
  <2> DEFINE u == [run[r] EXCEPT !.pc = "tmp", !.in = NoInode, !.out = NoInode]
  <2>1. run' = [run EXCEPT ![r] = u]
    BY <1>4 DEF FillBak, TInv
  <2>2. u \in RunState /\ u.pc = "tmp"
    BY <1>1 DEF RunState, Inode
  <2>3. data[run[r].in] \in Good
    BY <1>4 DEF FillBak, At, TInv
  <2>4. FilesOK
    BY <1>2, <1>4, <2>3, Zenon DEF FillBak
  <2> HIDE DEF u
  <2>5. QED
    BY <2>1, <2>2, <2>4, SetRun
<1>5. CASE FillTmp(r)
  <2> DEFINE u == [run[r] EXCEPT !.pc = "swap", !.out = NoInode]
  <2>1. run' = [run EXCEPT ![r] = u]
    BY <1>5 DEF FillTmp, TInv
  <2>2. u \in RunState /\ u.pc = "swap"
    BY <1>1 DEF RunState, Inode
  <2>3. run[r].new \in Good
    BY <1>1 DEF RunState
  <2>4. FilesOK
    BY <1>2, <1>5, <2>3, Zenon DEF FillTmp
  <2> HIDE DEF u
  <2>5. QED
    BY <2>1, <2>2, <2>4, SetRun
<1>6. QED
  BY <1>3, <1>4, <1>5

(* The other steps of an installation. *)
LEMMA InstallTyped ==
  ASSUME TInv, NEW r \in Runs,
         Check(r) \/ Migrate(r) \/ Swap(r) \/ Sync(r) \/ Missing(r) \/ InstallFault(r)
  PROVE  RunsOK /\ FilesOK
<1>1. run[r] \in RunState /\ data \in [Inodes -> Good] /\ Broken \in Good
  BY FirstTexts DEF TInv
<1>2. UNCHANGED <<files, packaged>> => FilesOK
  BY DEF FilesOK, TInv, files
<1>3. CASE Check(r)
  <2>1. RunsOK
    BY <1>3, GoTyped DEF Check
  <2>2. QED
    BY <1>2, <1>3, <2>1 DEF Check
<1>4. CASE Migrate(r)
  <2>1. UNCHANGED <<files, packaged>>
    BY <1>4 DEF Migrate
  <2>2. CASE Go(r, "sync")
    BY <1>2, <2>1, <2>2, GoTyped
  <2>3. CASE ~Go(r, "sync")
    <3> DEFINE n == Migrated(ContentOf("config"))
               next == IF Exists("bak") THEN "tmp" ELSE "bak"
               u == [run[r] EXCEPT !.pc = next, !.new = n]
    <3>1. n \in Good
      BY <1>4, ContentGood, MigratedGood DEF Migrate, Names
    <3>2. next \in {"tmp", "bak"}
      OBVIOUS
    <3>3. run' = [run EXCEPT ![r].pc = next, ![r].new = n]
      BY <1>4, <2>3, Zenon DEF Migrate
    <3> HIDE DEF n, next
    <3>4. run' = [run EXCEPT ![r] = u]
      BY <3>3 DEF TInv
    <3>5. u \in RunState /\ u.pc = next
      BY <1>1, <3>1, <3>2 DEF RunState
    <3> HIDE DEF u
    <3>6. QED
      BY <1>2, <2>1, <3>2, <3>4, <3>5, SetRun
  <2>4. QED
    BY <2>2, <2>3
<1>5. CASE Swap(r)
  <2> DEFINE u == [run[r] EXCEPT !.pc = "sync", !.new = Empty]
  <2>1. run' = [run EXCEPT ![r] = u]
    BY <1>5 DEF Swap, TInv
  <2>2. u \in RunState /\ u.pc = "sync"
    BY <1>1, FirstTexts DEF RunState
  <2>3. FilesOK
    BY <1>1, <1>5, UpdateTyped DEF Swap, FilesOK, TInv, Names, Inode
  <2> HIDE DEF u
  <2>4. QED
    BY <2>1, <2>2, <2>3, SetRun
<1>6. CASE Sync(r)
  BY <1>2, <1>6, ResolvedTyped DEF Sync
<1>7. CASE Missing(r)
  BY <1>2, <1>7, NotInstalledTyped DEF Missing
<1>8. CASE InstallFault(r)
  <2>1. RunsOK
    BY <1>8, NotInstalledTyped DEF InstallFault
  <2>2. [data EXCEPT ![run[r].out] = Broken] \in [Inodes -> Good]
    BY <1>1
  <2>3. data' \in [Inodes -> Good]
    BY <1>1, <1>8, <2>2, UpdateTyped DEF InstallFault
  <2>4. QED
    BY <1>8, <2>1, <2>3 DEF InstallFault, FilesOK, TInv
<1>9. QED
  BY <1>3, <1>4, <1>5, <1>6, <1>7, <1>8

(* What a run was asked: the wizard's choices are consistent values. *)
LEMMA RequestTyped ==
  ASSUME TInv, NEW r \in Runs
  PROVE  /\ DOMAIN run[r].request.asks \subseteq Settings
         /\ \E v \in Values : \A k \in DOMAIN run[r].request.asks :
              run[r].request.asks[k] = v[k]
         /\ run[r].request.mark \in Marks
         /\ Onboards(r) => /\ run[r].request.asks \in Values
                           /\ Consistent(run[r].request.asks)
<1>1. run[r].request \in Requests \cup {Idle.request}
  BY DEF TInv, RunState
<1>2. CASE run[r].request \in Requests
  BY <1>2, RequestsAssumption DEF Onboards, Marks, Markers
<1>3. CASE run[r].request = Idle.request
  <2>1. run[r].request.kind = "load" /\ run[r].request.mark = "keep"
        /\ run[r].request.asks = << >>
    BY <1>3 DEF Idle
  <2>2. DOMAIN << >> = {}
    OBVIOUS
  <2>3. BuiltIn \in Values
    BY FirstTexts
  <2>4. QED
    BY <2>1, <2>2, <2>3 DEF Onboards, Marks
<1>4. QED
  BY <1>1, <1>2, <1>3

(* Steps of a command that write nothing. *)
LEMMA ReadsKeepTypes ==
  ASSUME TInv, NEW r \in Runs,
         \/ Accept(r) \/ Decline(r) \/ ReadChoices(r) \/ ReadOriginal(r) \/ Reread(r)
         \/ ReadFault(r) \/ CommitFault(r) \/ UndoFault(r)
  PROVE  RunsOK /\ FilesOK
<1>1. /\ run[r] \in RunState /\ packaged \in Good /\ Empty \in Good /\ Broken \in Good
      /\ BuiltIn \in Values
  BY FirstTexts DEF TInv
<1>2. UNCHANGED <<files, packaged>>
  BY DEF Accept, Decline, ReadChoices, ReadOriginal, Reread, ReadFault, CommitFault, UndoFault
<1>3. FilesOK
  BY <1>2 DEF FilesOK, TInv, files
<1>4. CASE Accept(r)
  <2> DEFINE next == IF run[r].request.kind = "first" THEN "check" ELSE "read"
             u == [run[r] EXCEPT !.round = 2, !.pc = next]
  <2>1. next \in {"check", "read"}
    OBVIOUS
  <2>2. run' = [run EXCEPT ![r].round = 2, ![r].pc = next]
    BY <1>4, Zenon DEF Accept
  <2> HIDE DEF next
  <2>3. run' = [run EXCEPT ![r] = u]
    BY <2>2 DEF TInv
  <2>4. u \in RunState /\ u.pc = next
    BY <1>1, <2>1 DEF RunState
  <2> HIDE DEF u
  <2>5. QED
    BY <1>3, <2>1, <2>3, <2>4, SetRun
<1>5. CASE Decline(r)
  BY <1>3, <1>5, GoTyped DEF Decline
<1>6. CASE ReadChoices(r)
  <2>1. CASE Quit(r)
    BY <1>3, <2>1, QuitTyped
  <2>2. ASSUME NEW text \in Good,
               run' = [run EXCEPT ![r].pc = "write",
                                  ![r].new = Written(text, run[r].request.asks)]
        PROVE  RunsOK
    <3> DEFINE n == Written(text, run[r].request.asks)
               u == [run[r] EXCEPT !.pc = "write", !.new = n]
    <3>1. n \in Good
      BY <1>6, <2>2, RequestTyped, WrittenGood DEF ReadChoices
    <3>2. run' = [run EXCEPT ![r].pc = "write", ![r].new = n]
      BY <2>2
    <3> HIDE DEF n
    <3>3. run' = [run EXCEPT ![r] = u]
      BY <3>2 DEF TInv
    <3>4. u \in RunState /\ u.pc = "write"
      BY <1>1, <3>1 DEF RunState
    <3> HIDE DEF u
    <3>5. QED
      BY <3>3, <3>4, SetRun
  <2>3. Exists("config") => ContentOf("config") \in Good
    BY ContentGood DEF Names
  <2>4. QED
    BY <1>1, <1>3, <1>6, <2>1, <2>2, <2>3, Zenon DEF ReadChoices
<1>7. CASE ReadOriginal(r)
  <2> DEFINE t == IF Exists("config") THEN ContentOf("config") ELSE Empty
             f == Exists("config")
             u == [run[r] EXCEPT !.pc = "reread", !.found = f, !.text = t]
  <2>1. t \in Good /\ f \in BOOLEAN
    BY <1>1, ContentGood DEF Names, Exists
  <2>2. run' = [run EXCEPT ![r].pc = "reread", ![r].found = f, ![r].text = t]
    BY <1>7, Zenon DEF ReadOriginal
  <2> HIDE DEF t, f
  <2>3. run' = [run EXCEPT ![r] = u]
    BY <2>2 DEF TInv
  <2>4. u \in RunState /\ u.pc = "reread"
    BY <1>1, <2>1 DEF RunState
  <2> HIDE DEF u
  <2>5. QED
    BY <1>3, <2>3, <2>4, SetRun
<1>8. CASE Reread(r)
  <2>1. CASE Quit(r)
    BY <1>3, <2>1, QuitTyped
  <2>2. ASSUME NEW misread \in BOOLEAN, NEW current \in Text, NEW base \in Good,
               NEW values, values = Merged(ValuesOf(current), run[r].request.asks),
               Validated(values),
               run' = [run EXCEPT ![r].pc = "write", ![r].before = marker,
                                  ![r].misread = misread, ![r].new = Written(base, values)]
        PROVE  RunsOK
    <3> DEFINE n == Written(base, values)
               u == [run[r] EXCEPT !.pc = "write", !.before = marker,
                                   !.misread = misread, !.new = n]
    <3>1. packaged \in Text /\ marker \in Marks
      BY DEF TInv, Good
    <3>2. Reads(packaged, BuiltIn) \in Values
      BY <1>1, <3>1, ReadsTyped
    <3>3. ValuesOf(current) \in Values
      BY <1>1, <2>2, <3>2, ReadsTyped DEF ValuesOf
    <3>4. values \in Values
      BY <2>2, <3>3, RequestTyped, MergedTyped
    <3>5. n \in Good
      BY <2>2, <3>4, WrittenGood DEF Validated
    <3>6. run' = [run EXCEPT ![r].pc = "write", ![r].before = marker,
                             ![r].misread = misread, ![r].new = n]
      BY <2>2
    <3> HIDE DEF n
    <3>7. run' = [run EXCEPT ![r] = u]
      BY <3>6 DEF TInv
    <3>8. u \in RunState /\ u.pc = "write"
      BY <1>1, <2>2, <3>1, <3>5 DEF RunState
    <3> HIDE DEF u
    <3>9. QED
      BY <3>7, <3>8, SetRun
  <2>3. PICK misread \in BOOLEAN :
          LET current == IF misread THEN Broken
                         ELSE IF Exists("config") THEN ContentOf("config") ELSE packaged
              values == Merged(ValuesOf(current), run[r].request.asks)
              base == IF run[r].found /\ current.parses THEN run[r].text ELSE packaged
          IN IF Validated(values)
             THEN run' = [run EXCEPT ![r].pc = "write", ![r].before = marker,
                            ![r].misread = misread,
                            ![r].new = Written(base, values)]
             ELSE Quit(r)
    BY <1>8, Zenon DEF Reread
  <2> DEFINE current == IF misread THEN Broken
                        ELSE IF Exists("config") THEN ContentOf("config") ELSE packaged
             base == IF run[r].found /\ current.parses THEN run[r].text ELSE packaged
  <2>4. current \in Text
    BY <1>1, ContentGood DEF Names, Good
  <2>5. base \in Good
    BY <1>1 DEF RunState
  <2>6. CASE ~Quit(r)
    <3>1. /\ Validated(Merged(ValuesOf(current), run[r].request.asks))
          /\ run' = [run EXCEPT ![r].pc = "write", ![r].before = marker,
                       ![r].misread = misread,
                       ![r].new = Written(base, Merged(ValuesOf(current),
                                                       run[r].request.asks))]
      BY <2>3, <2>6, Zenon
    <3> HIDE DEF current, base
    <3>2. QED
      BY <1>3, <2>2, <2>4, <2>5, <3>1
  <2>7. QED
    BY <2>1, <2>6
<1>9. CASE ReadFault(r)
  BY <1>3, <1>9, QuitTyped DEF ReadFault
<1>10. CASE CommitFault(r)
  <2>1. CASE Quit(r)
    BY <1>3, <2>1, QuitTyped
  <2>2. CASE ~Quit(r)
    <3> DEFINE next == IF run[r].request.mark = "keep" THEN "undo" ELSE "undoMark"
               more == run[r].faults + 1
               u == [run[r] EXCEPT !.faults = more, !.pc = next]
    <3>1. next \in {"undo", "undoMark"} /\ more \in Nat
      BY <1>1 DEF RunState
    <3>2. run' = [run EXCEPT ![r].faults = more, ![r].pc = next]
      BY <1>10, <2>2, Zenon DEF CommitFault
    <3> HIDE DEF next, more
    <3>3. run' = [run EXCEPT ![r] = u]
      BY <3>2 DEF TInv
    <3>4. u \in RunState /\ u.pc = next
      BY <1>1, <3>1 DEF RunState
    <3> HIDE DEF u
    <3>5. QED
      BY <1>3, <3>1, <3>3, <3>4, SetRun
  <2>3. QED
    BY <2>1, <2>2
<1>11. CASE UndoFault(r)
  <2> DEFINE more == run[r].faults + 1
             u == [run[r] EXCEPT !.pc = "end", !.outcome = "failed", !.faults = more]
  <2>0. more \in Nat
    BY <1>1 DEF RunState
  <2>1. run' = [run EXCEPT ![r] = u]
    BY <1>11 DEF UndoFault, TInv
  <2> HIDE DEF more
  <2>2. u \in RunState /\ u.pc = "end"
    BY <1>1, <2>0 DEF RunState
  <2> HIDE DEF u
  <2>3. QED
    BY <1>3, <2>1, <2>2, SetRun
<1>12. QED
  BY <1>4, <1>5, <1>6, <1>7, <1>8, <1>9, <1>10, <1>11

(* Steps of a command that write. *)
LEMMA WritesKeepTypes ==
  ASSUME TInv, NEW r \in Runs, Write(r) \/ Mark(r) \/ UndoMark(r) \/ Undo(r)
  PROVE  RunsOK /\ FilesOK /\ marker' \in Marks
<1>1. run[r] \in RunState /\ marker \in Marks
  BY DEF TInv
<1>2. run[r].new \in Good /\ run[r].text \in Good /\ run[r].before \in Marks
  BY <1>1 DEF RunState
<1>3. UNCHANGED <<files, packaged>> => FilesOK
  BY DEF FilesOK, TInv, files
<1>4. CASE Write(r)
  <2>1. RunsOK
    BY <1>4, GoTyped, EndTyped DEF Write, AfterWrite
  <2>2. CASE UNCHANGED <<files, packaged>>
    BY <1>1, <1>3, <1>4, <2>1, <2>2 DEF Write
  <2>3. CASE packaged' = run[r].new /\ UNCHANGED files
    BY <1>1, <1>2, <1>4, <2>1, <2>3 DEF Write, FilesOK, TInv, files
  <2>4. CASE Replace("config", run[r].new) /\ UNCHANGED packaged
    BY <1>1, <1>2, <1>4, <2>1, <2>4, ReplaceTyped DEF Write, FilesOK, TInv, Names
  <2>5. QED
    BY <1>4, <2>2, <2>3, <2>4, Zenon DEF Write
<1>5. CASE Mark(r)
  <2>1. RunsOK
    BY <1>5, QuitTyped, EndTyped DEF Mark
  <2>2. marker' \in Marks
    BY <1>5, RequestTyped DEF Mark, Marks, Markers
  <2>3. QED
    BY <1>3, <1>5, <2>1, <2>2 DEF Mark
<1>6. CASE UndoMark(r)
  <2>1. RunsOK
    BY <1>6, GoTyped DEF UndoMark
  <2>2. QED
    BY <1>2, <1>3, <1>6, <2>1 DEF UndoMark
<1>7. CASE Undo(r)
  <2>1. RunsOK
    BY <1>7, EndTyped DEF Undo
  <2>2. UNCHANGED packaged /\ UNCHANGED marker
    BY <1>7 DEF Undo
  <2>3. CASE UNCHANGED files
    BY <1>1, <1>3, <2>1, <2>2, <2>3
  <2>4. CASE Replace("config", run[r].text)
    BY <1>1, <1>2, <2>1, <2>2, <2>4, ReplaceTyped DEF FilesOK, TInv, Names
  <2>5. CASE dir' = [dir EXCEPT !["config"] = NoInode] /\ Update(data)
    <3>1. data' \in [Inodes -> Good]
      BY <2>5, UpdateTyped DEF TInv
    <3>2. dir' \in [Names -> Inode]
      BY <2>5 DEF TInv, Inode
    <3>3. QED
      BY <1>1, <2>1, <2>2, <3>1, <3>2 DEF FilesOK, TInv
  <2>6. QED
    BY <1>7, <2>3, <2>4, <2>5, Zenon DEF Undo
<1>8. QED
  BY <1>4, <1>5, <1>6, <1>7

(* Starting, leaving, kills and edits. *)
LEMMA OthersKeepTypes ==
  ASSUME TInv,
         \/ \E r \in Runs : Start(r) \/ Leave(r) \/ Crash(r)
         \/ HandEdit
  PROVE  RunsOK /\ FilesOK
<1>1. UNCHANGED <<files, packaged>> => FilesOK
  BY DEF FilesOK, TInv, files
<1>2. data \in [Inodes -> Good] /\ dir \in [Names -> Inode] /\ packaged \in Good
  BY DEF TInv
<1>3. ASSUME NEW r \in Runs, Start(r)
      PROVE  RunsOK /\ FilesOK
  <2>1. PICK q \in Requests : run' = [s \in Runs |->
            IF s = r
            THEN [Idle EXCEPT !.pc = "check", !.request = q,
                    !.alone = \A t \in Runs \ {r} : run[t].pc \in {"idle", "end"}]
            ELSE IF run[s].pc = "idle" THEN run[s]
            ELSE [run[s] EXCEPT !.alone = FALSE]]
    BY <1>3, Zenon DEF Start
  <2> DEFINE a == \A t \in Runs \ {r} : run[t].pc \in {"idle", "end"}
             u == [Idle EXCEPT !.pc = "check", !.request = q, !.alone = a]
  <2>2. a \in BOOLEAN
    OBVIOUS
  <2> HIDE DEF a
  <2>3. Idle \in RunState
    BY FirstTexts DEF Idle, RunState, Inode, Marks, Markers
  <2>4. u \in RunState /\ u.pc = "check"
    BY <2>2, <2>3 DEF RunState
  <2>5. run' = [s \in Runs |-> IF s = r THEN u ELSE IF run[s].pc = "idle" THEN run[s]
                               ELSE [run[s] EXCEPT !.alone = FALSE]]
    BY <2>1 DEF a
  <2> HIDE DEF u
  <2>6. ASSUME NEW s \in Runs
        PROVE  run'[s] \in RunState /\ (run'[s].pc = "fillBak" => run'[s].in \in Inodes)
    <3>1. run[s] \in RunState
      BY DEF TInv
    <3> DEFINE v == [run[s] EXCEPT !.alone = FALSE]
    <3>2. v \in RunState /\ v.pc = run[s].pc /\ v.in = run[s].in
      BY <3>1 DEF RunState
    <3> HIDE DEF v
    <3>3. run'[s] \in {u, run[s], v}
      BY <2>5 DEF v
    <3>4. QED
      BY <2>4, <3>1, <3>2, <3>3 DEF TInv
  <2>7. run' \in [Runs -> RunState]
    BY <2>5, <2>6
  <2>8. QED
    BY <1>1, <1>3, <2>6, <2>7 DEF Start, RunsOK
<1>4. ASSUME NEW r \in Runs, Leave(r)
      PROVE  RunsOK /\ FilesOK
  BY <1>1, <1>4, QuitTyped DEF Leave
<1>5. ASSUME NEW r \in Runs, Crash(r)
      PROVE  RunsOK /\ FilesOK
  BY <1>2, <1>5, QuitTyped, UpdateTyped DEF Crash, FilesOK
<1>6. CASE HandEdit
  <2>1. RunsOK
    <3>1. ASSUME NEW s \in Runs
          PROVE  run'[s] \in RunState /\ (run'[s].pc = "fillBak" => run'[s].in \in Inodes)
      <4>1. run[s] \in RunState
        BY DEF TInv
      <4> DEFINE v == [run[s] EXCEPT !.alone = FALSE]
      <4>2. v \in RunState /\ v.pc = run[s].pc /\ v.in = run[s].in
        BY <4>1 DEF RunState
      <4> HIDE DEF v
      <4>3. run'[s] \in {run[s], v}
        BY <1>6 DEF HandEdit, v
      <4>4. QED
        BY <4>1, <4>2, <4>3 DEF TInv
    <3>2. QED
      BY <1>6, <3>1 DEF HandEdit, RunsOK
  <2>2. ASSUME NEW text \in HandTexts, Replace("config", text)
        PROVE  dir' \in [Names -> Inode] /\ data' \in [Inodes -> Good]
    <3>1. text \in Good /\ "config" \in Names
      BY FirstTexts DEF Names
    <3>2. QED
      BY <2>2, <3>1, ReplaceTyped
  <2>3. ASSUME dir' = [dir EXCEPT !["config"] = NoInode], Update(data)
        PROVE  dir' \in [Names -> Inode] /\ data' \in [Inodes -> Good]
    BY <1>2, <2>3, UpdateTyped DEF Inode
  <2>4. UNCHANGED packaged /\ \/ \E text \in HandTexts : Replace("config", text)
                              \/ dir' = [dir EXCEPT !["config"] = NoInode] /\ Update(data)
    BY <1>6 DEF HandEdit
  <2>5. QED
    BY <1>2, <2>1, <2>2, <2>3, <2>4 DEF FilesOK
<1>7. QED
  BY <1>3, <1>4, <1>5, <1>6

(* The state is always one the program can be in. *)
LEMMA TypesStep ==
  ASSUME TInv, [Next]_vars
  PROVE  TInv'
<1>1. CASE UNCHANGED vars
  BY <1>1 DEF vars, files, TInv, Good
<1>2. CASE RunsOK /\ FilesOK /\ marker' \in Marks
  BY <1>2 DEF RunsOK, FilesOK, TInv
<1>3. marker \in Marks
  BY DEF TInv
<1>4. ASSUME NEW r \in Runs, Install(r)
      PROVE  TInv'
  <2>1. UNCHANGED marker
    BY <1>4 DEF Install, Check, Create, Fill, Migrate, OpenBak, FillBak, OpenTmp, FillTmp,
                Swap, Sync, Missing, InstallFault
  <2>2. QED
    BY <1>2, <1>3, <1>4, <2>1, OpensTyped, FillsTyped, InstallTyped, Zenon DEF Install
<1>5. ASSUME NEW r \in Runs, Command(r)
      PROVE  TInv'
  <2>1. CASE Write(r) \/ Mark(r) \/ UndoMark(r) \/ Undo(r)
    BY <1>2, <2>1, WritesKeepTypes
  <2>2. CASE \/ Accept(r) \/ Decline(r) \/ ReadChoices(r) \/ ReadOriginal(r) \/ Reread(r)
             \/ ReadFault(r) \/ CommitFault(r) \/ UndoFault(r)
    <3>1. UNCHANGED marker
      BY <2>2 DEF Accept, Decline, ReadChoices, ReadOriginal, Reread, ReadFault,
                  CommitFault, UndoFault
    <3>2. QED
      BY <1>2, <1>3, <2>2, <3>1, ReadsKeepTypes
  <2>3. QED
    BY <1>5, <2>1, <2>2, Zenon DEF Command
<1>6. CASE (\E r \in Runs : Start(r) \/ Leave(r) \/ Crash(r)) \/ HandEdit
  <2>1. UNCHANGED marker
    BY <1>6 DEF Start, Leave, Crash, HandEdit
  <2>2. QED
    BY <1>2, <1>3, <1>6, <2>1, OthersKeepTypes
<1>7. QED
  BY <1>1, <1>4, <1>5, <1>6, Zenon DEF Next

(* The first state is one. *)
LEMMA TypesInit ==
  ASSUME Init
  PROVE  TInv
<1>1. packaged \in Good /\ marker \in Marks
  BY FirstTexts DEF Init, Marks, Markers
<1>2. Idle \in RunState /\ Idle.pc = "idle"
  BY FirstTexts DEF Idle, RunState, Inode, Marks, Markers
<1>3. run \in [Runs -> RunState] /\ \A r \in Runs : run[r].pc = "fillBak" => run[r].in \in Inodes
  BY <1>2 DEF Init
<1>4. dir \in [Names -> Inode]
  <2>1. Cardinality(Names) + 2 * Cardinality(Runs) + 1 \in Nat \ {0}
    <3>1. IsFiniteSet(Names)
      BY NamesFinite
    <3>2. Cardinality(Names) \in Nat /\ Cardinality(Runs) \in Nat
      BY <3>1, RunsAssumption, FS_CardinalityType
    <3>3. QED
      BY <3>2
  <2>2. 1 \in Inodes
    BY <2>1 DEF Inodes
  <2>3. QED
    BY <2>2 DEF Init, Inode
<1>5. data \in [Inodes -> Good]
  BY FirstTexts DEF Init
<1>6. QED
  BY <1>1, <1>3, <1>4, <1>5 DEF TInv

(* The state is always one the program can be in: every file, open or      *)
(* named, holds a text that pairs its counts, and so does everything a run *)
(* is about to write.                                                      *)
THEOREM ConfigTypes == Spec => []TInv
BY TypesInit, TypesStep, PTL DEF Spec

(* Whatever runs race, fail or are killed, no file of the directory and    *)
(* not the packaged text ever pairs the shard counts wrongly               *)
(* (api_patch.py's _apply_values_to_text, install.py's migration).         *)
THEOREM CountsStayPaired == Spec => []CountsAlwaysPaired
<1>1. TInv => CountsAlwaysPaired
  <2>1. SUFFICES ASSUME TInv PROVE CountsAlwaysPaired
    OBVIOUS
  <2>2. packaged \in Good /\ \A n \in Names : Exists(n) => ContentOf(n) \in Good
    BY <2>1, ContentGood DEF TInv
  <2>3. QED
    BY <2>2 DEF CountsAlwaysPaired, Good, Paired
<1>2. QED
  BY <1>1, ConfigTypes, PTL

-------------------------------------------------------------------------------
(* The files one step changes, and the ones it leaves. *)

(* Two names never lead to one file. *)
Distinct == \A n, m \in Names : dir[n] = dir[m] /\ dir[n] # NoInode => n = m

(* What holds of every run, however it is disturbed: which commands reach  *)
(* which steps, and that a wizard which writes the packaged text writes    *)
(* one that parses.                                                        *)
Course(r) ==
  /\ run[r].request.kind = "set" => run[r].path = "config"
  /\ run[r].pc \in {"read", "reread", "write", "mark", "undoMark", "undo", "end"} =>
       run[r].request.kind # "load"
  /\ run[r].pc = "ask" => Onboards(r)
  /\ run[r].pc \in {"reread", "undoMark", "undo", "end"} => ~Onboards(r)
  /\ run[r].pc = "mark" /\ ~Onboards(r) => run[r].request.mark # "keep"
  /\ run[r].pc = "write" /\ run[r].path = "packaged" => run[r].new.parses

Courses == packaged.parses /\ \A r \in Runs : Course(r)

(* The text about to be written has what the patch asks. *)
Asked(r) ==
  /\ Loads(run[r].new)
  /\ \A k \in DOMAIN run[r].request.asks :
       k \in run[r].new.keys /\ run[r].new.values[k] = run[r].request.asks[k]

(* A run that is alone and installs. *)
Installs(r) ==
  /\ run[r].pc = "create" => ~Exists("config")
  /\ run[r].pc = "fill" =>
       /\ Exists("config") /\ run[r].out = dir["config"]
       /\ ContentOf("config").keys = {}
  /\ run[r].pc \in {"bak", "fillBak", "tmp", "fillTmp", "swap"} =>
       /\ Exists("config") /\ Migrates(ContentOf("config"))
       /\ run[r].new = Migrated(ContentOf("config"))
  /\ run[r].pc = "fillBak" => Exists("bak") /\ run[r].out = dir["bak"]
  /\ run[r].pc = "fillTmp" => Exists("tmp") /\ run[r].out = dir["tmp"]
  /\ run[r].pc = "swap" => Exists("tmp") /\ ContentOf("tmp") = run[r].new

(* A run that is alone and patches: what it has read is what is there.     *)
Patches(r) ==
  /\ run[r].pc = "read" => Exists("config")
  /\ run[r].pc \in {"reread", "write", "mark", "undoMark", "undo"} =>
       Exists("config") /\ run[r].found
  /\ run[r].pc \in {"reread", "write"} => ContentOf("config") = run[r].text
  /\ run[r].pc \in {"write", "mark"} => Asked(r)
  /\ run[r].pc = "write" /\ ~run[r].misread /\ run[r].text.parses =>
       Keeps(run[r].text, run[r].new, DOMAIN run[r].request.asks)
  /\ run[r].pc \in {"write", "mark", "undoMark", "undo"} => run[r].before = marker
  /\ run[r].pc = "mark" => ContentOf("config") = run[r].new
  /\ run[r].pc \in {"undoMark", "undo"} =>
       /\ ContentOf("config") \in {run[r].text, run[r].new}
       /\ run[r].faults >= 1

(* The outcome a run that is alone reports is true. *)
Reported(r) ==
  /\ At(r, "end") /\ run[r].outcome = "ok" =>
       /\ Exists("config") /\ Loads(ContentOf("config"))
       /\ \A k \in DOMAIN run[r].request.asks :
            /\ k \in ContentOf("config").keys
            /\ ContentOf("config").values[k] = run[r].request.asks[k]
       /\ run[r].request.mark # "keep" => marker = run[r].request.mark
  /\ At(r, "end") /\ run[r].outcome = "failed" /\ run[r].faults = 1 =>
       /\ Exists("config") /\ ContentOf("config") = run[r].text
       /\ run[r].request.mark # "keep" => marker = run[r].before

(* Every file keeps its name and its text. *)
FilesKept ==
  dir' = dir /\ \A n \in Names : Exists(n) => ContentOf(n)' = ContentOf(n)

(* A file that has a name keeps what it is given. *)
LEMMA UpdateContent ==
  ASSUME NEW texts, Update(texts), dir' \in [Names -> Inode],
         NEW n \in Names, dir'[n] # NoInode
  PROVE  data'[dir'[n]] = texts[dir'[n]]
<1>1. dir'[n] \in Inodes
  BY DEF Inode
<1>2. dir'[n] \in InUse(dir', run')
  BY DEF InUse
<1>3. QED
  BY <1>1, <1>2 DEF Update, Kept

(* A new file gets a name; what other names lead to stays. *)
LEMMA NamedContent ==
  ASSUME TInv, Distinct, NEW name \in Names, NEW i \in Inodes, NEW text,
         i \notin InUse(dir, run) \/ i = dir[name],
         dir' = [dir EXCEPT ![name] = i], Update([data EXCEPT ![i] = text])
  PROVE  /\ dir' \in [Names -> Inode] /\ Distinct'
         /\ Exists(name)' /\ dir'[name] = i /\ ContentOf(name)' = text
         /\ \A n \in Names \ {name} :
              dir'[n] = dir[n] /\ (Exists(n) => ContentOf(n)' = ContentOf(n))
<1>1. dir \in [Names -> Inode] /\ data \in [Inodes -> Good] /\ i # NoInode
  BY RunsAssumption DEF TInv
<1>2. dir' \in [Names -> Inode] /\ dir'[name] = i /\ \A n \in Names \ {name} : dir'[n] = dir[n]
  BY <1>1 DEF Inode
<1>3. \A n \in Names \ {name} : dir[n] # i
  BY <1>1 DEF InUse, Distinct
<1>4. Distinct'
  BY <1>2, <1>3 DEF Distinct
<1>5. ContentOf(name)' = text
  <2>1. dir'[name] = i /\ dir'[name] # NoInode
    BY <1>1, <1>2
  <2>2. data'[dir'[name]] = [data EXCEPT ![i] = text][dir'[name]]
    BY <1>2, <2>1, UpdateContent
  <2>3. QED
    BY <1>1, <2>1, <2>2 DEF ContentOf
<1>6. ASSUME NEW n \in Names \ {name}, Exists(n)
      PROVE  ContentOf(n)' = ContentOf(n)
  <2>1. dir'[n] = dir[n] /\ dir[n] # NoInode /\ dir[n] # i /\ dir[n] \in Inodes
    BY <1>1, <1>2, <1>3, <1>6 DEF Exists, Inode
  <2>2. data'[dir'[n]] = [data EXCEPT ![i] = text][dir'[n]]
    BY <1>2, <1>6, <2>1, UpdateContent
  <2>3. QED
    BY <1>1, <2>1, <2>2 DEF ContentOf
<1>7. QED
  BY <1>1, <1>2, <1>4, <1>5, <1>6 DEF Exists

(* Replacing, truncating and keeping a file. *)
LEMMA ReplaceContent ==
  ASSUME TInv, Distinct, NEW name \in Names, NEW text, Replace(name, text)
  PROVE  /\ Distinct' /\ Exists(name)' /\ ContentOf(name)' = text
<1>1. NewInode \in Inodes \ InUse(dir, run)
  BY NewInodeFree
<1>2. QED
  BY <1>1, NamedContent DEF Replace

(* Truncating a file leaves the other names alone. *)
LEMMA TruncateContent ==
  ASSUME TInv, Distinct, NEW name \in Names, Truncate(name)
  PROVE  /\ Distinct' /\ Exists(name)' /\ dir'[name] = Opened(name)
         /\ ContentOf(name)' = Empty
         /\ \A n \in Names \ {name} :
              dir'[n] = dir[n] /\ (Exists(n) => ContentOf(n)' = ContentOf(n))
<1>1. NewInode \in Inodes \ InUse(dir, run)
  BY NewInodeFree
<1>2. /\ Opened(name) \in Inodes
      /\ Opened(name) \notin InUse(dir, run) \/ Opened(name) = dir[name]
  BY <1>1 DEF Opened, Exists, TInv, Inode
<1>3. QED
  BY <1>2, NamedContent DEF Truncate

(* Writing to an open file changes the text of the name it has, if any.    *)
LEMMA WriteContent ==
  ASSUME TInv, UNCHANGED dir, NEW o, NEW text, Update([data EXCEPT ![o] = text]),
         NEW n \in Names, Exists(n)
  PROVE  ContentOf(n)' = IF dir[n] = o THEN text ELSE ContentOf(n)
<1>1. dir \in [Names -> Inode] /\ data \in [Inodes -> Good] /\ dir[n] \in Inodes
  BY DEF TInv, Exists, Inode
<1>2. data'[dir'[n]] = [data EXCEPT ![o] = text][dir'[n]]
  BY <1>1, UpdateContent DEF Exists
<1>3. QED
  BY <1>1, <1>2 DEF ContentOf

(* A step that writes nothing keeps every file. *)
LEMMA KeepContent ==
  ASSUME TInv, UNCHANGED dir, Update(data) \/ UNCHANGED data
  PROVE  FilesKept
<1>1. CASE UNCHANGED data
  BY <1>1 DEF FilesKept, ContentOf, Exists
<1>2. CASE Update(data)
  <2>1. dir \in [Names -> Inode]
    BY DEF TInv
  <2>2. QED
    BY <1>2, <2>1, UpdateContent DEF FilesKept, ContentOf, Exists
<1>3. QED
  BY <1>1, <1>2

-------------------------------------------------------------------------------
(* A step of one run leaves the others; the run stays as alone as it was,  *)
(* and with the same request, or is over.                                  *)
Moves(r) ==
  /\ \A t \in Runs \ {r} : run'[t] = run[t]
  /\ \/ run'[r] = Idle
     \/ run'[r].alone = run[r].alone /\ run'[r].request = run[r].request

(* Whatever a run does, it moves itself. *)
LEMMA StepMoves ==
  ASSUME TInv, NEW r \in Runs, Install(r) \/ Command(r) \/ Leave(r) \/ Crash(r)
  PROVE  /\ Moves(r)
         /\ Leave(r) \/ run[r].pc \notin {"idle", "end"}
<1>1. run \in [Runs -> RunState] /\ run[r] \in RunState
  BY DEF TInv
<1>2. ASSUME Quit(r)
      PROVE  Moves(r)
  BY <1>1, <1>2 DEF Quit, Moves
<1>3. ASSUME NEW pc, Go(r, pc)
      PROVE  Moves(r)
  BY <1>1, <1>3 DEF Go, Moves, RunState
<1>4. ASSUME NEW outcome, End(r, outcome)
      PROVE  Moves(r)
  BY <1>1, <1>4 DEF End, Moves, RunState
<1>5. ASSUME NEW path, Resolved(r, path)
      PROVE  Moves(r)
  BY <1>1, <1>2, <1>5 DEF Resolved, Moves, RunState
<1>6. ASSUME NotInstalled(r)
      PROVE  Moves(r)
  BY <1>2, <1>5, <1>6 DEF NotInstalled
<1>7. ASSUME Check(r)
      PROVE  Moves(r)
  BY <1>3, <1>7 DEF Check
<1>8. ASSUME Create(r)
      PROVE  Moves(r)
  BY <1>1, <1>8 DEF Create, Moves, RunState
<1>9. ASSUME Fill(r)
      PROVE  Moves(r)
  BY <1>1, <1>9 DEF Fill, Moves, RunState
<1>10. ASSUME Migrate(r)
       PROVE  Moves(r)
  BY <1>1, <1>3, <1>10 DEF Migrate, Moves, RunState
<1>11. ASSUME OpenBak(r)
       PROVE  Moves(r)
  BY <1>1, <1>11 DEF OpenBak, Moves, RunState
<1>12. ASSUME FillBak(r)
       PROVE  Moves(r)
  BY <1>1, <1>12 DEF FillBak, Moves, RunState
<1>13. ASSUME OpenTmp(r)
       PROVE  Moves(r)
  BY <1>1, <1>13 DEF OpenTmp, Moves, RunState
<1>14. ASSUME FillTmp(r)
       PROVE  Moves(r)
  BY <1>1, <1>14 DEF FillTmp, Moves, RunState
<1>15. ASSUME Swap(r)
       PROVE  Moves(r)
  BY <1>1, <1>15 DEF Swap, Moves, RunState
<1>16. ASSUME Sync(r)
       PROVE  Moves(r)
  BY <1>5, <1>16 DEF Sync
<1>17. ASSUME Missing(r)
       PROVE  Moves(r)
  BY <1>6, <1>17 DEF Missing
<1>18. ASSUME InstallFault(r)
       PROVE  Moves(r)
  BY <1>6, <1>18 DEF InstallFault
<1>19. ASSUME Accept(r)
       PROVE  Moves(r)
  BY <1>1, <1>19 DEF Accept, Moves, RunState
<1>20. ASSUME Decline(r)
       PROVE  Moves(r)
  BY <1>3, <1>20 DEF Decline
<1>21. ASSUME ReadChoices(r)
       PROVE  Moves(r)
  BY <1>1, <1>2, <1>21 DEF ReadChoices, Moves, RunState
<1>22. ASSUME ReadOriginal(r)
       PROVE  Moves(r)
  BY <1>1, <1>22 DEF ReadOriginal, Moves, RunState
<1>23. ASSUME Reread(r)
       PROVE  Moves(r)
  BY <1>1, <1>2, <1>23 DEF Reread, Moves, RunState
<1>24. ASSUME ReadFault(r)
       PROVE  Moves(r)
  BY <1>2, <1>24 DEF ReadFault
<1>25. ASSUME Write(r)
       PROVE  Moves(r)
  BY <1>3, <1>4, <1>25 DEF Write, AfterWrite
<1>26. ASSUME Mark(r)
       PROVE  Moves(r)
  BY <1>2, <1>4, <1>26 DEF Mark
<1>27. ASSUME CommitFault(r)
       PROVE  Moves(r)
  BY <1>1, <1>2, <1>27 DEF CommitFault, Moves, RunState
<1>28. ASSUME UndoMark(r)
       PROVE  Moves(r)
  BY <1>3, <1>28 DEF UndoMark
<1>29. ASSUME Undo(r)
       PROVE  Moves(r)
  BY <1>4, <1>29 DEF Undo
<1>30. ASSUME UndoFault(r)
       PROVE  Moves(r)
  BY <1>1, <1>30 DEF UndoFault, Moves, RunState
<1>31. ASSUME Leave(r)
       PROVE  Moves(r)
  BY <1>2, <1>31 DEF Leave
<1>32. ASSUME Crash(r)
       PROVE  Moves(r)
  BY <1>2, <1>32 DEF Crash
<1>33. Moves(r)
  <2>1. CASE Install(r)
    BY <1>7, <1>8, <1>9, <1>10, <1>11, <1>12, <1>13, <1>14, <1>15, <1>16, <1>17, <1>18, <2>1 DEF Install
  <2>2. CASE Command(r)
    BY <1>19, <1>20, <1>21, <1>22, <1>23, <1>24, <1>25, <1>26, <1>27, <1>28, <1>29, <1>30, <2>2 DEF Command
  <2>3. QED
    BY <1>31, <1>32, <2>1, <2>2
<1>34. Install(r) => run[r].pc \notin {"idle", "end"}
  BY DEF Install, At, Check, Create, Fill, Migrate, OpenBak, FillBak, OpenTmp, FillTmp, Swap, Sync, Missing, InstallFault
<1>35. Command(r) => run[r].pc \notin {"idle", "end"}
  BY DEF Command, At, Accept, Decline, ReadChoices, ReadOriginal, Reread, ReadFault, Write, Mark, CommitFault, UndoMark, Undo, UndoFault
<1>36. QED
  BY <1>33, <1>34, <1>35 DEF Crash

(* No step gives two names one file. *)
LEMMA DistinctStep ==
  ASSUME TInv, Distinct, [Next]_vars
  PROVE  Distinct'
<1>1. CASE UNCHANGED dir
  BY <1>1 DEF Distinct
<1>2. ASSUME NEW name \in Names, Truncate(name)
      PROVE  Distinct'
  BY <1>2, TruncateContent
<1>3. ASSUME NEW name \in Names, NEW text, Replace(name, text)
      PROVE  Distinct'
  BY <1>3, ReplaceContent
<1>4. ASSUME dir' = [dir EXCEPT !["config"] = NoInode]
      PROVE  Distinct'
  BY <1>4 DEF Distinct, TInv
<1>5. ASSUME dir' = [dir EXCEPT !["config"] = dir["tmp"], !["tmp"] = NoInode]
      PROVE  Distinct'
  <2>1. dir \in [Names -> Inode] /\ "config" \in Names /\ "tmp" \in Names
    BY DEF TInv, Names
  <2>2. dir'["config"] = dir["tmp"] /\ dir'["tmp"] = NoInode /\ dir'["bak"] = dir["bak"]
    BY <1>5, <2>1 DEF Names
  <2>3. QED
    BY <2>1, <2>2 DEF Distinct, Names
<1>6. {"config", "bak", "tmp"} \subseteq Names
  BY DEF Names
<1>7. ASSUME NEW r \in Runs, Install(r)
      PROVE  Distinct'
  <2>1. CASE Create(r)
    BY <1>2, <1>6, <2>1 DEF Create
  <2>2. CASE OpenBak(r)
    BY <1>2, <1>6, <2>2 DEF OpenBak
  <2>3. CASE OpenTmp(r)
    BY <1>2, <1>6, <2>3 DEF OpenTmp
  <2>4. CASE Swap(r)
    BY <1>5, <2>4 DEF Swap
  <2>5. CASE \/ Check(r) \/ Fill(r) \/ Migrate(r) \/ FillBak(r) \/ FillTmp(r) \/ Sync(r)
             \/ Missing(r) \/ InstallFault(r)
    BY <1>1, <2>5 DEF Check, Fill, Migrate, FillBak, FillTmp, Sync, Missing, InstallFault, files
  <2>6. QED
    BY <1>7, <2>1, <2>2, <2>3, <2>4, <2>5 DEF Install
<1>8. ASSUME NEW r \in Runs, Command(r)
      PROVE  Distinct'
  <2>1. CASE Write(r)
    BY <1>1, <1>3, <1>6, <2>1 DEF Write, files
  <2>2. CASE Undo(r)
    BY <1>1, <1>3, <1>4, <1>6, <2>2 DEF Undo, files
  <2>3. CASE \/ Accept(r) \/ Decline(r) \/ ReadChoices(r) \/ ReadOriginal(r) \/ Reread(r)
             \/ ReadFault(r) \/ Mark(r) \/ CommitFault(r) \/ UndoMark(r) \/ UndoFault(r)
    BY <1>1, <2>3 DEF Accept, Decline, ReadChoices, ReadOriginal, Reread, ReadFault, Mark,
                      CommitFault, UndoMark, UndoFault, files
  <2>4. QED
    BY <1>8, <2>1, <2>2, <2>3 DEF Command
<1>9. ASSUME NEW r \in Runs, Start(r) \/ Leave(r) \/ Crash(r)
      PROVE  Distinct'
  BY <1>1, <1>9 DEF Start, Leave, Crash, files
<1>10. CASE HandEdit
  BY <1>3, <1>4, <1>6, <1>10 DEF HandEdit
<1>11. CASE UNCHANGED vars
  BY <1>1, <1>11 DEF vars, files
<1>12. QED
  BY <1>7, <1>8, <1>9, <1>10, <1>11 DEF Next

(* A run keeps to its course. *)
LEMMA CourseStep ==
  ASSUME TInv, PlainHands, Courses, NEW r \in Runs,
         Install(r) \/ Command(r) \/ Leave(r) \/ Crash(r)
  PROVE  Course(r)'
<1>1. run \in [Runs -> RunState] /\ run[r] \in RunState /\ Course(r)
  BY DEF TInv, Courses
<1>2. ASSUME Quit(r)
      PROVE  Course(r)'
  BY <1>1, <1>2 DEF Quit, Course, Idle, Onboards
<1>3. ASSUME NEW path \in {"config", "packaged"}, Resolved(r, path),
             run[r].request.kind = "set" => path = "config"
      PROVE  Course(r)'
  <2>1. CASE run[r].request.kind = "load"
    BY <1>2, <1>3, <2>1 DEF Resolved
  <2>2. CASE run[r].request.kind # "load"
    <3>1. /\ run'[r].request = run[r].request /\ run'[r].path = path
          /\ run'[r].pc = IF Onboards(r) /\ run[r].round = 1 THEN "ask" ELSE "read"
      BY <1>1, <1>3, <2>2 DEF Resolved, RunState
    <3>2. QED
      BY <1>1, <1>3, <2>2, <3>1 DEF Course, Onboards
  <2>3. QED
    BY <2>1, <2>2
<1>4. ASSUME NotInstalled(r)
      PROVE  Course(r)'
  BY <1>2, <1>3, <1>4 DEF NotInstalled
<1>5. ASSUME NEW outcome, End(r, outcome), ~Onboards(r), run[r].request.kind # "load"
      PROVE  Course(r)'
  <2>1. /\ run'[r].request = run[r].request /\ run'[r].path = run[r].path
        /\ run'[r].pc = "end"
    BY <1>1, <1>5 DEF End, RunState
  <2>2. QED
    BY <1>1, <1>5, <2>1 DEF Course, Onboards
<1>6. ASSUME run'[r].request = run[r].request, run'[r].path = run[r].path,
             run'[r].pc \in {"create", "fill", "check", "migrate", "tmp", "fillTmp", "bak",
                             "fillBak", "swap", "sync"}
      PROVE  Course(r)'
  BY <1>1, <1>6 DEF Course
<1>7. CASE Install(r)
  <2>1. CASE Check(r)
    BY <1>1, <1>6, <2>1 DEF Check, Go, RunState
  <2>2. CASE Create(r)
    BY <1>1, <1>6, <2>2 DEF Create, RunState
  <2>3. CASE Fill(r)
    BY <1>1, <1>6, <2>3 DEF Fill, RunState
  <2>4. CASE Migrate(r)
    BY <1>1, <1>6, <2>4 DEF Migrate, Go, RunState
  <2>5. CASE OpenBak(r)
    BY <1>1, <1>6, <2>5 DEF OpenBak, RunState
  <2>6. CASE FillBak(r)
    BY <1>1, <1>6, <2>6 DEF FillBak, RunState
  <2>7. CASE OpenTmp(r)
    BY <1>1, <1>6, <2>7 DEF OpenTmp, RunState
  <2>8. CASE FillTmp(r)
    BY <1>1, <1>6, <2>8 DEF FillTmp, RunState
  <2>9. CASE Swap(r)
    BY <1>1, <1>6, <2>9 DEF Swap, RunState
  <2>10. CASE Sync(r)
    BY <1>3, <2>10 DEF Sync
  <2>11. CASE Missing(r)
    BY <1>4, <2>11 DEF Missing
  <2>12. CASE InstallFault(r)
    BY <1>4, <2>12 DEF InstallFault
  <2>13. QED
    BY <1>7, <2>1, <2>2, <2>3, <2>4, <2>5, <2>6, <2>7, <2>8, <2>9, <2>10, <2>11, <2>12
       DEF Install
<1>8. CASE Command(r)
  <2>1. CASE Accept(r)
    <3>1. /\ run'[r].request = run[r].request /\ run'[r].path = run[r].path
          /\ run'[r].pc = IF run[r].request.kind = "first" THEN "check" ELSE "read"
      BY <1>1, <2>1 DEF Accept, RunState
    <3>2. Onboards(r)
      BY <1>1, <2>1 DEF Accept, At, Course
    <3>3. QED
      BY <3>1, <3>2 DEF Course, Onboards
  <2>2. CASE Decline(r)
    <3>1. /\ run'[r].request = run[r].request /\ run'[r].path = run[r].path
          /\ run'[r].pc = "mark" /\ run[r].pc = "ask"
      BY <1>1, <2>2 DEF Decline, Go, RunState, At
    <3>2. QED
      BY <1>1, <3>1 DEF Course, Onboards
  <2>3. CASE ReadChoices(r)
    <3>1. CASE Quit(r)
      BY <1>2, <3>1
    <3>2. CASE ~Quit(r)
      <4>1. PICK text : /\ run' = [run EXCEPT ![r].pc = "write",
                                     ![r].new = Written(text, run[r].request.asks)]
                        /\ run[r].path = "packaged" => text = packaged
        BY <2>3, <3>2 DEF ReadChoices
      <4>2. /\ run'[r].request = run[r].request /\ run'[r].path = run[r].path
            /\ run'[r].pc = "write" /\ run'[r].new = Written(text, run[r].request.asks)
        BY <1>1, <4>1 DEF RunState
      <4>3. Onboards(r)
        BY <2>3 DEF ReadChoices
      <4>4. packaged \in Good /\ packaged.parses /\ Plain(packaged)
        BY DEF TInv, Courses, Good
      <4>5. Written(packaged, run[r].request.asks).parses
        BY <4>4, WrittenFound
      <4>6. QED
        BY <4>1, <4>2, <4>3, <4>5 DEF Course, Onboards
    <3>3. QED
      BY <3>1, <3>2
  <2>4. CASE ReadOriginal(r)
    <3>1. /\ run'[r].request = run[r].request /\ run'[r].path = run[r].path
          /\ run'[r].pc = "reread" /\ run[r].pc = "read" /\ ~Onboards(r)
      BY <1>1, <2>4 DEF ReadOriginal, RunState, At
    <3>2. QED
      BY <1>1, <3>1 DEF Course, Onboards
  <2>5. CASE Reread(r)
    <3>1. CASE Quit(r)
      BY <1>2, <3>1
    <3>2. CASE ~Quit(r)
      <4>1. PICK misread, text : run' = [run EXCEPT ![r].pc = "write",
                ![r].before = marker, ![r].misread = misread, ![r].new = text]
        BY <2>5, <3>2 DEF Reread
      <4>2. /\ run'[r].request = run[r].request /\ run'[r].path = run[r].path
            /\ run'[r].pc = "write" /\ run[r].pc = "reread"
        BY <1>1, <2>5, <4>1 DEF RunState, Reread, At
      <4>3. run[r].request.kind = "set"
        <5>1. run[r].request \in Requests \cup {Idle.request}
          BY <1>1 DEF RunState
        <5>2. run[r].request.kind \in {"load", "set", "first", "again"}
          BY <5>1, RequestsAssumption DEF Idle
        <5>3. QED
          BY <1>1, <4>2, <5>2 DEF Course, Onboards
      <4>4. QED
        BY <1>1, <4>2, <4>3 DEF Course, Onboards
    <3>3. QED
      BY <3>1, <3>2
  <2>6. CASE ReadFault(r)
    BY <1>2, <2>6 DEF ReadFault
  <2>7. CASE Write(r)
    <3>1. run[r].pc = "write"
      BY <2>7 DEF Write, At
    <3>2. CASE Onboards(r) \/ run[r].request.mark # "keep"
      <4>1. /\ run'[r].request = run[r].request /\ run'[r].path = run[r].path
            /\ run'[r].pc = "mark"
        BY <1>1, <2>7, <3>2 DEF Write, AfterWrite, Go, RunState
      <4>2. QED
        BY <1>1, <3>1, <3>2, <4>1 DEF Course, Onboards
    <3>3. CASE ~(Onboards(r) \/ run[r].request.mark # "keep")
      BY <1>1, <1>5, <2>7, <3>1, <3>3 DEF Write, AfterWrite, Course
    <3>4. QED
      BY <3>2, <3>3
  <2>8. CASE Mark(r)
    BY <1>1, <1>2, <1>5, <2>8 DEF Mark, At, Course
  <2>9. CASE CommitFault(r)
    <3>1. CASE Onboards(r)
      BY <1>2, <2>9, <3>1 DEF CommitFault
    <3>2. CASE ~Onboards(r)
      <4>1. /\ run'[r].request = run[r].request /\ run'[r].path = run[r].path
            /\ run'[r].pc \in {"undo", "undoMark"} /\ run[r].pc \in {"write", "mark"}
        BY <1>1, <2>9, <3>2 DEF CommitFault, RunState
      <4>2. QED
        BY <1>1, <3>2, <4>1 DEF Course, Onboards
    <3>3. QED
      BY <3>1, <3>2
  <2>10. CASE UndoMark(r)
    <3>1. /\ run'[r].request = run[r].request /\ run'[r].path = run[r].path
          /\ run'[r].pc = "undo" /\ run[r].pc = "undoMark"
      BY <1>1, <2>10 DEF UndoMark, Go, RunState, At
    <3>2. QED
      BY <1>1, <3>1 DEF Course, Onboards
  <2>11. CASE Undo(r)
    BY <1>1, <1>5, <2>11 DEF Undo, At, Course
  <2>12. CASE UndoFault(r)
    <3>1. /\ run'[r].request = run[r].request /\ run'[r].path = run[r].path
          /\ run'[r].pc = "end" /\ run[r].pc \in {"undoMark", "undo"}
      BY <1>1, <2>12 DEF UndoFault, RunState
    <3>2. QED
      BY <1>1, <3>1 DEF Course, Onboards
  <2>13. QED
    BY <1>8, <2>1, <2>2, <2>3, <2>4, <2>5, <2>6, <2>7, <2>8, <2>9, <2>10, <2>11, <2>12
       DEF Command
<1>9. CASE Leave(r) \/ Crash(r)
  BY <1>2, <1>9 DEF Leave, Crash
<1>10. QED
  BY <1>7, <1>8, <1>9

(* All runs keep to their course, and the packaged text parses. *)
LEMMA CoursesStep ==
  ASSUME TInv, PlainHands, Courses, [Next]_vars
  PROVE  Courses'
<1>1. run \in [Runs -> RunState] /\ packaged.parses /\ \A r \in Runs : Course(r)
  BY DEF TInv, Courses
<1>2. ASSUME NEW r \in Runs, run'[r] = run[r]
      PROVE  Course(r)'
  BY <1>1, <1>2 DEF Course, Onboards
<1>3. ASSUME NEW r \in Runs, Install(r) \/ Command(r) \/ Leave(r) \/ Crash(r)
      PROVE  Courses'
  <2>1. packaged'.parses
    <3>1. CASE UNCHANGED packaged
      BY <1>1, <3>1
    <3>2. CASE Write(r) /\ run[r].path = "packaged"
      BY <1>1, <3>2 DEF Write, At, Course
    <3>3. UNCHANGED packaged \/ (Write(r) /\ run[r].path = "packaged")
      <4>1. CASE Install(r)
        BY <4>1 DEF Install, Check, Create, Fill, Migrate, OpenBak, FillBak, OpenTmp, FillTmp,
                    Swap, Sync, Missing, InstallFault
      <4>2. CASE Command(r)
        BY <4>2 DEF Command, Accept, Decline, ReadChoices, ReadOriginal, Reread, ReadFault,
                    Write, Mark, CommitFault, UndoMark, Undo, UndoFault
      <4>3. CASE Leave(r) \/ Crash(r)
        BY <4>3 DEF Leave, Crash
      <4>4. QED
        BY <1>3, <4>1, <4>2, <4>3
    <3>4. QED
      BY <3>1, <3>2, <3>3
  <2>2. ASSUME NEW t \in Runs
        PROVE  Course(t)'
    <3>1. CASE t = r
      BY <1>3, <3>1, CourseStep
    <3>2. CASE t # r
      <4>1. run'[t] = run[t]
        BY <1>3, <3>2, StepMoves DEF Moves
      <4>2. QED
        BY <1>2, <4>1
    <3>3. QED
      BY <3>1, <3>2
  <2>3. QED
    BY <2>1, <2>2 DEF Courses
<1>4. ASSUME NEW r \in Runs, run'[r].pc = run[r].pc, run'[r].request = run[r].request,
             run'[r].path = run[r].path, run'[r].new = run[r].new
      PROVE  Course(r)'
  BY <1>1, <1>4 DEF Course, Onboards
<1>5. ASSUME NEW t \in Runs, run'[t] \in {run[t], [run[t] EXCEPT !.alone = FALSE]}
      PROVE  Course(t)'
  <2>1. run[t] \in RunState
    BY <1>1
  <2>2. QED
    BY <1>4, <1>5, <2>1 DEF RunState
<1>6. ASSUME NEW r \in Runs, Start(r)
      PROVE  Courses'
  <2>1. packaged'.parses
    BY <1>1, <1>6 DEF Start
  <2>2. PICK q \in Requests : run' = [s \in Runs |->
            IF s = r
            THEN [Idle EXCEPT !.pc = "check", !.request = q,
                    !.alone = \A t \in Runs \ {r} : run[t].pc \in {"idle", "end"}]
            ELSE IF run[s].pc = "idle" THEN run[s]
            ELSE [run[s] EXCEPT !.alone = FALSE]]
    BY <1>6, Zenon DEF Start
  <2>3. ASSUME NEW t \in Runs
        PROVE  Course(t)'
    <3>1. CASE t = r
      <4>1. run'[t].pc = "check" /\ run'[t].path = "config"
        BY <2>2, <3>1 DEF Idle
      <4>2. QED
        BY <4>1 DEF Course
    <3>2. CASE t # r
      BY <1>5, <2>2, <3>2
    <3>3. QED
      BY <3>1, <3>2
  <2>4. QED
    BY <2>1, <2>3 DEF Courses
<1>7. CASE HandEdit
  BY <1>1, <1>5, <1>7 DEF HandEdit, Courses
<1>8. CASE UNCHANGED vars
  BY <1>1, <1>2, <1>8 DEF vars, Courses
<1>9. QED
  BY <1>3, <1>6, <1>7, <1>8 DEF Next

-------------------------------------------------------------------------------
(* A run that is alone installs. *)

(* What a run that installs alone relies on stays true. *)
LEMMA InstallsStep ==
  ASSUME TInv, Distinct, NEW r \in Runs, Installs(r), Install(r)
  PROVE  Installs(r)'
<1>1. run \in [Runs -> RunState] /\ run[r] \in RunState /\ dir \in [Names -> Inode]
  BY DEF TInv
<1>2. {"config", "bak", "tmp"} = Names
  BY DEF Names
<1>3. ASSUME run'[r].pc \notin {"create", "fill", "bak", "fillBak", "tmp", "fillTmp", "swap"}
      PROVE  Installs(r)'
  BY <1>3 DEF Installs
<1>4. ASSUME NEW path, Resolved(r, path)
      PROVE  Installs(r)'
  <2>1. run'[r].pc \in {"ask", "read", "idle"}
    BY <1>1, <1>4 DEF Resolved, Quit, Idle, RunState
  <2>2. QED
    BY <1>3, <2>1
<1>5. ASSUME NotInstalled(r)
      PROVE  Installs(r)'
  <2>1. CASE Quit(r)
    <3>1. run'[r].pc = "idle"
      BY <1>1, <2>1 DEF Quit, Idle
    <3>2. QED
      BY <1>3, <3>1
  <2>2. QED
    BY <1>4, <1>5, <2>1 DEF NotInstalled
<1>6. CASE Check(r)
  <2>1. run'[r].pc = (IF Exists("config") THEN "migrate" ELSE "create") /\ UNCHANGED dir
    BY <1>1, <1>6 DEF Check, Go, RunState, files
  <2>2. QED
    BY <2>1 DEF Installs, Exists
<1>7. CASE Create(r)
  <2>1. /\ Exists("config")' /\ dir'["config"] = Opened("config")
        /\ ContentOf("config")' = Empty
    BY <1>2, <1>7, TruncateContent DEF Create
  <2>2. run'[r].pc = "fill" /\ run'[r].out = Opened("config")
    BY <1>1, <1>7 DEF Create, RunState
  <2>3. QED
    BY <2>1, <2>2 DEF Installs, Empty
<1>8. CASE Fill(r)
  <2>1. run'[r].pc = "migrate"
    BY <1>1, <1>8 DEF Fill, RunState
  <2>2. QED
    BY <1>3, <2>1
<1>9. CASE Migrate(r)
  <2>1. FilesKept
    BY <1>9, KeepContent DEF Migrate, files
  <2>2. CASE Migrates(ContentOf("config"))
    <3>1. /\ run'[r].pc \in {"tmp", "bak"} /\ run'[r].new = Migrated(ContentOf("config"))
          /\ Exists("config")
      BY <1>1, <1>9, <2>2 DEF Migrate, RunState
    <3>2. Exists("config")' /\ ContentOf("config")' = ContentOf("config")
      BY <1>2, <2>1, <3>1 DEF FilesKept, Exists
    <3>3. QED
      BY <2>2, <3>1, <3>2 DEF Installs
  <2>3. CASE ~Migrates(ContentOf("config"))
    <3>1. run'[r].pc = "sync"
      BY <1>1, <1>9, <2>3 DEF Migrate, Go, RunState
    <3>2. QED
      BY <1>3, <3>1
  <2>4. QED
    BY <2>2, <2>3
<1>10. CASE OpenBak(r)
  <2>1. /\ Exists("bak")' /\ dir'["bak"] = Opened("bak")
        /\ dir'["config"] = dir["config"]
        /\ Exists("config") => ContentOf("config")' = ContentOf("config")
    BY <1>2, <1>10, TruncateContent DEF OpenBak
  <2>2. /\ run'[r].pc = "fillBak" /\ run'[r].out = Opened("bak")
        /\ run'[r].new = run[r].new /\ run[r].pc = "bak"
    BY <1>1, <1>10 DEF OpenBak, RunState, At
  <2>3. QED
    BY <2>1, <2>2 DEF Installs, Exists
<1>11. CASE FillBak(r)
  <2>1. run[r].pc = "fillBak" /\ UNCHANGED dir
    BY <1>11 DEF FillBak, At
  <2>2. Exists("config") /\ dir["config"] # run[r].out
    BY <1>2, <2>1 DEF Installs, Distinct, Exists
  <2>3. ContentOf("config")' = ContentOf("config")
    BY <1>2, <1>11, <2>2, WriteContent DEF FillBak
  <2>4. run'[r].pc = "tmp" /\ run'[r].new = run[r].new
    BY <1>1, <1>11 DEF FillBak, RunState
  <2>5. QED
    BY <2>1, <2>2, <2>3, <2>4 DEF Installs, Exists
<1>12. CASE OpenTmp(r)
  <2>1. /\ Exists("tmp")' /\ dir'["tmp"] = Opened("tmp")
        /\ dir'["config"] = dir["config"]
        /\ Exists("config") => ContentOf("config")' = ContentOf("config")
    BY <1>2, <1>12, TruncateContent DEF OpenTmp
  <2>2. /\ run'[r].pc = "fillTmp" /\ run'[r].out = Opened("tmp")
        /\ run'[r].new = run[r].new /\ run[r].pc = "tmp"
    BY <1>1, <1>12 DEF OpenTmp, RunState, At
  <2>3. QED
    BY <2>1, <2>2 DEF Installs, Exists
<1>13. CASE FillTmp(r)
  <2>1. run[r].pc = "fillTmp" /\ UNCHANGED dir
    BY <1>13 DEF FillTmp, At
  <2>2. /\ Exists("config") /\ dir["config"] # run[r].out
        /\ Exists("tmp") /\ dir["tmp"] = run[r].out
    BY <1>2, <2>1 DEF Installs, Distinct, Exists
  <2>3. ContentOf("config")' = ContentOf("config") /\ ContentOf("tmp")' = run[r].new
    BY <1>2, <1>13, <2>2, WriteContent DEF FillTmp
  <2>4. run'[r].pc = "swap" /\ run'[r].new = run[r].new
    BY <1>1, <1>13 DEF FillTmp, RunState
  <2>5. QED
    BY <2>1, <2>2, <2>3, <2>4 DEF Installs, Exists
<1>14. CASE Swap(r)
  <2>1. run'[r].pc = "sync"
    BY <1>1, <1>14 DEF Swap, RunState
  <2>2. QED
    BY <1>3, <2>1
<1>15. CASE Sync(r)
  BY <1>4, <1>15 DEF Sync
<1>16. CASE Missing(r) \/ InstallFault(r)
  BY <1>5, <1>16 DEF Missing, InstallFault
<1>17. QED
  BY <1>6, <1>7, <1>8, <1>9, <1>10, <1>11, <1>12, <1>13, <1>14, <1>15, <1>16 DEF Install

-------------------------------------------------------------------------------
(* A run that is alone patches. *)

(* What a patch does while it reads and writes. *)
LEMMA PatchesStep ==
  ASSUME TInv, PlainHands, Distinct, Courses, NEW r \in Runs,
         run[r].request.kind = "set", Patches(r), Install(r) \/ Command(r)
  PROVE  run'[r].pc = "idle" \/ (Patches(r)' /\ Reported(r)')
<1>1. /\ run \in [Runs -> RunState] /\ run[r] \in RunState /\ dir \in [Names -> Inode]
      /\ ~Onboards(r) /\ run[r].path = "config" /\ "config" \in Names
      /\ run[r].faults \in Nat
  BY DEF TInv, Courses, Course, Onboards, Names, RunState
<1>2. ASSUME run'[r].pc \notin {"read", "reread", "write", "mark", "undoMark", "undo", "end"}
      PROVE  Patches(r)' /\ Reported(r)'
  BY <1>2 DEF Patches, Reported, At
<1>3. ASSUME Quit(r)
      PROVE  run'[r].pc = "idle"
  BY <1>1, <1>3 DEF Quit, Idle
<1>4. ASSUME NotInstalled(r)
      PROVE  run'[r].pc = "idle"
  BY <1>3, <1>4 DEF NotInstalled
<1>5. ASSUME UNCHANGED files
      PROVE  ContentOf("config")' = ContentOf("config") /\ (Exists("config") => Exists("config")')
  BY <1>5 DEF files, ContentOf, Exists
<1>6. CASE Install(r)
  <2>1. CASE \/ Check(r) \/ Create(r) \/ Fill(r) \/ Migrate(r) \/ OpenBak(r) \/ FillBak(r)
             \/ OpenTmp(r) \/ FillTmp(r) \/ Swap(r)
    <3>1. run'[r].pc \in {"create", "migrate", "fill", "tmp", "bak", "sync", "fillBak",
                          "fillTmp", "swap"}
      <4>1. CASE Check(r) \/ Migrate(r)
        BY <1>1, <4>1 DEF Check, Migrate, Go, RunState
      <4>2. CASE Create(r) \/ Fill(r) \/ OpenBak(r) \/ FillBak(r)
        BY <1>1, <4>2 DEF Create, Fill, OpenBak, FillBak, RunState
      <4>3. CASE OpenTmp(r) \/ FillTmp(r) \/ Swap(r)
        BY <1>1, <4>3 DEF OpenTmp, FillTmp, Swap, RunState
      <4>4. QED
        BY <2>1, <4>1, <4>2, <4>3
    <3>2. QED
      BY <1>2, <3>1
  <2>2. CASE Sync(r)
    <3>1. Exists("config") /\ UNCHANGED files /\ Resolved(r, "config")
      BY <2>2 DEF Sync
    <3>2. run'[r].pc = "read"
      BY <1>1, <3>1 DEF Resolved, RunState
    <3>3. QED
      BY <1>5, <3>1, <3>2 DEF Patches, Reported, At
  <2>3. CASE Missing(r) \/ InstallFault(r)
    BY <1>4, <2>3 DEF Missing, InstallFault
  <2>4. QED
    BY <1>6, <2>1, <2>2, <2>3 DEF Install
<1>7. CASE Accept(r) \/ Decline(r) \/ ReadChoices(r)
  BY <1>1, <1>7 DEF Accept, Decline, ReadChoices, Courses, Course, At
<1>8. CASE ReadFault(r)
  BY <1>3, <1>8 DEF ReadFault
<1>9. CASE ReadOriginal(r)
  <2>1. Exists("config") /\ UNCHANGED files
    BY <1>9 DEF ReadOriginal, At, Patches
  <2>2. run'[r].pc = "reread" /\ run'[r].found = TRUE /\ run'[r].text = ContentOf("config")
    BY <1>1, <1>9, <2>1 DEF ReadOriginal, RunState
  <2>3. QED
    BY <1>5, <2>1, <2>2 DEF Patches, Reported, At
<1>10. CASE Reread(r)
  <2>1. /\ run[r].pc = "reread" /\ Exists("config") /\ run[r].found
        /\ ContentOf("config") = run[r].text /\ UNCHANGED <<files, marker>>
        /\ packaged.parses
    BY <1>10 DEF Reread, At, Patches, Courses
  <2>2. PICK misread \in BOOLEAN :
          LET current == IF misread THEN Broken
                         ELSE IF Exists("config") THEN ContentOf("config") ELSE packaged
              values == Merged(ValuesOf(current), run[r].request.asks)
              base == IF run[r].found /\ current.parses THEN run[r].text ELSE packaged
          IN IF Validated(values)
             THEN run' = [run EXCEPT ![r].pc = "write", ![r].before = marker,
                            ![r].misread = misread,
                            ![r].new = Written(base, values)]
             ELSE Quit(r)
    BY <1>10, Zenon DEF Reread
  <2> DEFINE current == IF misread THEN Broken
                        ELSE IF Exists("config") THEN ContentOf("config") ELSE packaged
             base == IF run[r].found /\ current.parses THEN run[r].text ELSE packaged
             values == Merged(ValuesOf(current), run[r].request.asks)
             n == Written(base, values)
  <2>3. CASE Quit(r)
    BY <1>3, <2>3
  <2>4. CASE ~Quit(r)
    <3>1. run' = [run EXCEPT ![r].pc = "write", ![r].before = marker,
                             ![r].misread = misread, ![r].new = n]
      BY <2>2, <2>4, Zenon
    <3>2. run[r].text \in Good /\ packaged \in Good
      BY <1>1 DEF RunState, TInv
    <3>3. base \in Good /\ base.parses /\ Plain(base)
      BY <2>1, <3>2 DEF Broken, Empty, Good
    <3>4. ~misread /\ run[r].text.parses => base = run[r].text /\ current = run[r].text
      BY <2>1
    <3>5. values = [k \in Settings |-> IF k \in DOMAIN run[r].request.asks
                                       THEN run[r].request.asks[k] ELSE ValuesOf(current)[k]]
      BY DEF Merged
    <3> HIDE DEF base, values, current
    <3>6. n.parses /\ n.keys = Settings /\ n.values = [k \in Settings |-> values[k]]
      BY <3>3, WrittenFound DEF n
    <3> HIDE DEF n
    <3>7. DOMAIN run[r].request.asks \subseteq Settings
      BY RequestTyped
    <3>8. /\ run'[r].pc = "write" /\ run'[r].before = marker /\ run'[r].misread = misread
          /\ run'[r].new = n /\ run'[r].request = run[r].request /\ run'[r].text = run[r].text
          /\ run'[r].found = run[r].found
      BY <1>1, <3>1 DEF RunState
    <3>9. Asked(r)'
      BY <3>5, <3>6, <3>7, <3>8 DEF Asked, Loads, Settings, BackupKeys
    <3>10. ASSUME ~misread, run[r].text.parses,
                  NEW k \in run[r].text.keys, k \notin DOMAIN run[r].request.asks
           PROVE  k \in n.keys /\ n.values[k] = run[r].text.values[k]
      <4>1. k \in Settings
        BY <3>2 DEF Good, Text
      <4>2. ValuesOf(current)[k] = run[r].text.values[k]
        BY <3>4, <3>10, <4>1 DEF ValuesOf, Reads
      <4>3. QED
        BY <3>5, <3>6, <3>10, <4>1, <4>2
    <3>11. ~misread /\ run[r].text.parses =>
             Keeps(run[r].text, n, DOMAIN run[r].request.asks)
      BY <3>10 DEF Keeps
    <3>12. Patches(r)'
      BY <1>5, <2>1, <3>8, <3>9, <3>11 DEF Patches
    <3>13. QED
      BY <3>8, <3>12 DEF Reported, At
  <2>5. QED
    BY <2>3, <2>4
<1>11. CASE Write(r)
  <2>1. /\ run[r].pc = "write" /\ Exists("config") /\ run[r].found
        /\ ContentOf("config") = run[r].text /\ Asked(r) /\ run[r].before = marker
        /\ UNCHANGED marker
    BY <1>11 DEF Write, At, Patches
  <2>2. Exists("config")' /\ ContentOf("config")' = run[r].new
    <3>1. CASE ~Changes(r)
      BY <1>1, <1>5, <1>11, <2>1, <3>1 DEF Write, Changes
    <3>2. CASE Changes(r)
      <4>1. Replace("config", run[r].new)
        BY <1>1, <1>11, <3>2 DEF Write
      <4>2. QED
        BY <1>1, <4>1, ReplaceContent
    <3>3. QED
      BY <3>1, <3>2
  <2>3. CASE run[r].request.mark # "keep"
    <3>1. Go(r, "mark")
      BY <1>11, <2>3 DEF Write, AfterWrite
    <3>2. /\ run'[r].pc = "mark" /\ run'[r].request = run[r].request
          /\ run'[r].new = run[r].new /\ run'[r].found = run[r].found
          /\ run'[r].before = run[r].before
      BY <1>1, <3>1 DEF Go, RunState
    <3>3. Asked(r)'
      BY <2>1, <3>2 DEF Asked
    <3>4. QED
      BY <2>1, <2>2, <3>2, <3>3 DEF Patches, Reported, At
  <2>4. CASE run[r].request.mark = "keep"
    <3>1. End(r, "ok")
      BY <1>1, <1>11, <2>4 DEF Write, AfterWrite
    <3>2. /\ run'[r].pc = "end" /\ run'[r].outcome = "ok" /\ run'[r].request = run[r].request
      BY <1>1, <3>1 DEF End, RunState
    <3>3. QED
      BY <2>1, <2>2, <2>4, <3>2 DEF Patches, Reported, At, Asked
  <2>5. QED
    BY <2>3, <2>4
<1>12. CASE Mark(r)
  <2>1. /\ run[r].pc = "mark" /\ Exists("config") /\ ContentOf("config") = run[r].new
        /\ Asked(r) /\ UNCHANGED files /\ marker' = run[r].request.mark /\ End(r, "ok")
    BY <1>1, <1>12 DEF Mark, At, Patches
  <2>2. /\ run'[r].pc = "end" /\ run'[r].outcome = "ok" /\ run'[r].request = run[r].request
    BY <1>1, <2>1 DEF End, RunState
  <2>3. QED
    BY <1>5, <2>1, <2>2 DEF Patches, Reported, At, Asked
<1>13. CASE CommitFault(r)
  <2>1. /\ run[r].pc \in {"write", "mark"} /\ Exists("config") /\ run[r].found
        /\ ContentOf("config") \in {run[r].text, run[r].new} /\ run[r].before = marker
        /\ UNCHANGED <<files, marker>>
    BY <1>13 DEF CommitFault, Patches
  <2> DEFINE more == run[r].faults + 1
  <2>2. more >= 1
    BY <1>1
  <2>3. /\ run'[r].pc \in {"undo", "undoMark"} /\ run'[r].faults = more
        /\ run'[r].request = run[r].request /\ run'[r].text = run[r].text
        /\ run'[r].new = run[r].new /\ run'[r].found = run[r].found
        /\ run'[r].before = run[r].before
    BY <1>1, <1>13 DEF CommitFault, RunState
  <2> HIDE DEF more
  <2>4. QED
    BY <1>5, <2>1, <2>2, <2>3 DEF Patches, Reported, At
<1>14. CASE UndoMark(r)
  <2>1. /\ run[r].pc = "undoMark" /\ Exists("config") /\ run[r].found
        /\ ContentOf("config") \in {run[r].text, run[r].new} /\ run[r].faults >= 1
        /\ UNCHANGED files /\ marker' = run[r].before
    BY <1>14 DEF UndoMark, At, Patches
  <2>2. /\ run'[r].pc = "undo" /\ run'[r].faults = run[r].faults
        /\ run'[r].text = run[r].text /\ run'[r].new = run[r].new
        /\ run'[r].found = run[r].found /\ run'[r].before = run[r].before
    BY <1>1, <1>14 DEF UndoMark, Go, RunState
  <2>3. QED
    BY <1>5, <2>1, <2>2 DEF Patches, Reported, At
<1>15. CASE Undo(r)
  <2>1. /\ run[r].pc = "undo" /\ Exists("config") /\ run[r].found
        /\ ContentOf("config") \in {run[r].text, run[r].new} /\ run[r].before = marker
        /\ UNCHANGED marker /\ End(r, "failed")
    BY <1>15 DEF Undo, At, Patches
  <2>2. Exists("config")' /\ ContentOf("config")' = run[r].text
    <3>1. CASE ~Changes(r)
      BY <1>1, <1>5, <1>15, <2>1, <3>1 DEF Undo, Changes
    <3>2. CASE Changes(r)
      <4>1. Replace("config", run[r].text)
        BY <1>15, <2>1, <3>2 DEF Undo
      <4>2. QED
        BY <1>1, <4>1, ReplaceContent
    <3>3. QED
      BY <3>1, <3>2
  <2>3. /\ run'[r].pc = "end" /\ run'[r].outcome = "failed" /\ run'[r].text = run[r].text
        /\ run'[r].before = run[r].before
    BY <1>1, <2>1 DEF End, RunState
  <2>4. QED
    BY <2>1, <2>2, <2>3 DEF Patches, Reported, At
<1>16. CASE UndoFault(r)
  <2>1. run[r].faults >= 1
    BY <1>16 DEF UndoFault, Patches
  <2> DEFINE more == run[r].faults + 1
  <2>2. more # 1
    BY <1>1, <2>1
  <2>3. run'[r].pc = "end" /\ run'[r].outcome = "failed" /\ run'[r].faults = more
    BY <1>1, <1>16 DEF UndoFault, RunState
  <2> HIDE DEF more
  <2>4. QED
    BY <2>2, <2>3 DEF Patches, Reported, At
<1>17. QED
  BY <1>6, <1>7, <1>8, <1>9, <1>10, <1>11, <1>12, <1>13, <1>14, <1>15, <1>16 DEF Command

(* A command at its steps has nothing of an installation left to do. *)
LEMMA CommandInstalls ==
  ASSUME TInv, NEW r \in Runs, Command(r)
  PROVE  Installs(r)'
<1>1. run \in [Runs -> RunState] /\ run[r] \in RunState
  BY DEF TInv
<1>2. ASSUME run'[r].pc \notin {"create", "fill", "bak", "fillBak", "tmp", "fillTmp", "swap"}
      PROVE  Installs(r)'
  BY <1>2 DEF Installs
<1>3. ASSUME Quit(r)
      PROVE  Installs(r)'
  BY <1>1, <1>2, <1>3 DEF Quit, Idle
<1>4. ASSUME NEW outcome, End(r, outcome)
      PROVE  Installs(r)'
  BY <1>1, <1>2, <1>4 DEF End, RunState
<1>5. ASSUME NEW pc, pc \notin {"create", "fill", "bak", "fillBak", "tmp", "fillTmp", "swap"},
             Go(r, pc)
      PROVE  Installs(r)'
  BY <1>1, <1>2, <1>5 DEF Go, RunState
<1>6. CASE Accept(r)
  BY <1>1, <1>2, <1>6 DEF Accept, RunState
<1>7. CASE Decline(r) \/ UndoMark(r)
  BY <1>5, <1>7 DEF Decline, UndoMark
<1>8. CASE ReadChoices(r)
  BY <1>1, <1>2, <1>3, <1>8 DEF ReadChoices, RunState
<1>9. CASE ReadOriginal(r)
  BY <1>1, <1>2, <1>9 DEF ReadOriginal, RunState
<1>10. CASE Reread(r)
  BY <1>1, <1>2, <1>3, <1>10 DEF Reread, RunState
<1>11. CASE ReadFault(r)
  BY <1>3, <1>11 DEF ReadFault
<1>12. CASE Write(r)
  BY <1>4, <1>5, <1>12 DEF Write, AfterWrite
<1>13. CASE Mark(r)
  BY <1>3, <1>4, <1>13 DEF Mark
<1>14. CASE CommitFault(r)
  BY <1>1, <1>2, <1>3, <1>14 DEF CommitFault, RunState
<1>15. CASE Undo(r)
  BY <1>4, <1>15 DEF Undo
<1>16. CASE UndoFault(r)
  BY <1>1, <1>2, <1>16 DEF UndoFault, RunState
<1>17. QED
  BY <1>6, <1>7, <1>8, <1>9, <1>10, <1>11, <1>12, <1>13, <1>14, <1>15, <1>16 DEF Command

-------------------------------------------------------------------------------
(* Runs that are alone *)

(* Nobody else works while a run is alone, and what it relies on is true.  *)
AloneOK(r) ==
  run[r].alone /\ run[r].pc # "idle" =>
    /\ \A t \in Runs \ {r} : run[t].pc \in {"idle", "end"}
    /\ Installs(r)
    /\ run[r].request.kind = "set" => Patches(r) /\ Reported(r)

AloneInv == \A r \in Runs : AloneOK(r)

(* A step of another run: it only leaves, since this one is alone. *)
LEMMA Bystander ==
  ASSUME TInv, NEW r \in Runs, AloneOK(r), run'[r] = run[r], UNCHANGED <<files, marker>>,
         \A t \in Runs : run'[t] = run[t] \/ run'[t].pc = "idle"
  PROVE  AloneOK(r)'
<1>1. \A n \in Names : ContentOf(n)' = ContentOf(n) /\ (Exists(n)' <=> Exists(n))
  BY DEF files, ContentOf, Exists
<1>2. {"config", "bak", "tmp"} = Names
  BY DEF Names
<1>3. Installs(r) => Installs(r)'
  BY <1>1, <1>2 DEF Installs, files
<1>4. Patches(r) => Patches(r)'
  BY <1>1, <1>2 DEF Patches, Asked
<1>5. Reported(r) => Reported(r)'
  BY <1>1, <1>2 DEF Reported, At
<1>6. QED
  BY <1>3, <1>4, <1>5 DEF AloneOK

(* Runs that are alone stay undisturbed and right. *)
LEMMA AloneStep ==
  ASSUME TInv, PlainHands, Distinct, Courses, AloneInv, [Next]_vars
  PROVE  AloneInv'
<1>1. run \in [Runs -> RunState] /\ \A r \in Runs : AloneOK(r)
  BY DEF TInv, AloneInv
<1>2. ASSUME NEW r \in Runs, ~run'[r].alone \/ run'[r].pc = "idle"
      PROVE  AloneOK(r)'
  BY <1>2 DEF AloneOK
<1>3. Idle.pc = "idle"
  BY DEF Idle
<1>4. ASSUME NEW s \in Runs, Install(s) \/ Command(s) \/ Leave(s) \/ Crash(s),
             NEW r \in Runs
      PROVE  AloneOK(r)'
  <2>1. Moves(s) /\ (Leave(s) \/ run[s].pc \notin {"idle", "end"})
    BY <1>4, StepMoves
  <2>2. CASE r # s
    <3>1. run'[r] = run[r]
      BY <2>1, <2>2 DEF Moves
    <3>2. CASE ~run[r].alone \/ run[r].pc = "idle"
      BY <1>2, <3>1, <3>2
    <3>3. CASE run[r].alone /\ run[r].pc # "idle"
      <4>1. Leave(s)
        BY <1>1, <2>1, <2>2, <3>3 DEF AloneOK
      <4>2. run'[s].pc = "idle" /\ UNCHANGED <<files, marker>>
        BY <1>1, <1>3, <4>1 DEF Leave, Quit
      <4>3. \A t \in Runs : run'[t] = run[t] \/ run'[t].pc = "idle"
        BY <2>1, <4>2 DEF Moves
      <4>4. QED
        BY <1>1, <3>1, <4>2, <4>3, Bystander
    <3>4. QED
      BY <3>2, <3>3
  <2>3. CASE r = s
    <3>1. CASE run'[r].pc = "idle" \/ ~run'[r].alone
      BY <1>2, <3>1
    <3>2. CASE run'[r].pc # "idle" /\ run'[r].alone
      <4>1. /\ run[r].alone /\ run'[r].request = run[r].request
            /\ \A t \in Runs \ {r} : run'[t] = run[t]
        BY <1>3, <2>1, <2>3, <3>2 DEF Moves
      <4>2. Install(r) \/ Command(r)
        BY <1>1, <1>3, <1>4, <2>3, <3>2 DEF Leave, Crash, Quit
      <4>3. run[r].pc # "idle"
        <5>1. Leave(r) => run[r].pc = "end"
          BY DEF Leave, At
        <5>2. QED
          BY <2>1, <2>3, <5>1
      <4>4. /\ \A t \in Runs \ {r} : run[t].pc \in {"idle", "end"}
            /\ Installs(r) /\ (run[r].request.kind = "set" => Patches(r))
        BY <1>1, <4>1, <4>3 DEF AloneOK
      <4>5. Installs(r)'
        <5>1. CASE Install(r)
          BY <4>4, <5>1, InstallsStep
        <5>2. CASE Command(r)
          BY <5>2, CommandInstalls
        <5>3. QED
          BY <4>2, <5>1, <5>2
      <4>6. run[r].request.kind = "set" => Patches(r)' /\ Reported(r)'
        BY <3>2, <4>2, <4>4, PatchesStep
      <4>7. QED
        BY <4>1, <4>4, <4>5, <4>6 DEF AloneOK
    <3>3. QED
      BY <3>1, <3>2
  <2>4. QED
    BY <2>2, <2>3
<1>5. ASSUME NEW s \in Runs, Start(s), NEW r \in Runs
      PROVE  AloneOK(r)'
  <2>1. PICK q \in Requests : run' = [t \in Runs |->
            IF t = s
            THEN [Idle EXCEPT !.pc = "check", !.request = q,
                    !.alone = \A u \in Runs \ {s} : run[u].pc \in {"idle", "end"}]
            ELSE IF run[t].pc = "idle" THEN run[t]
            ELSE [run[t] EXCEPT !.alone = FALSE]]
    BY <1>5, Zenon DEF Start
  <2>2. CASE r # s
    <3>1. run[r] \in RunState
      BY <1>1
    <3>2. CASE run[r].pc = "idle"
      BY <1>2, <2>1, <2>2, <3>2
    <3>3. CASE run[r].pc # "idle"
      <4>1. run'[r] = [run[r] EXCEPT !.alone = FALSE]
        BY <2>1, <2>2, <3>3
      <4>2. ~run'[r].alone
        BY <3>1, <4>1 DEF RunState
      <4>3. QED
        BY <1>2, <4>2
    <3>4. QED
      BY <3>2, <3>3
  <2>3. CASE r = s
    <3> DEFINE a == \A u \in Runs \ {s} : run[u].pc \in {"idle", "end"}
    <3>1. run'[r] = [Idle EXCEPT !.pc = "check", !.request = q, !.alone = a]
      BY <2>1, <2>3
    <3>2. run'[r].pc = "check" /\ run'[r].alone = a
      BY <3>1 DEF Idle
    <3>3. CASE ~a
      BY <1>2, <3>2, <3>3
    <3>4. CASE a
      <4>1. ASSUME NEW t \in Runs \ {r}
            PROVE  run'[t].pc \in {"idle", "end"}
        <5>1. run[t] \in RunState /\ run[t].pc \in {"idle", "end"}
          BY <1>1, <2>3, <3>4
        <5>2. run'[t] \in {run[t], [run[t] EXCEPT !.alone = FALSE]}
          BY <2>1, <2>3
        <5>3. QED
          BY <5>1, <5>2 DEF RunState
      <4>2. QED
        BY <3>2, <4>1 DEF AloneOK, Installs, Patches, Reported, At
    <3>5. QED
      BY <3>3, <3>4
  <2>4. QED
    BY <2>2, <2>3
<1>6. ASSUME HandEdit, NEW r \in Runs
      PROVE  AloneOK(r)'
  <2>1. run[r] \in RunState
    BY <1>1
  <2>2. run'[r] = IF run[r].pc = "idle" THEN run[r] ELSE [run[r] EXCEPT !.alone = FALSE]
    BY <1>6 DEF HandEdit
  <2>3. ~run'[r].alone \/ run'[r].pc = "idle"
    BY <2>1, <2>2 DEF RunState
  <2>4. QED
    BY <1>2, <2>3
<1>7. ASSUME UNCHANGED vars, NEW r \in Runs
      PROVE  AloneOK(r)'
  <2>1. run' = run /\ UNCHANGED <<files, marker>>
    BY <1>7 DEF vars, files
  <2>2. AloneOK(r) /\ run'[r] = run[r]
        /\ \A t \in Runs : run'[t] = run[t] \/ run'[t].pc = "idle"
    BY <1>1, <2>1
  <2>3. QED
    BY <2>1, <2>2, Bystander
<1>8. QED
  BY <1>4, <1>5, <1>6, <1>7 DEF Next, AloneInv

(* The invariant, where users write plain texts. *)
AInv == TInv /\ Distinct /\ Courses /\ AloneInv

(* What the processes and the files keep to: files have one name, runs     *)
(* their course, and a run that no other overlaps finds what it left.      *)
LEMMA AloneInvariant ==
  ASSUME PlainHands
  PROVE  Spec => []AInv
<1>1. Init => AInv
  <2>1. SUFFICES ASSUME Init PROVE AInv
    OBVIOUS
  <2>2. TInv
    BY <2>1, TypesInit
  <2>3. \A r \in Runs : run[r] = Idle
    BY <2>1 DEF Init
  <2>4. Distinct
    BY <2>1 DEF Init, Distinct
  <2>5. Courses
    BY <2>1, <2>3 DEF Init, Courses, Course, Idle, Onboards, PackagedText
  <2>6. AloneInv
    BY <2>3 DEF AloneInv, AloneOK, Idle
  <2>7. QED
    BY <2>2, <2>4, <2>5, <2>6 DEF AInv
<1>2. AInv /\ [Next]_vars => AInv'
  BY TypesStep, DistinctStep, CoursesStep, AloneStep DEF AInv
<1>3. QED
  BY <1>1, <1>2, PTL DEF Spec

(* Where users keep defaults.backup under its own header: a patch that no  *)
(* other process and no edit overlaps, and that reports success, has saved *)
(* what it was asked; one that fails once has left the text and the marker *)
(* as it found them (apply_api_config_patch and its except block).         *)
THEOREM OutcomesAreTrue ==
  ASSUME PlainHands
  PROVE  Spec => []OutcomeIsTrue
<1>1. AInv => OutcomeIsTrue
  <2>1. SUFFICES ASSUME AInv PROVE OutcomeIsTrue
    OBVIOUS
  <2>2. \A r \in Runs : AloneOK(r)
    BY <2>1 DEF AInv, AloneInv
  <2>3. ASSUME NEW r \in Runs, At(r, "end"), run[r].alone
        PROVE  Reported(r)
    <3>1. Course(r) /\ run[r].request \in Requests \cup {Idle.request}
      BY <2>1 DEF AInv, Courses, TInv, RunState
    <3>2. run[r].request.kind \in {"load", "set", "first", "again"}
      BY <3>1, RequestsAssumption DEF Idle
    <3>3. run[r].request.kind = "set"
      BY <2>3, <3>1, <3>2 DEF Course, Onboards, At
    <3>4. QED
      BY <2>2, <2>3, <3>3 DEF AloneOK, At
  <2>4. SavedMeansSaved
    BY <2>3 DEF SavedMeansSaved, Reported
  <2>5. FailedMeansUnchanged
    BY <2>3 DEF FailedMeansUnchanged, Reported
  <2>6. QED
    BY <2>4, <2>5 DEF OutcomeIsTrue
<1>2. QED
  BY <1>1, AloneInvariant, PTL

(* One step of a run that is alone keeps what config.toml sets. *)
LEMMA KeepsStep ==
  ASSUME AInv, PlainHands, NEW r \in Runs, Install(r) \/ Command(r) \/ Leave(r) \/ Crash(r),
         run[r].alone, ~run[r].misread, Exists("config"), ContentOf("config").parses
  PROVE  Exists("config")' /\ Keeps(ContentOf("config"), ContentOf("config")', Changing(r))
<1>1. /\ TInv /\ Distinct /\ run \in [Runs -> RunState] /\ run[r] \in RunState
      /\ dir \in [Names -> Inode] /\ Course(r) /\ AloneOK(r) /\ {"config", "bak", "tmp"} = Names
  BY DEF AInv, TInv, Courses, AloneInv, Names
<1>2. ContentOf("config") \in Good /\ ContentOf("config").keys \subseteq Settings
  BY <1>1, ContentGood DEF Good, Text
<1>3. run[r].pc # "idle" => Installs(r) /\ (run[r].request.kind = "set" => Patches(r))
  BY <1>1 DEF AloneOK
<1>4. ASSUME dir'["config"] = dir["config"], ContentOf("config")' = ContentOf("config")
      PROVE  Exists("config")' /\ Keeps(ContentOf("config"), ContentOf("config")', Changing(r))
  BY <1>4 DEF Exists, Keeps
<1>5. ASSUME UNCHANGED files
      PROVE  dir'["config"] = dir["config"] /\ ContentOf("config")' = ContentOf("config")
  BY <1>5 DEF files, ContentOf
<1>6. ASSUME UNCHANGED dir, Update(data)
      PROVE  dir'["config"] = dir["config"] /\ ContentOf("config")' = ContentOf("config")
  BY <1>1, <1>6, KeepContent DEF FilesKept
<1>7. ASSUME UNCHANGED dir, NEW text, Update([data EXCEPT ![run[r].out] = text]),
             dir["config"] # run[r].out
      PROVE  dir'["config"] = dir["config"] /\ ContentOf("config")' = ContentOf("config")
  BY <1>1, <1>7, WriteContent
<1>8. ASSUME NEW name \in {"bak", "tmp"}, Truncate(name)
      PROVE  dir'["config"] = dir["config"] /\ ContentOf("config")' = ContentOf("config")
  BY <1>1, <1>8, TruncateContent
<1>9. CASE Leave(r) \/ Crash(r)
  BY <1>4, <1>5, <1>6, <1>9 DEF Leave, Crash
<1>10. CASE Install(r)
  <2>0. Installs(r)
    BY <1>3, <1>10, StepMoves, <1>1 DEF Leave, At
  <2>1. CASE Check(r) \/ Migrate(r) \/ Sync(r) \/ Missing(r)
    BY <1>4, <1>5, <2>1 DEF Check, Migrate, Sync, Missing
  <2>2. CASE Create(r)
    BY <2>0, <2>2 DEF Create, At, Installs
  <2>3. CASE OpenBak(r) \/ OpenTmp(r)
    BY <1>4, <1>8, <2>3 DEF OpenBak, OpenTmp
  <2>4. run[r].pc = "fill" => ContentOf("config").keys = {}
    BY <2>0 DEF Installs
  <2>5. run[r].pc \in {"fillBak", "fillTmp"} => dir["config"] # run[r].out
    BY <1>1, <2>0 DEF Installs, Distinct, Exists
  <2>6. CASE Fill(r)
    <3>1. UNCHANGED dir /\ run[r].pc = "fill"
      BY <2>6 DEF Fill, At
    <3>2. QED
      BY <2>4, <3>1 DEF Exists, Keeps
  <2>7. CASE FillBak(r)
    BY <1>4, <1>7, <2>5, <2>7 DEF FillBak, At
  <2>8. CASE FillTmp(r)
    BY <1>4, <1>7, <2>5, <2>8 DEF FillTmp, At
  <2>9. CASE InstallFault(r)
    <3>1. UNCHANGED dir
      BY <2>9 DEF InstallFault
    <3>2. CASE run[r].pc = "fill"
      BY <2>4, <3>1, <3>2 DEF Exists, Keeps
    <3>3. CASE run[r].pc # "fill"
      BY <1>4, <1>6, <1>7, <2>5, <2>9, <3>1, <3>3 DEF InstallFault
    <3>4. QED
      BY <3>2, <3>3
  <2>10. CASE Swap(r)
    <3>1. /\ Exists("tmp") /\ ContentOf("tmp") = Migrated(ContentOf("config"))
          /\ Migrates(ContentOf("config")) /\ dir'["config"] = dir["tmp"] /\ Update(data)
          /\ dir' = [dir EXCEPT !["config"] = dir["tmp"], !["tmp"] = NoInode]
      BY <1>1, <2>0, <2>10 DEF Swap, At, Installs
    <3>2. dir' \in [Names -> Inode] /\ dir'["config"] # NoInode
      BY <1>1, <3>1 DEF Exists, Inode
    <3>3. data'[dir'["config"]] = data[dir'["config"]]
      BY <1>1, <3>1, <3>2, UpdateContent
    <3>4. ContentOf("config")' = Migrated(ContentOf("config"))
      BY <3>1, <3>3 DEF ContentOf
    <3>5. Keeps(ContentOf("config"), Migrated(ContentOf("config")), {})
      BY <1>2, <3>1, MigratedKeeps DEF Good
    <3>6. QED
      BY <3>2, <3>4, <3>5 DEF Exists, Keeps
  <2>11. QED
    BY <1>10, <2>1, <2>2, <2>3, <2>6, <2>7, <2>8, <2>9, <2>10 DEF Install
<1>11. CASE Command(r)
  <2>1. CASE \/ Accept(r) \/ Decline(r) \/ ReadChoices(r) \/ ReadOriginal(r) \/ Reread(r)
             \/ ReadFault(r) \/ Mark(r) \/ CommitFault(r) \/ UndoMark(r) \/ UndoFault(r)
    BY <1>4, <1>5, <2>1 DEF Accept, Decline, ReadChoices, ReadOriginal, Reread, ReadFault,
                            Mark, CommitFault, UndoMark, UndoFault
  <2>2. CASE Write(r)
    <3>1. CASE UNCHANGED files
      BY <1>4, <1>5, <3>1
    <3>2. CASE ~UNCHANGED files
      <4>1. Replace("config", run[r].new) /\ run[r].pc = "write"
        BY <2>2, <3>2 DEF Write, At
      <4>2. Exists("config")' /\ ContentOf("config")' = run[r].new
        BY <1>1, <4>1, ReplaceContent
      <4>3. Changing(r) = DOMAIN run[r].request.asks
        BY <4>1 DEF Changing, At
      <4>4. CASE Onboards(r)
        <5>1. run[r].request.asks \in Values
          BY <1>1, <4>4, RequestTyped
        <5>2. DOMAIN run[r].request.asks = Settings
          BY <5>1 DEF Values, Settings, BackupKeys
        <5>3. QED
          BY <1>2, <4>2, <4>3, <5>2 DEF Keeps
      <4>5. CASE ~Onboards(r)
        <5>1. run[r].request \in Requests \cup {Idle.request}
          BY <1>1 DEF RunState
        <5>2. run[r].request.kind \in {"load", "set", "first", "again"}
          BY <5>1, RequestsAssumption DEF Idle
        <5>3. run[r].request.kind = "set"
          BY <1>1, <4>1, <4>5, <5>2 DEF Course, Onboards
        <5>4. Keeps(ContentOf("config"), run[r].new, DOMAIN run[r].request.asks)
          BY <1>3, <4>1, <5>3 DEF Patches
        <5>5. QED
          BY <4>2, <4>3, <5>4
      <4>6. QED
        BY <4>4, <4>5
    <3>3. QED
      BY <3>1, <3>2
  <2>3. CASE Undo(r)
    <3>1. run[r].pc = "undo"
      BY <2>3 DEF Undo, At
    <3>2. Changing(r) = Settings
      BY <3>1 DEF Changing, At
    <3>3. run[r].request.kind = "set"
      <4>1. run[r].request \in Requests \cup {Idle.request}
        BY <1>1 DEF RunState
      <4>2. run[r].request.kind \in {"load", "set", "first", "again"}
        BY <4>1, RequestsAssumption DEF Idle
      <4>3. QED
        BY <1>1, <3>1, <4>2 DEF Course, Onboards
    <3>4. run[r].found
      BY <1>3, <3>1, <3>3 DEF Patches
    <3>5. CASE UNCHANGED files
      BY <1>4, <1>5, <3>5
    <3>6. CASE ~UNCHANGED files
      <4>1. Replace("config", run[r].text)
        BY <2>3, <3>4, <3>6 DEF Undo
      <4>2. Exists("config")'
        BY <1>1, <4>1, ReplaceContent
      <4>3. QED
        BY <1>2, <3>2, <4>2 DEF Keeps
    <3>7. QED
      BY <3>5, <3>6
  <2>4. QED
    BY <1>11, <2>1, <2>2, <2>3 DEF Command
<1>12. QED
  BY <1>9, <1>10, <1>11

(* Where users keep defaults.backup under its own header: a run that no    *)
(* other run and no edit overlaps keeps every setting of config.toml it    *)
(* was not asked to change, while it installs, migrates and patches, from  *)
(* whatever earlier runs left behind when they were killed or raced.       *)
THEOREM SettingsAreKept ==
  ASSUME PlainHands
  PROVE  Spec => SettingsKept
<1>1. ASSUME AInv, [Next]_vars, NEW r \in Runs, run'[r] # run[r], run[r].alone,
             run'[r].alone, ~run[r].misread, Exists("config"), ContentOf("config").parses
      PROVE  /\ Exists("config")'
             /\ Keeps(ContentOf("config"), ContentOf("config")', Changing(r))
  <2>1. TInv /\ run[r] \in RunState
    BY <1>1 DEF AInv, TInv
  <2>2. ~UNCHANGED vars
    BY <1>1 DEF vars
  <2>3. CASE HandEdit
    <3>1. run'[r] = IF run[r].pc = "idle" THEN run[r] ELSE [run[r] EXCEPT !.alone = FALSE]
      BY <2>3 DEF HandEdit
    <3>2. QED
      BY <1>1, <2>1, <3>1 DEF RunState
  <2>4. ASSUME NEW s \in Runs, Start(s)
        PROVE  /\ Exists("config")'
               /\ Keeps(ContentOf("config"), ContentOf("config")', Changing(r))
    <3>1. UNCHANGED files
      BY <2>4 DEF Start
    <3>2. QED
      BY <1>1, <3>1 DEF files, Exists, ContentOf, Keeps
  <2>5. ASSUME NEW s \in Runs, Install(s) \/ Command(s) \/ Leave(s) \/ Crash(s)
        PROVE  /\ Exists("config")'
               /\ Keeps(ContentOf("config"), ContentOf("config")', Changing(r))
    <3>1. s = r
      BY <1>1, <2>1, <2>5, StepMoves DEF Moves
    <3>2. QED
      BY <1>1, <2>5, <3>1, KeepsStep
  <2>6. QED
    BY <1>1, <2>2, <2>3, <2>4, <2>5 DEF Next
<1>2. AInv /\ [Next]_vars =>
        [\A r \in Runs :
           (/\ run'[r] # run[r] /\ run[r].alone /\ run'[r].alone
            /\ ~run[r].misread /\ Exists("config") /\ ContentOf("config").parses)
           => /\ Exists("config")'
              /\ Keeps(ContentOf("config"), ContentOf("config")', Changing(r))]_vars
  BY <1>1
<1>3. QED
  BY <1>2, AloneInvariant, PTL DEF SettingsKept, Spec
===============================================================================
