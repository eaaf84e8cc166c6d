------------------------------ MODULE ConfigText ------------------------------
(***************************************************************************)
(* The text of a configuration file as install.py and api_patch.py see it: *)
(* they read it with a TOML parser and write it line by line.  A text      *)
(* keeps what those two views can disagree about: whether it parses, how   *)
(* its table defaults.backup is written, whether a table header stands     *)
(* above its end, and which settings the parser finds in it.               *)
(***************************************************************************)
EXTENDS Integers

CONSTANTS
  Pages, DefaultPage,     \* page sizes, and the one used when none is set
  Codecs, DefaultCodec,   \* QR payload codecs, and the packaged one
  MaxShards               \* the largest shard count (255 in the code)

ASSUME SettingsAssumption ==
  /\ DefaultPage \in Pages /\ DefaultCodec \in Codecs
  /\ MaxShards \in Nat \ {0}

BackupKeys == {"threshold", "count", "codec"}
Settings == BackupKeys \cup {"page"}

(* The values of the settings; 0 stands for a shard count that is unset. *)
Values == [page : Pages, threshold : 0 .. MaxShards,
           count : 0 .. MaxShards, codec : Codecs]

BuiltIn == [page |-> DefaultPage, threshold |-> 0, count |-> 0,
            codec |-> DefaultCodec]

(* How defaults.backup is written: not at all, under its own header, as    *)
(* keys defaults.backup.x above every header, or in a form no line-wise    *)
(* search finds (an inline table, or keys of a table defaults).            *)
Layouts == {"none", "section", "dotted", "inline"}

(* keys: the settings the parser finds, with their values; stray: keys of  *)
(* defaults.backup whose line stands below the header of another table, so *)
(* that the parser takes them for that table's.                            *)
Text == [parses : BOOLEAN, layout : Layouts, headed : BOOLEAN,
         keys : SUBSET Settings, stray : SUBSET BackupKeys, values : Values]

Empty == [parses |-> TRUE, layout |-> "none", headed |-> FALSE,
          keys |-> {}, stray |-> {}, values |-> BuiltIn]

(* A text that does not parse; nothing is read from it. *)
Broken == [Empty EXCEPT !.parses = FALSE]

PackagedText == [parses |-> TRUE, layout |-> "section", headed |-> TRUE,
                 keys |-> Settings, stray |-> {}, values |-> BuiltIn]

Reads(text, fallback) ==
  [k \in Settings |-> IF k \in text.keys THEN text.values[k] ELSE fallback[k]]

(* The loader refuses a text without the codec: it alone is required. *)
Loads(text) == text.parses /\ "codec" \in text.keys

-------------------------------------------------------------------------------
(* _inject_missing_backup_qr_payload_codec *)

Migrates(text) ==
  text.parses /\ "codec" \notin text.keys /\ text.layout # "inline"

WithCodec(text) ==
  [text EXCEPT !.keys = @ \cup {"codec"}, !.values.codec = DefaultCodec]

(* A dotted key is appended at the end.  Below a header it belongs to that *)
(* header's table, and a second one there is a duplicate.                  *)
Migrated(text) ==
  CASE text.layout = "section" -> WithCodec(text)
    [] text.layout = "none" ->
         [WithCodec(text) EXCEPT !.layout = "section", !.headed = TRUE]
    [] text.layout = "dotted" /\ ~text.headed -> WithCodec(text)
    [] text.layout = "dotted" /\ text.headed /\ "codec" \notin text.stray ->
         [text EXCEPT !.stray = @ \cup {"codec"}]
    [] OTHER -> Broken

-------------------------------------------------------------------------------
(* _apply_values_to_text and apply_first_run_defaults: every setting is    *)
(* upserted, those of the tables templates, page and qr first.  A dotted   *)
(* key is replaced where it stands, wherever that is; one that is missing  *)
(* is appended below the headers.  A table found neither by its header nor *)
(* by a dotted key is declared again.                                      *)
Reached(text) ==
  IF text.layout = "dotted" THEN text.keys \cup {"page"} ELSE Settings

Written(text, values) ==
  IF ~text.parses THEN text
  ELSE IF text.layout = "inline" THEN Broken
  ELSE [text EXCEPT
          !.headed = TRUE,
          !.layout = IF @ = "none" THEN "section" ELSE @,
          !.keys = @ \cup Reached(text),
          !.stray = @ \cup (Settings \ Reached(text)),
          !.values = [k \in Settings |->
                       IF k \in Reached(text) THEN values[k] ELSE @[k]]]

-------------------------------------------------------------------------------
(* _merge_values_patch and the cross-field rules of _validate_config_values *)

Merged(values, asks) ==
  [k \in Settings |-> IF k \in DOMAIN asks THEN asks[k] ELSE values[k]]

Consistent(values) ==
  /\ (values.threshold = 0) = (values.count = 0)
  /\ values.threshold <= values.count

(* The rules without the comparison of the two counts. *)
ValidatedTogether(values) == (values.threshold = 0) = (values.count = 0)

Validated(values) == Consistent(values)

===============================================================================
