------------------------- MODULE MCOutputPublishing -------------------------
(***************************************************************************)
(* Instances of OutputPublishing: at one destination either a recover run *)
(* of two files, one of a single file (as a file or in a directory) and a  *)
(* backup of two documents; or two recover runs of directories and one of  *)
(* a file.                                                                 *)
(***************************************************************************)
EXTENDS OutputPublishing

MCKind(r) == IF r = "backup" THEN "prepared" ELSE "recover"
MCEntries(r) == IF r \in {"many", "backup"} THEN {"f", "g"} ELSE {"f"}
MCOrigins(r) == CASE r = "single" -> {"file", "directory"}
                  [] r \in {"first", "second"} -> {"directory"}
                  [] OTHER -> {"file"}
MCCasts == {{"many", "single", "backup"}, {"first", "second", "lone"}}
MCAlone == {{"many"}}
MCMayCollide(r) == r = "many"
\* Nothing, a file, an empty directory, a directory with files.
MCOldTrees == {NONE, [f \in {"."} |-> "old"], EmptyDir, [f \in {"f", "h"} |-> "old"]}
MCOldDirectory == {[f \in {"f", "h"} |-> "old"]}
=============================================================================
