-------------------------- MODULE InputCollectors --------------------------
(***************************************************************************)
(* The two interactive collectors: QR payloads of a backup, one per line   *)
(* (recover/input_collection.py), and shard documents                      *)
(* (shared/recovery_prompts.py).  Both pin what they expect to the first   *)
(* frame they keep, report a frame that does not fit and ask again.        *)
(*                                                                         *)
(* A collector is the set of frames it has kept; what it expects can be    *)
(* read off them, since a frame that pins a field is always kept.          *)
(***************************************************************************)
EXTENDS RecoveryPlan

(* _PayloadCollectionState *)

\* [mutant] Frames are pinned to a document but not to one frame count.
FitsDocument(F, f) ==
    /\ f.type \in {"main", "auth"}
    /\ \A g \in F : g.doc = f.doc
    /\ \A g \in F : Slot(g) # Slot(f)

\* [mutant] The key under which frames are kept lacks the type: AUTH 0 is taken for MAIN 0.
FitsIndex(F, f) ==
    /\ f.type \in {"main", "auth"}
    /\ \A g \in F : g.doc = f.doc /\ g.index # f.index
    /\ \A g \in F : g.type = "main" /\ f.type = "main" => g.total = f.total

Fits(F, f) ==
    /\ f.type \in {"main", "auth"}
    /\ \A g \in F : g.doc = f.doc
    /\ \A g \in F : g.type = "main" /\ f.type = "main" => g.total = f.total
    /\ \A g \in F : Slot(g) # Slot(f)

Complete(F, unsigned) ==
    LET mains == OfType(F, "main") IN
    /\ mains # {}
    /\ \A f \in mains : Cardinality({g.index : g \in mains}) >= f.total
    /\ unsigned \/ OfType(F, "auth") # {}

(* _ShardPasteState *)

\* [mutant] A replaced shard set is told apart by everything but its set id.
ShardFitsButSet(F, f, type) ==
    /\ f.type = "key" /\ SingleFrame(f) /\ f.data # NONE
    /\ f.data.header.type = type
    /\ \A g \in F : /\ [g.data.header EXCEPT !.set = NONE] = [f.data.header EXCEPT !.set = NONE]
                    /\ g.data.index # f.data.index

ShardFits(F, f, type) ==
    /\ f.type = "key" /\ SingleFrame(f) /\ f.data # NONE
    /\ f.data.header.type = type
    /\ \A g \in F : g.data.header = f.data.header /\ g.data.index # f.data.index

(* _should_finish_shard_collection *)
AtQuorum(F) == F # {} /\ \A f \in F : Cardinality(F) >= f.data.header.threshold
=============================================================================
