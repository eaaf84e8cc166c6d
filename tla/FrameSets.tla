----------------------------- MODULE FrameSets -----------------------------
(***************************************************************************)
(* Collections of frames (shared/io/frames.py, encoding/chunking.py): when *)
(* they contradict each other, and when they make up a payload.  A frame   *)
(* is [type, doc, index, total, data].  The order of frames, and whether   *)
(* one was read twice, has no effect: collections are sets.                *)
(***************************************************************************)
EXTENDS Integers, FiniteSets

CONSTANT TooLarge(_)   \* a ciphertext above MAX_CIPHERTEXT_BYTES

OfType(F, type) == {f \in F : f.type = type}

SingleFrame(f) == f.total = 1 /\ f.index = 0

(* _validate_frame, which decode_frame ends with *)
ValidFrame(f) ==
    /\ f.total \in Nat \ {0} /\ f.index \in 0..(f.total - 1)
    /\ f.type # "main" => SingleFrame(f)

Slot(f) == <<f.type, f.index, f.doc>>
Clash(F) == \E f, g \in F : f # g /\ Slot(f) = Slot(g)

Joined(M) == [i \in {f.index : f \in M} |-> (CHOOSE f \in M : f.index = i).data]

\* [mutant] The frame counts need not agree: the first frame's count rules.
ReassemblesFirstTotal(M) ==
    /\ M # {}
    /\ \A f, g \in M : f.doc = g.doc
    /\ \E f \in M : {g.index : g \in M} = 0..(f.total - 1)
    /\ ~TooLarge(Joined(M))

Reassembles(M) ==
    /\ M # {}
    /\ \A f, g \in M : f.doc = g.doc /\ f.total = g.total
    /\ \A f \in M : {g.index : g \in M} = 0..(f.total - 1)
    /\ ~TooLarge(Joined(M))
=============================================================================
