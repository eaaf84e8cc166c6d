---------------------------- MODULE MCUserConfig ----------------------------
(* Small instances of UserConfig. *)
EXTENDS UserConfig, TLC

CONSTANTS r1, r2
MCRuns == {r1, r2}
OneRun == {r1}
RunSymmetry == Permutations(MCRuns)

Ask(kind, asks, mark) == [kind |-> kind, asks |-> asks, mark |-> mark]
NoAsks == [k \in {} |-> 0]
WizardChoices == [page |-> "letter", threshold |-> 1, count |-> 2, codec |-> "base64"]

MCRequests ==
  {Ask("set", [page |-> "letter", count |-> 1], "chosen"),
   Ask("set", [threshold |-> 2], "keep"),
   Ask("first", WizardChoices, "keep"),
   Ask("again", WizardChoices, "keep")}

LoadOnly == {Ask("load", NoAsks, "keep")}

(* What a user had before the codec became a setting, in the usual style. *)
Old == [PackagedText EXCEPT !.keys = {"page", "threshold", "count"},
                            !.values.page = "letter",
                            !.values.threshold = 1, !.values.count = 2]
MCHandTexts == {Old, [Empty EXCEPT !.keys = {"page"}, !.values.page = "letter",
                                   !.headed = TRUE]}

(* The same settings as dotted keys at the top, the other tables below. *)
DottedTexts == {[Old EXCEPT !.layout = "dotted"]}
===============================================================================
