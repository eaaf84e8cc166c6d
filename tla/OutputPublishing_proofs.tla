----------------------- MODULE OutputPublishing_proofs -----------------------
(***************************************************************************)
(* Proofs about OutputPublishing, for any number of runs, failures and     *)
(* interrupts.                                                             *)
(***************************************************************************)
EXTENDS OutputPublishing, FiniteSetTheorems, TLAPS

-----------------------------------------------------------------------------
(* Trees. *)

\* A directory holding some of a run's own files.
Partial(r) == {[f \in D |-> r] : D \in SUBSET Entries(r)}

\* What a run stages is a tree, and so is what remains of a tree.
LEMMA TreeTypes ==
    /\ NONE \notin Trees
    /\ EmptyDir \in Trees
    /\ \A r \in Runs : Tree(r) \in Trees /\ File(r) \in Trees /\ Partial(r) \subseteq Trees
    /\ [f \in {"."} |-> "partial"] \in Trees
    /\ Complete \subseteq Trees
<1>1. ASSUME NEW D \in SUBSET Names, NEW c \in Contents PROVE [f \in D |-> c] \in Trees
  BY DEF Trees
<1>2. EmptyDir \in [{} -> Contents] /\ {} \in SUBSET Names
  BY DEF EmptyDir
<1>3. EmptyDir \in Trees
  BY <1>2 DEF Trees
<1>4. ASSUME NEW r \in Runs
      PROVE  Tree(r) \in Trees /\ File(r) \in Trees /\ Partial(r) \subseteq Trees
  <2>1. Entries(r) \in SUBSET Names /\ {"."} \in SUBSET Names /\ r \in Contents
    BY OutputConstants DEF Names, Contents
  <2>2. Tree(r) \in Trees /\ File(r) \in Trees
    BY <2>1, <1>1 DEF Tree, File
  <2>3. ASSUME NEW D \in SUBSET Entries(r) PROVE [f \in D |-> r] \in Trees
    BY <2>1, <1>1
  <2>4. QED
    BY <2>2, <2>3 DEF Partial
<1>5. [f \in {"."} |-> "partial"] \in Trees
  BY <1>1 DEF Names, Contents
<1>6. OldTrees \ {NONE} \subseteq Trees
  BY OutputConstants DEF Option
<1>7. QED
  BY <1>3, <1>4, <1>5, <1>6, OutputConstants DEF Complete

\* Staging one more file of the run's own.
LEMMA StagePartial ==
    ASSUME NEW r \in Runs, NEW t \in Partial(r), NEW f \in Entries(r)
    PROVE  /\ [g \in DOMAIN t \cup {f} |-> IF g = f THEN r ELSE t[g]] \in Partial(r)
           /\ Entries(r) \subseteq DOMAIN t \cup {f} =>
                [g \in DOMAIN t \cup {f} |-> IF g = f THEN r ELSE t[g]] = Tree(r)
<1>1. PICK D \in SUBSET Entries(r) : t = [x \in D |-> r]
  BY DEF Partial
<1>2. [g \in DOMAIN t \cup {f} |-> IF g = f THEN r ELSE t[g]] = [x \in D \cup {f} |-> r]
  BY <1>1
<1>3. D \cup {f} \in SUBSET Entries(r)
  BY <1>1
<1>4. QED
  BY <1>1, <1>2, <1>3 DEF Partial, Tree

\* Removing leaves a tree or nothing.
LEMMA EmptiedType ==
    ASSUME NEW trees \in [Runs -> Option(Trees)], NEW r \in Runs, trees[r] # NONE,
           NEW t \in Emptied(trees, r)
    PROVE  t \in Option(Trees)
<1>1. PICK D \in SUBSET Names : trees[r] \in [D -> Contents]
  BY DEF Option, Trees
<1>2. CASE t = NONE
  BY <1>2 DEF Option
<1>3. CASE \E f \in DOMAIN trees[r] : t = [g \in DOMAIN trees[r] \ {f} |-> trees[r][g]]
  <2>1. PICK f \in D : t = [g \in D \ {f} |-> trees[r][g]]
    BY <1>1, <1>3
  <2>2. t \in [D \ {f} -> Contents]
    BY <1>1, <2>1
  <2>3. D \ {f} \in SUBSET Names
    BY <1>1
  <2>4. t \in Trees
    BY <2>2, <2>3 DEF Trees
  <2>5. QED
    BY <2>4 DEF Option
<1>4. QED
  BY <1>2, <1>3 DEF Emptied

-----------------------------------------------------------------------------
(* The invariant. *)

\* The steps at which a run can have set something aside.
Late == {"promote", "restore", "drop", "report", "cleanup", "ended", "crashed"}

\* What a run holds at each step.
Holds(r) ==
    /\ pc[r] \in {"fill", "validate", "render", "setup"} => staging[r] \in Partial(r)
    /\ pc[r] \in {"install", "aside", "promote", "commit"} => staging[r] = Tree(r)
    /\ pc[r] = "move" => staging[r] = File(r)
    /\ pc[r] \in {"promote", "restore"} => backup[r] \in Complete
    /\ pc[r] \notin Late => backup[r] = NONE

IInv == TypeOK /\ DestinationWhole /\ \A r \in Runs : Holds(r)

\* A run's step leaves what the other runs hold alone.
OwnStep(r) ==
    /\ \A q \in Runs \ {r} : pc'[q] = pc[q] /\ staging'[q] = staging[q] /\ backup'[q] = backup[q]

\* It suffices that a step keeps the types, the destination, and its own part.
LEMMA OwnStepKeeps ==
    ASSUME IInv, NEW r \in Runs, OwnStep(r), TypeOK', DestinationWhole', Holds(r)'
    PROVE  IInv'
<1>1. ASSUME NEW q \in Runs, q # r PROVE Holds(q)'
  BY <1>1 DEF IInv, OwnStep, Holds
<1>2. \A q \in Runs : Holds(q)'
  BY <1>1
<1>3. QED
  BY <1>2 DEF IInv

\* An exception goes to a handler that holds nothing, or on to the rollback.
LEMMA Handlers ==
    ASSUME NEW step
    PROVE  /\ Follow(Unwind, step) \in {"cleanup", "restore", "drop", "unlink", "discard", "ended"}
           /\ Follow(Unwind, step) = "restore" => step = "promote"
           /\ Follow(Unwind, step) \notin Late => step \in {"save", "move", "render", "commit"}
           /\ Follow(UnwindInterrupt, step) \in {"cleanup", "drop", "ended"}
BY DEF Follow, Unwind, UnwindInterrupt, Late

\* Going to such a handler, with nothing else changed, keeps the invariant.
LEMMA ExceptionKeeps ==
    ASSUME IInv, NEW r \in Runs, NEW step \in {"cleanup", "restore", "drop", "unlink", "discard",
                                              "ended", "report"},
           step = "restore" => pc[r] = "promote",
           step \notin Late => pc[r] \notin Late,
           Go(r, step), NEW f \in 0..MaxFaults, faults' = f,
           result' \in [Runs -> {"ok", "error", "interrupted", "torn"}],
           UNCHANGED <<dest, staging, backup, existed, old>>
    PROVE  IInv'
<1>1. pc' \in [Runs -> Steps] /\ pc'[r] = step /\ \A q \in Runs \ {r} : pc'[q] = pc[q]
  BY DEF IInv, TypeOK, Go, Steps
<1>2. TypeOK'
  BY <1>1 DEF IInv, TypeOK
<1>3. DestinationWhole'
  BY DEF IInv, DestinationWhole
<1>4. Holds(r)'
  BY <1>1 DEF IInv, Holds, Late
<1>5. QED
  BY <1>1, <1>2, <1>3, <1>4, OwnStepKeeps DEF OwnStep

\* The file system refuses, or an operation fails: control goes to its handler.
LEMMA FailsKeeps ==
    ASSUME IInv, NEW r \in Runs, Fails(r), NEW f \in 0..MaxFaults, faults' = f,
           UNCHANGED <<dest, staging, backup, existed, old>>
    PROVE  IInv'
<1>1. result' \in [Runs -> {"ok", "error", "interrupted", "torn"}]
  BY DEF IInv, TypeOK, Fails
<1>2. pc[r] \in {"save", "move", "render", "commit"} => pc[r] \notin Late
  BY DEF Late
<1>3. QED
  BY <1>1, <1>2, Handlers, ExceptionKeeps DEF Fails

\* An operation of a run fails.
LEMMA FaultKeeps == ASSUME IInv, NEW r \in Runs, Fault(r) PROVE IInv'
<1>1. faults \in 0..MaxFaults /\ faults' = faults + 1 /\ faults < MaxFaults
      /\ MaxFaults \in Nat
  BY OutputConstants DEF IInv, TypeOK, Fault
<1>2. faults' \in 0..MaxFaults
  BY <1>1
<1>3. UNCHANGED <<dest, staging, backup, existed, old>>
  BY DEF Fault
<1>4. result \in [Runs -> {"ok", "error", "interrupted", "torn"}]
  BY DEF IInv, TypeOK
<1>5. CASE Fails(r)
  BY <1>2, <1>3, <1>5, FailsKeeps
<1>6. CASE At(r, "drop") /\ UNCHANGED result
           /\ Go(r, IF result[r] = "ok" THEN "report" ELSE "cleanup")
  <2>1. (IF result[r] = "ok" THEN "report" ELSE "cleanup") \in {"report", "cleanup"}
    OBVIOUS
  <2>2. {"report", "cleanup"} \subseteq Late
    BY DEF Late
  <2>3. QED
    BY <1>2, <1>3, <1>4, <1>6, <2>1, <2>2, ExceptionKeeps
<1>7. CASE Go(r, "ended") /\ UNCHANGED result
  <2>1. "ended" \in Late
    BY DEF Late
  <2>2. QED
    BY <1>2, <1>3, <1>4, <1>7, <2>1, ExceptionKeeps
<1>8. QED
  BY <1>5, <1>6, <1>7 DEF Fault

\* Ctrl-C.
LEMMA InterruptKeeps == ASSUME IInv, NEW r \in Runs, Interrupt(r) PROVE IInv'
<1>1. result' \in [Runs -> {"ok", "error", "interrupted", "torn"}]
  BY DEF IInv, TypeOK, Interrupt
<1>2. Go(r, Follow(UnwindInterrupt, pc[r]))
      /\ UNCHANGED <<dest, staging, backup, existed, faults, old>>
  BY DEF Interrupt
<1>3. {"cleanup", "drop", "ended"} \subseteq Late
  BY DEF Late
<1>4. faults \in 0..MaxFaults /\ faults' = faults
  BY <1>2 DEF IInv, TypeOK
<1>5. QED
  BY <1>1, <1>2, <1>3, <1>4, Handlers, ExceptionKeeps

\* A run dies.
LEMMA CrashKeeps == ASSUME IInv, NEW r \in Runs, Crash(r) PROVE IInv'
<1>1. TypeOK' /\ DestinationWhole' /\ pc'[r] = "crashed" /\ OwnStep(r)
  BY DEF IInv, TypeOK, DestinationWhole, Crash, Go, OwnStep, Steps
<1>2. Holds(r)'
  BY <1>1 DEF Holds, Late, Crash
<1>3. QED
  BY <1>1, <1>2, OwnStepKeeps

\* Steps that only move on, remembering at most whether the destination existed.
LEMMA MoveOnKeeps ==
    ASSUME IInv, NEW r \in Runs, NEW step \in Steps, Go(r, step),
           existed' \in [Runs -> BOOLEAN],
           UNCHANGED <<dest, staging, backup, result, faults, old>>,
           step \in {"fill", "validate", "render", "setup"} => staging[r] \in Partial(r),
           step \notin {"install", "aside", "promote", "commit", "move", "restore"},
           step \notin Late => pc[r] \notin Late
    PROVE  IInv'
<1>1. pc' \in [Runs -> Steps] /\ pc'[r] = step /\ \A q \in Runs \ {r} : pc'[q] = pc[q]
  BY DEF IInv, TypeOK, Go
<1>2. TypeOK' /\ DestinationWhole'
  BY <1>1 DEF IInv, TypeOK, DestinationWhole
<1>3. Holds(r)'
  BY <1>1 DEF IInv, Holds, Late
<1>4. QED
  BY <1>1, <1>2, <1>3, OwnStepKeeps DEF OwnStep

\* Steps that stage something and move on.
LEMMA StagingKeeps ==
    ASSUME IInv, NEW r \in Runs, NEW t \in Option(Trees), NEW step \in Steps,
           staging' = [staging EXCEPT ![r] = t], pc' = [pc EXCEPT ![r] = step],
           UNCHANGED <<dest, backup, existed, result, faults, old>>,
           step \in {"fill", "validate", "render", "setup"} => t \in Partial(r),
           step \in {"install", "aside", "promote", "commit"} => t = Tree(r),
           step = "move" => t = File(r),
           step \notin {"promote", "restore"},
           step \notin Late => pc[r] \notin Late
    PROVE  IInv'
<1>1. pc' \in [Runs -> Steps] /\ pc'[r] = step /\ \A q \in Runs \ {r} : pc'[q] = pc[q]
  BY DEF IInv, TypeOK
<1>2. staging' \in [Runs -> Option(Trees)] /\ staging'[r] = t
      /\ \A q \in Runs \ {r} : staging'[q] = staging[q]
  BY DEF IInv, TypeOK
<1>3. TypeOK' /\ DestinationWhole'
  BY <1>1, <1>2 DEF IInv, TypeOK, DestinationWhole
<1>4. Holds(r)'
  BY <1>1, <1>2 DEF IInv, Holds, Late
<1>5. QED
  BY <1>1, <1>2, <1>3, <1>4, OwnStepKeeps DEF OwnStep

\* Renaming a complete tree onto the destination, or failing to.
LEMMA RenameKeeps ==
    ASSUME IInv, NEW r \in Runs, NEW step \in {"report", "drop", "tell", "ended"},
           staging[r] \in Complete, RenameToDest(r, step),
           step = "tell" => pc[r] \notin Late
    PROVE  IInv'
<1>1. CASE CanReplace(staging[r])
  <2>1. /\ dest' = staging[r] /\ staging' = [staging EXCEPT ![r] = NONE]
        /\ pc' = [pc EXCEPT ![r] = step]
        /\ UNCHANGED <<result, backup, existed, faults, old>>
    BY <1>1 DEF RenameToDest, Go
  <2>2. pc' \in [Runs -> Steps] /\ pc'[r] = step /\ \A q \in Runs \ {r} : pc'[q] = pc[q]
    BY <2>1 DEF IInv, TypeOK, Steps
  <2>3. staging' \in [Runs -> Option(Trees)]
        /\ \A q \in Runs \ {r} : staging'[q] = staging[q]
    BY <2>1 DEF IInv, TypeOK, Option
  <2>4. DestinationWhole' /\ dest' \in Option(Trees)
    BY <2>1, TreeTypes DEF DestinationWhole, Complete, Option
  <2>5. TypeOK'
    BY <2>1, <2>2, <2>3, <2>4 DEF IInv, TypeOK
  <2>6. Holds(r)'
    BY <2>1, <2>2 DEF IInv, Holds, Late
  <2>7. QED
    BY <2>1, <2>2, <2>3, <2>4, <2>5, <2>6, OwnStepKeeps DEF OwnStep
<1>2. CASE ~CanReplace(staging[r])
  <2>1. Fails(r) /\ UNCHANGED <<dest, staging, backup, existed, old>> /\ faults' = faults
    BY <1>2 DEF RenameToDest
  <2>2. faults \in 0..MaxFaults
    BY DEF IInv, TypeOK
  <2>3. QED
    BY <2>1, <2>2, FailsKeeps
<1>3. QED
  BY <1>1, <1>2

-----------------------------------------------------------------------------
(* Every step preserves the invariant. *)

\* Every run starts with an empty staging directory.
LEMMA EmptyIsPartial == \A r \in Runs : EmptyDir \in Partial(r)
<1> SUFFICES ASSUME NEW r \in Runs PROVE EmptyDir \in Partial(r)
  OBVIOUS
<1>1. EmptyDir = [f \in {} |-> r]
  BY DEF EmptyDir
<1>2. {} \in SUBSET Entries(r)
  OBVIOUS
<1>3. QED
  BY <1>1, <1>2 DEF Partial

\* What the invariant says of each variable.
LEMMA Typed ==
    IInv => /\ existed \in [Runs -> BOOLEAN] /\ staging \in [Runs -> Option(Trees)]
            /\ backup \in [Runs -> Option(Trees)] /\ pc \in [Runs -> Steps]
            /\ dest \in Complete \cup {NONE} /\ faults \in 0..MaxFaults
            /\ result \in [Runs -> {"ok", "error", "interrupted", "torn"}]
            /\ \A r \in Runs : Holds(r)
BY DEF IInv, TypeOK, DestinationWhole

\* _write_recovered_outputs picks file or directory mode.
LEMMA ChooseModeKeeps == ASSUME IInv, NEW r \in Runs, ChooseMode(r) PROVE IInv'
<1>1. PICK step \in {"temp", "inspect"} : Go(r, step)
  BY DEF ChooseMode
<1>2. pc[r] \notin Late /\ step \in Steps
  BY DEF ChooseMode, At, Late, Steps
<1>3. existed' \in [Runs -> BOOLEAN]
  BY Typed DEF ChooseMode
<1>4. QED
  BY <1>1, <1>2, <1>3, MoveOnKeeps DEF ChooseMode

\* _write_recovered_directory_outputs looks at the destination.
LEMMA InspectDestinationKeeps ==
    ASSUME IInv, NEW r \in Runs, InspectDestination(r) PROVE IInv'
<1>1. pc[r] \notin Late /\ "stage" \in Steps
  BY DEF InspectDestination, At, Late, Steps
<1>2. CASE IsFile(dest)
  <2>1. Fails(r) /\ faults' = faults /\ UNCHANGED <<dest, staging, backup, existed, old>>
    BY <1>2 DEF InspectDestination
  <2>2. QED
    BY <2>1, Typed, FailsKeeps
<1>3. CASE ~IsFile(dest)
  <2>1. existed' = [existed EXCEPT ![r] = dest # NONE]
    BY <1>3 DEF InspectDestination
  <2>2. existed' \in [Runs -> BOOLEAN]
    BY <2>1, Typed
  <2>3. Go(r, "stage") /\ UNCHANGED <<dest, staging, backup, result, faults, old>>
    BY <1>3 DEF InspectDestination
  <2>4. QED
    BY <1>1, <2>2, <2>3, MoveOnKeeps
<1>4. QED
  BY <1>2, <1>3

\* The staging directory is made.
LEMMA StageDirectoryKeeps ==
    ASSUME IInv, NEW r \in Runs, StageDirectory(r) PROVE IInv'
<1>1. pc[r] \notin Late /\ "validate" \in Steps /\ EmptyDir \in Option(Trees)
  BY TreeTypes DEF StageDirectory, At, Late, Steps, Option
<1>2. QED
  BY <1>1, EmptyIsPartial, StagingKeeps DEF StageDirectory, MakeStaging, Go

\* _validate_recovered_output_paths.
LEMMA ValidatePathsKeeps ==
    ASSUME IInv, NEW r \in Runs, ValidatePaths(r) PROVE IInv'
<1>1. pc[r] = "validate" /\ pc[r] \notin Late /\ "fill" \in Steps
  BY DEF ValidatePaths, At, Late, Steps
<1>2. staging[r] \in Partial(r)
  BY <1>1, Typed DEF Holds
<1>3. CASE Go(r, "fill") /\ UNCHANGED result
  <2>1. UNCHANGED <<dest, staging, backup, result, faults, old>>
        /\ existed' \in [Runs -> BOOLEAN]
    BY <1>3, Typed DEF ValidatePaths
  <2>2. QED
    BY <1>1, <1>2, <1>3, <2>1, MoveOnKeeps
<1>4. CASE Fails(r)
  BY <1>4, Typed, FailsKeeps DEF ValidatePaths
<1>5. QED
  BY <1>3, <1>4 DEF ValidatePaths

\* Writing one entry, of a recovered tree or of a rendered one.
LEMMA StageKeeps ==
    ASSUME IInv, NEW r \in Runs, pc[r] \in {"fill", "render"},
           NEW f \in Entries(r) \ DOMAIN staging[r], Stage(r, f),
           NEW step \in {"install", "aside", "commit"},
           pc' = [pc EXCEPT ![r] = IF Entries(r) \subseteq DOMAIN staging[r] \cup {f}
                                   THEN step ELSE pc[r]],
           UNCHANGED <<dest, backup, existed, result, faults, old>>
    PROVE  IInv'
<1> DEFINE t == [g \in DOMAIN staging[r] \cup {f} |-> IF g = f THEN r ELSE staging[r][g]]
           next == IF Entries(r) \subseteq DOMAIN staging[r] \cup {f} THEN step ELSE pc[r]
<1>1. staging[r] \in Partial(r)
  BY Typed DEF Holds
<1>2. t \in Partial(r) /\ (Entries(r) \subseteq DOMAIN staging[r] \cup {f} => t = Tree(r))
  BY <1>1, StagePartial
<1>3. t \in Option(Trees)
  BY <1>2, TreeTypes DEF Option
<1>4. staging' = [staging EXCEPT ![r] = t]
  BY Typed DEF Stage
<1>5. next \in Steps /\ next \notin {"promote", "restore", "move", "validate", "setup"}
      /\ pc[r] \notin Late
  BY DEF Steps, Late
<1>6. (next \in {"install", "aside", "commit"} => t = Tree(r))
  BY <1>2
<1>7. pc' = [pc EXCEPT ![r] = next]
  OBVIOUS
<1> HIDE DEF t, next
<1>8. QED
  BY <1>2, <1>3, <1>4, <1>5, <1>6, <1>7, StagingKeeps

\* One recovered entry is written.
LEMMA WriteEntryKeeps == ASSUME IInv, NEW r \in Runs, WriteEntry(r) PROVE IInv'
<1>1. PICK f \in Entries(r) \ DOMAIN staging[r] :
         /\ Stage(r, f)
         /\ IF Entries(r) \subseteq DOMAIN staging[r] \cup {f}
            THEN Go(r, IF existed[r] THEN "aside" ELSE "install") ELSE UNCHANGED pc
  BY DEF WriteEntry
<1> DEFINE step == IF existed[r] THEN "aside" ELSE "install"
<1>2. step \in {"install", "aside", "commit"}
  OBVIOUS
<1>3. pc' = [pc EXCEPT ![r] = IF Entries(r) \subseteq DOMAIN staging[r] \cup {f}
                              THEN step ELSE pc[r]]
  BY <1>1, Typed DEF Go
<1>4. pc[r] \in {"fill", "render"} /\ UNCHANGED <<dest, backup, existed, result, faults, old>>
  BY DEF WriteEntry, At
<1> HIDE DEF step
<1>5. QED
  BY <1>1, <1>2, <1>3, <1>4, StageKeeps

\* One document is rendered.
LEMMA RenderDocumentKeeps == ASSUME IInv, NEW r \in Runs, RenderDocument(r) PROVE IInv'
<1>1. PICK f \in Entries(r) \ DOMAIN staging[r] :
         /\ Stage(r, f)
         /\ IF Entries(r) \subseteq DOMAIN staging[r] \cup {f}
            THEN Go(r, "commit") ELSE UNCHANGED pc
  BY DEF RenderDocument
<1>2. pc' = [pc EXCEPT ![r] = IF Entries(r) \subseteq DOMAIN staging[r] \cup {f}
                              THEN "commit" ELSE pc[r]]
  BY <1>1, Typed DEF Go
<1>3. pc[r] \in {"fill", "render"} /\ UNCHANGED <<dest, backup, existed, result, faults, old>>
  BY DEF RenderDocument, At
<1>4. QED
  BY <1>1, <1>2, <1>3, StageKeeps

\* The four renames onto the destination.
LEMMA RenamesKeep ==
    ASSUME IInv, NEW r \in Runs,
           InstallFresh(r) \/ Promote(r) \/ MoveTemp(r) \/ CommitPrepared(r)
    PROVE  IInv'
<1>1. Tree(r) \in Complete /\ File(r) \in Complete
  BY DEF Complete
<1>2. CASE InstallFresh(r)
  BY <1>1, <1>2, Typed, RenameKeeps DEF InstallFresh, At, Holds
<1>3. CASE Promote(r)
  BY <1>1, <1>3, Typed, RenameKeeps DEF Promote, At, Holds
<1>4. CASE MoveTemp(r)
  <2>1. pc[r] \notin Late
    BY <1>4 DEF MoveTemp, At, Late
  <2>2. QED
    BY <1>1, <1>4, <2>1, Typed, RenameKeeps DEF MoveTemp, At, Holds
<1>5. CASE CommitPrepared(r)
  BY <1>1, <1>5, Typed, RenameKeeps DEF CommitPrepared, At, Holds
<1>6. QED
  BY <1>2, <1>3, <1>4, <1>5

\* The old directory is set aside.
LEMMA SetAsideKeeps == ASSUME IInv, NEW r \in Runs, SetAside(r) PROVE IInv'
<1>1. pc[r] = "aside"
  BY DEF SetAside, At
<1>2. CASE dest = NONE
  <2>1. Fails(r) /\ faults' = faults /\ UNCHANGED <<dest, staging, backup, existed, old>>
    BY <1>2 DEF SetAside
  <2>2. QED
    BY <2>1, Typed, FailsKeeps
<1>3. CASE dest # NONE
  <2>1. /\ backup' = [backup EXCEPT ![r] = dest] /\ dest' = NONE
        /\ pc' = [pc EXCEPT ![r] = "promote"]
        /\ UNCHANGED <<staging, existed, result, faults, old>>
    BY <1>3 DEF SetAside, Go
  <2>2. dest \in Complete /\ dest \in Option(Trees)
    BY <1>3, Typed, TreeTypes DEF Option
  <2>3. pc' \in [Runs -> Steps] /\ pc'[r] = "promote" /\ \A q \in Runs \ {r} : pc'[q] = pc[q]
    BY <2>1, Typed DEF Steps
  <2>4. backup' \in [Runs -> Option(Trees)] /\ backup'[r] = dest
        /\ \A q \in Runs \ {r} : backup'[q] = backup[q]
    BY <2>1, <2>2, Typed
  <2>5. TypeOK' /\ DestinationWhole'
    BY <2>1, <2>3, <2>4 DEF IInv, TypeOK, DestinationWhole, Option
  <2>6. staging[r] = Tree(r)
    BY <1>1, Typed DEF Holds
  <2>7. Holds(r)'
    BY <2>1, <2>2, <2>3, <2>4, <2>6 DEF Holds, Late
  <2>8. QED
    BY <2>1, <2>3, <2>4, <2>5, <2>7, OwnStepKeeps DEF OwnStep
<1>4. QED
  BY <1>2, <1>3

\* The rollback.
LEMMA RestoreKeeps == ASSUME IInv, NEW r \in Runs, Restore(r) PROVE IInv'
<1>1. pc[r] = "restore" /\ backup[r] \in Complete
  BY Typed DEF Restore, At, Holds
<1>2. pc' = [pc EXCEPT ![r] = "drop"] /\ UNCHANGED <<staging, existed, result, faults, old>>
  BY DEF Restore, Go
<1>3. pc' \in [Runs -> Steps] /\ pc'[r] = "drop" /\ \A q \in Runs \ {r} : pc'[q] = pc[q]
  BY <1>2, Typed DEF Steps
<1>4. /\ dest' \in Complete \cup {NONE} /\ backup' \in [Runs -> Option(Trees)]
      /\ \A q \in Runs \ {r} : backup'[q] = backup[q]
  <2>1. CASE dest = NONE
    <3>1. dest' = backup[r] /\ backup' = [backup EXCEPT ![r] = NONE]
      BY <2>1 DEF Restore
    <3>2. QED
      BY <1>1, <3>1, Typed DEF Option
  <2>2. CASE dest # NONE
    BY <2>2, Typed DEF Restore
  <2>3. QED
    BY <2>1, <2>2
<1>5. TypeOK' /\ DestinationWhole'
  BY <1>2, <1>3, <1>4, TreeTypes DEF IInv, TypeOK, DestinationWhole, Option
<1>6. Holds(r)'
  BY <1>3 DEF Holds, Late
<1>7. QED
  BY <1>2, <1>3, <1>4, <1>5, <1>6, OwnStepKeeps DEF OwnStep

\* rmtree of what was set aside.
LEMMA DropBackupKeeps == ASSUME IInv, NEW r \in Runs, DropBackup(r) PROVE IInv'
<1>1. pc[r] = "drop" /\ UNCHANGED <<dest, staging, existed, result, faults, old>>
  BY DEF DropBackup, At
<1>2. CASE backup[r] = NONE \/ IsFile(backup[r])
  <2>1. PICK step \in {"report", "cleanup"} : Go(r, step)
    BY <1>2 DEF DropBackup
  <2>2. UNCHANGED <<staging, backup, dest, existed, result, faults, old>>
    BY <1>1, <1>2 DEF DropBackup
  <2>3. step \in Late /\ step \in Steps
    BY DEF Late, Steps
  <2>4. existed' \in [Runs -> BOOLEAN]
    BY <2>2, Typed
  <2>5. QED
    BY <2>1, <2>2, <2>3, <2>4, MoveOnKeeps
<1>3. CASE ~(backup[r] = NONE \/ IsFile(backup[r]))
  <2>1. PICK t \in Emptied(backup, r) : backup' = [backup EXCEPT ![r] = t]
    BY <1>3 DEF DropBackup
  <2>2. pc' = pc
    BY <1>3 DEF DropBackup
  <2>3. t \in Option(Trees)
    BY <1>3, <2>1, Typed, EmptiedType
  <2>4. backup' \in [Runs -> Option(Trees)] /\ \A q \in Runs \ {r} : backup'[q] = backup[q]
    BY <2>1, <2>3, Typed
  <2>5. TypeOK' /\ DestinationWhole'
    BY <1>1, <2>2, <2>4 DEF IInv, TypeOK, DestinationWhole
  <2>6. Holds(r)'
    BY <1>1, <2>2 DEF Holds, Late
  <2>7. QED
    BY <1>1, <2>2, <2>4, <2>5, <2>6, OwnStepKeeps DEF OwnStep
<1>4. QED
  BY <1>2, <1>3

\* Emitting events, and a file's or a prepared run's steps that only move on.
LEMMA MovesOnKeep ==
    ASSUME IInv, NEW r \in Runs, Report(r) \/ TellFile(r) \/ SetUp(r)
    PROVE  IInv'
<1>1. UNCHANGED <<dest, staging, backup, existed, result, faults, old>>
  BY DEF Report, TellFile, SetUp
<1>2. existed' \in [Runs -> BOOLEAN]
  BY <1>1, Typed
<1>3. {"cleanup", "ended"} \subseteq Late /\ {"cleanup", "ended", "render"} \subseteq Steps
  BY DEF Late, Steps
<1>4. CASE Report(r)
  BY <1>1, <1>2, <1>3, <1>4, MoveOnKeeps DEF Report
<1>5. CASE TellFile(r)
  BY <1>1, <1>2, <1>3, <1>5, MoveOnKeeps DEF TellFile
<1>6. CASE SetUp(r)
  <2>1. staging[r] \in Partial(r) /\ pc[r] \notin Late
    BY <1>6, Typed DEF SetUp, At, Holds, Late
  <2>2. QED
    BY <1>1, <1>2, <1>3, <1>6, <2>1, MoveOnKeeps DEF SetUp
<1>7. QED
  BY <1>4, <1>5, <1>6

\* rmtree or unlink of what was staged.
LEMMA CleanupKeeps == ASSUME IInv, NEW r \in Runs, Cleanup(r) PROVE IInv'
<1>1. pc[r] \in {"cleanup", "discard", "unlink"}
      /\ UNCHANGED <<dest, backup, existed, result, faults, old>>
  BY DEF Cleanup
<1>2. CASE staging[r] = NONE
  <2>1. Go(r, "ended") /\ UNCHANGED staging
    BY <1>2 DEF Cleanup
  <2>2. "ended" \in Late /\ "ended" \in Steps
    BY DEF Late, Steps
  <2>3. existed' \in [Runs -> BOOLEAN]
    BY <1>1, Typed
  <2>4. QED
    BY <1>1, <2>1, <2>2, <2>3, MoveOnKeeps
<1>3. CASE staging[r] # NONE
  <2>1. PICK t \in Emptied(staging, r) : staging' = [staging EXCEPT ![r] = t]
    BY <1>3 DEF Cleanup
  <2>2. pc' = pc
    BY <1>3 DEF Cleanup
  <2>3. t \in Option(Trees)
    BY <1>3, <2>1, Typed, EmptiedType
  <2>4. staging' \in [Runs -> Option(Trees)] /\ \A q \in Runs \ {r} : staging'[q] = staging[q]
    BY <2>1, <2>3, Typed
  <2>5. TypeOK' /\ DestinationWhole'
    BY <1>1, <2>2, <2>4 DEF IInv, TypeOK, DestinationWhole
  <2>6. Holds(r)
    BY Typed
  <2>7. Holds(r)'
    BY <1>1, <2>2, <2>6 DEF Holds, Late
  <2>8. QED
    BY <1>1, <2>2, <2>4, <2>5, <2>7, OwnStepKeeps DEF OwnStep
<1>4. QED
  BY <1>2, <1>3

\* The temporary file, and its data.
LEMMA TempsKeep ==
    ASSUME IInv, NEW r \in Runs, MakeTemp(r) \/ SaveTemp(r) PROVE IInv'
<1>1. UNCHANGED <<dest, backup, existed, result, faults, old>>
  BY DEF MakeTemp, SaveTemp
<1>2. pc[r] \notin Late /\ {"save", "move"} \subseteq Steps
  BY DEF MakeTemp, SaveTemp, At, Late, Steps
<1>3. CASE MakeTemp(r)
  <2>1. [f \in {"."} |-> "partial"] \in Option(Trees)
    BY TreeTypes DEF Option
  <2>2. QED
    BY <1>1, <1>2, <1>3, <2>1, StagingKeeps DEF MakeTemp, MakeStaging, Go
<1>4. CASE SaveTemp(r)
  <2>1. File(r) \in Option(Trees)
    BY TreeTypes DEF Option
  <2>2. QED
    BY <1>1, <1>2, <1>4, <2>1, StagingKeeps DEF SaveTemp, MakeStaging, Go
<1>5. QED
  BY <1>3, <1>4

\* _prepare_output_dir
LEMMA PrepareOutputDirKeeps ==
    ASSUME IInv, NEW r \in Runs, PrepareOutputDir(r) PROVE IInv'
<1>1. pc[r] \notin Late /\ "setup" \in Steps /\ EmptyDir \in Option(Trees)
  BY TreeTypes DEF PrepareOutputDir, At, Late, Steps, Option
<1>2. UNCHANGED <<dest, backup, existed, faults, old>>
  BY DEF PrepareOutputDir
<1>3. CASE dest # NONE
  BY <1>2, <1>3, Typed, FailsKeeps DEF PrepareOutputDir
<1>4. CASE dest = NONE
  BY <1>1, <1>2, <1>4, EmptyIsPartial, StagingKeeps DEF PrepareOutputDir, MakeStaging, Go
<1>5. QED
  BY <1>3, <1>4

\* The initial states satisfy the invariant.
LEMMA InitKeeps == Init => IInv
<1> SUFFICES ASSUME Init PROVE IInv
  OBVIOUS
<1>1. dest \in Complete \cup {NONE}
  BY DEF Init, Complete
<1>2. TypeOK
  <2>1. {"ended", "choose", "prepare"} \subseteq Steps
    BY DEF Steps
  <2>2. dest \in Option(Trees)
    BY <1>1, TreeTypes DEF Option
  <2>3. pc \in [Runs -> Steps]
    BY <2>1 DEF Init
  <2>4. faults \in 0..MaxFaults
    BY OutputConstants DEF Init
  <2>5. QED
    BY <2>2, <2>3, <2>4 DEF Init, TypeOK, Option
<1>3. ASSUME NEW r \in Runs PROVE Holds(r)
  BY DEF Init, Holds, Late
<1>4. QED
  BY <1>1, <1>2, <1>3 DEF IInv, DestinationWhole

\* Every step, and every stutter, preserves the invariant.
LEMMA NextKeeps == IInv /\ [Next]_vars => IInv'
<1> SUFFICES ASSUME IInv, [Next]_vars PROVE IInv'
  OBVIOUS
<1>1. CASE UNCHANGED vars
  <2>1. TypeOK' /\ DestinationWhole' /\ \A r \in Runs : Holds(r)'
    BY <1>1 DEF IInv, TypeOK, DestinationWhole, Holds, vars
  <2>2. QED
    BY <2>1 DEF IInv
<1>2. ASSUME NEW r \in Runs, Step(r) PROVE IInv'
  BY <1>2, ChooseModeKeeps, InspectDestinationKeeps, StageDirectoryKeeps, ValidatePathsKeeps,
     WriteEntryKeeps, RenamesKeep, SetAsideKeeps, RestoreKeeps, DropBackupKeeps, MovesOnKeep,
     CleanupKeeps, TempsKeep, PrepareOutputDirKeeps, RenderDocumentKeeps DEF Step
<1>3. ASSUME NEW r \in Runs, Fault(r) \/ Interrupt(r) \/ Crash(r) PROVE IInv'
  BY <1>3, FaultKeeps, InterruptKeeps, CrashKeeps
<1>4. QED
  BY <1>1, <1>2, <1>3 DEF Next

-----------------------------------------------------------------------------

\* The invariant is inductive.
THEOREM Invariance == Spec => []IInv
BY InitKeeps, NextKeeps, PTL DEF Spec

\* Every variable keeps its type, for any number of runs, failures and interrupts.
THEOREM TypeCorrect == Spec => []TypeOK
<1>1. IInv => TypeOK
  BY DEF IInv
<1>2. QED
  BY <1>1, Invariance, PTL

\* Whoever looks at the destination finds a complete output of one run, what was there
\* before, or nothing: the renames of outputs.py never show a half-written tree.
THEOREM DestinationAlwaysWhole == Spec => []DestinationWhole
<1>1. IInv => DestinationWhole
  BY DEF IInv
<1>2. QED
  BY <1>1, Invariance, PTL

\* What a run's own step does to the destination: it leaves it, sets it aside, or puts
\* something where there was nothing or where rename(2) may replace what there was.
LEMMA StepOnDest ==
    ASSUME NEW r \in Runs, Step(r)
    PROVE  dest' = dest \/ dest' = NONE \/ dest = NONE \/ CanReplace(dest')
<1>1. ASSUME NEW step, RenameToDest(r, step) PROVE dest' = dest \/ CanReplace(dest')
  BY <1>1 DEF RenameToDest, CanReplace
<1>2. CASE InstallFresh(r) \/ Promote(r) \/ MoveTemp(r) \/ CommitPrepared(r)
  BY <1>1, <1>2 DEF InstallFresh, Promote, MoveTemp, CommitPrepared
<1>3. CASE SetAside(r) \/ Restore(r)
  BY <1>3 DEF SetAside, Restore
<1>4. CASE \/ ChooseMode(r) \/ InspectDestination(r) \/ StageDirectory(r) \/ ValidatePaths(r)
           \/ WriteEntry(r) \/ DropBackup(r) \/ Report(r) \/ Cleanup(r)
  BY <1>4 DEF ChooseMode, InspectDestination, StageDirectory, ValidatePaths, WriteEntry,
     DropBackup, Report, Cleanup
<1>5. CASE \/ MakeTemp(r) \/ SaveTemp(r) \/ TellFile(r)
           \/ PrepareOutputDir(r) \/ SetUp(r) \/ RenderDocument(r)
  BY <1>5 DEF MakeTemp, SaveTemp, TellFile, PrepareOutputDir, SetUp, RenderDocument
<1>6. QED
  BY <1>2, <1>3, <1>4, <1>5 DEF Step

\* backup and mint never replace anything: whatever other runs do between the look at the
\* destination and the rename (_prepare_output_dir, _commit_prepared_output_dir), a run's
\* documents only ever appear where nothing or an empty directory was.
THEOREM PreparedNeverReplaces == Spec => PreparedReplacesNothing
<1> DEFINE A == \A r \in Runs : (At(r, "commit") /\ dest' # dest /\ dest' = Tree(r))
                                 => dest \in {NONE, EmptyDir}
<1>1. ASSUME Next, NEW r \in Runs, dest' # dest, dest' = Tree(r)
      PROVE  dest \in {NONE, EmptyDir}
  <2>1. PICK q \in Runs : Step(q) \/ Fault(q) \/ Interrupt(q) \/ Crash(q)
    BY <1>1 DEF Next
  <2>2. Step(q)
    BY <1>1, <2>1 DEF Fault, Interrupt, Crash
  <2>3. dest' # NONE
    BY <1>1, TreeTypes
  <2>4. ~IsFile(dest')
    BY <1>1, OutputConstants DEF IsFile, Tree
  <2>5. QED
    BY <1>1, <2>2, <2>3, <2>4, StepOnDest DEF CanReplace
<1>2. [Next]_vars => [A]_vars
  BY <1>1
<1>3. QED
  BY <1>2, PTL DEF Spec, PreparedReplacesNothing

-----------------------------------------------------------------------------
(* The detailed specification implements AtomicDestination. *)

\* A run whose set-aside directory will not be deleted as long as nothing is Broken.
Holder(q) ==
    /\ \/ pc[q] \in {"promote", "crashed"}
       \/ pc[q] = "restore" /\ faults = 1
    /\ backup[q] \in Complete

\* Nothing is at the destination only while some run holds what was there.
Held ==
    (~Broken /\ dest = NONE /\ \E q \in Runs : backup[q] # NONE) => \E q \in Runs : Holder(q)

\* What a run's own step does to the destination and to what is set aside: it puts
\* something in place, or sets what is there aside, or only deletes.
StepShape(r) ==
    /\ faults' = faults
    /\ \A q \in Runs : result'[q] = "torn" <=> result[q] = "torn"
    /\ \A q \in Runs \ {r} : pc'[q] = pc[q] /\ backup'[q] = backup[q]
    /\ \/ dest' # NONE
       \/ dest # NONE /\ pc'[r] = "promote" /\ backup'[r] = dest
       \/ /\ dest' = dest /\ pc[r] \notin {"promote", "restore", "crashed"}
          /\ backup[r] = NONE => backup'[r] = NONE

\* Refusing marks a run as failed and never as torn.
LEMMA FailsShape ==
    ASSUME IInv, NEW r \in Runs, Fails(r), UNCHANGED <<dest, backup, faults>>,
           dest # NONE \/ pc[r] \notin {"promote", "restore", "crashed"}
    PROVE  StepShape(r)
<1>1. \A q \in Runs \ {r} : pc'[q] = pc[q]
  BY Typed DEF Fails, Go
<1>2. \A q \in Runs : result'[q] = "torn" <=> result[q] = "torn"
  BY Typed DEF Fails
<1>3. QED
  BY <1>1, <1>2, Typed DEF StepShape

\* Moving on, or staging, touches neither the destination nor what is set aside.
LEMMA QuietShape ==
    ASSUME IInv, NEW r \in Runs, NEW step, pc' = [pc EXCEPT ![r] = step],
           pc[r] \notin {"promote", "restore", "crashed"},
           UNCHANGED <<dest, backup, result, faults>>
    PROVE  StepShape(r)
BY Typed DEF StepShape

\* Renaming onto the destination fills it, or is refused.
LEMMA RenameShape ==
    ASSUME IInv, NEW r \in Runs, NEW step, staging[r] \in Complete, RenameToDest(r, step),
           pc[r] \notin {"restore", "crashed"}
    PROVE  StepShape(r)
<1>1. CASE CanReplace(staging[r])
  <2>1. dest' = staging[r] /\ pc' = [pc EXCEPT ![r] = step]
        /\ UNCHANGED <<backup, result, faults>>
    BY <1>1 DEF RenameToDest, Go
  <2>2. dest' # NONE
    BY <2>1, TreeTypes
  <2>3. QED
    BY <2>1, <2>2, Typed DEF StepShape
<1>2. CASE ~CanReplace(staging[r])
  <2>1. Fails(r) /\ UNCHANGED <<dest, backup, faults>>
    BY <1>2 DEF RenameToDest
  <2>2. dest # NONE
    BY <1>2 DEF CanReplace
  <2>3. QED
    BY <2>1, <2>2, FailsShape
<1>3. QED
  BY <1>1, <1>2

\* Every step of a run has that shape.
LEMMA StepHasShape == ASSUME IInv, NEW r \in Runs, Step(r) PROVE StepShape(r)
<1>1. CASE ChooseMode(r)
  <2>1. PICK step : Go(r, step)
    BY <1>1 DEF ChooseMode
  <2>2. QED
    BY <1>1, <2>1, QuietShape DEF ChooseMode, At, Go
<1>2. CASE InspectDestination(r)
  <2>1. CASE IsFile(dest)
    BY <1>2, <2>1, FailsShape DEF InspectDestination, IsFile
  <2>2. CASE ~IsFile(dest)
    BY <1>2, <2>2, QuietShape DEF InspectDestination, At, Go
  <2>3. QED
    BY <2>1, <2>2
<1>3. CASE StageDirectory(r)
  BY <1>3, QuietShape DEF StageDirectory, At, Go
<1>4. CASE ValidatePaths(r)
  <2>1. CASE Fails(r)
    BY <1>4, <2>1, FailsShape DEF ValidatePaths, At
  <2>2. CASE Go(r, "fill") /\ UNCHANGED result
    BY <1>4, <2>2, QuietShape DEF ValidatePaths, At, Go
  <2>3. QED
    BY <1>4, <2>1, <2>2 DEF ValidatePaths
<1>5. CASE WriteEntry(r)
  <2>1. pc[r] = "fill" /\ UNCHANGED <<dest, backup, result, faults>>
    BY <1>5 DEF WriteEntry, At
  <2>2. PICK step : pc' = [pc EXCEPT ![r] = step]
    <3>1. \/ Go(r, IF existed[r] THEN "aside" ELSE "install")
          \/ pc' = [pc EXCEPT ![r] = pc[r]]
      BY <1>5, Typed DEF WriteEntry
    <3>2. QED
      BY <3>1 DEF Go
  <2>3. QED
    BY <2>1, <2>2, QuietShape
<1>6. CASE InstallFresh(r) \/ Promote(r) \/ MoveTemp(r) \/ CommitPrepared(r)
  <2>1. Tree(r) \in Complete /\ File(r) \in Complete
    BY DEF Complete
  <2>2. pc[r] \in {"install", "promote", "move", "commit"}
    BY <1>6 DEF InstallFresh, Promote, MoveTemp, CommitPrepared, At
  <2>3. staging[r] \in Complete
    BY <2>1, <2>2, Typed DEF Holds
  <2>4. PICK step : RenameToDest(r, step)
    BY <1>6 DEF InstallFresh, Promote, MoveTemp, CommitPrepared
  <2>5. pc[r] \notin {"restore", "crashed"}
    BY <2>2
  <2>6. QED
    BY <2>3, <2>4, <2>5, RenameShape
<1>7. CASE SetAside(r)
  <2>1. CASE dest = NONE
    BY <1>7, <2>1, FailsShape DEF SetAside, At
  <2>2. CASE dest # NONE
    BY <1>7, <2>2, Typed DEF SetAside, At, Go, StepShape
  <2>3. QED
    BY <2>1, <2>2
<1>8. CASE Restore(r)
  <2>1. pc' = [pc EXCEPT ![r] = "drop"] /\ UNCHANGED <<result, faults>>
    BY <1>8 DEF Restore, Go
  <2>2. backup[r] # NONE
    BY <1>8, Typed, TreeTypes DEF Restore, At, Holds
  <2>3. dest' # NONE /\ \A q \in Runs \ {r} : backup'[q] = backup[q]
    BY <1>8, <2>2, Typed DEF Restore
  <2>4. QED
    BY <2>1, <2>3, Typed DEF StepShape
<1>9. CASE DropBackup(r)
  <2>1. pc[r] = "drop" /\ UNCHANGED <<dest, result, faults>>
    BY <1>9 DEF DropBackup, At
  <2>2. \A q \in Runs \ {r} : pc'[q] = pc[q] /\ backup'[q] = backup[q]
    BY <1>9, Typed DEF DropBackup, Go
  <2>3. backup[r] = NONE => backup'[r] = NONE
    BY <1>9 DEF DropBackup
  <2>4. QED
    BY <2>1, <2>2, <2>3, Typed DEF StepShape
<1>10. CASE Report(r) \/ TellFile(r) \/ SetUp(r)
  <2>1. pc[r] \in {"report", "tell", "setup"} /\ UNCHANGED <<dest, backup, result, faults>>
    BY <1>10 DEF Report, TellFile, SetUp, At
  <2>2. PICK step : pc' = [pc EXCEPT ![r] = step]
    BY <1>10 DEF Report, TellFile, SetUp, Go
  <2>3. QED
    BY <2>1, <2>2, QuietShape
<1>11. CASE Cleanup(r)
  <2>1. pc[r] \in {"cleanup", "discard", "unlink"} /\ UNCHANGED <<dest, backup, result, faults>>
    BY <1>11 DEF Cleanup
  <2>2. PICK step : pc' = [pc EXCEPT ![r] = step]
    <3>1. Go(r, "ended") \/ pc' = [pc EXCEPT ![r] = pc[r]]
      BY <1>11, Typed DEF Cleanup
    <3>2. QED
      BY <3>1 DEF Go
  <2>3. QED
    BY <2>1, <2>2, QuietShape
<1>12. CASE MakeTemp(r) \/ SaveTemp(r)
  <2>1. pc[r] \in {"temp", "save"} /\ UNCHANGED <<dest, backup, result, faults>>
    BY <1>12 DEF MakeTemp, SaveTemp, At
  <2>2. PICK step : pc' = [pc EXCEPT ![r] = step]
    BY <1>12 DEF MakeTemp, SaveTemp, Go
  <2>3. QED
    BY <2>1, <2>2, QuietShape
<1>13. CASE PrepareOutputDir(r)
  <2>1. CASE dest # NONE
    BY <1>13, <2>1, FailsShape DEF PrepareOutputDir
  <2>2. CASE dest = NONE
    BY <1>13, <2>2, QuietShape DEF PrepareOutputDir, At, Go
  <2>3. QED
    BY <2>1, <2>2
<1>14. CASE RenderDocument(r)
  <2>1. pc[r] = "render" /\ UNCHANGED <<dest, backup, result, faults>>
    BY <1>14 DEF RenderDocument, At
  <2>2. PICK step : pc' = [pc EXCEPT ![r] = step]
    <3>1. Go(r, "commit") \/ pc' = [pc EXCEPT ![r] = pc[r]]
      BY <1>14, Typed DEF RenderDocument
    <3>2. QED
      BY <3>1 DEF Go
  <2>3. QED
    BY <2>1, <2>2, QuietShape
<1>15. QED
  BY <1>1, <1>2, <1>3, <1>4, <1>5, <1>6, <1>7, <1>8, <1>9, <1>10, <1>11, <1>12, <1>13, <1>14
     DEF Step

\* The promise is never taken up again, and a run's own step does not end it.
LEMMA BrokenStays ==
    ASSUME IInv, [Next]_vars PROVE Broken => Broken'
<1>1. CASE UNCHANGED vars
  BY <1>1 DEF vars, Broken
<1>2. ASSUME NEW r \in Runs, Step(r) PROVE Broken' <=> Broken
  BY <1>2, StepHasShape DEF StepShape, Broken
<1>3. ASSUME NEW r \in Runs, Fault(r) PROVE Broken => Broken'
  <2>1. faults' = faults + 1 /\ faults \in Nat
    BY <1>3, Typed, OutputConstants DEF Fault
  <2>2. \A q \in Runs : result[q] = "torn" => result'[q] = "torn"
    BY <1>3, Typed DEF Fault, Fails
  <2>3. QED
    BY <2>1, <2>2 DEF Broken
<1>4. ASSUME NEW r \in Runs, Interrupt(r) PROVE Broken => Broken'
  <2>1. \A q \in Runs : result[q] = "torn" => result'[q] = "torn"
    BY <1>4, Typed DEF Interrupt
  <2>2. QED
    BY <1>4, <2>1 DEF Broken, Interrupt
<1>5. ASSUME NEW r \in Runs, Crash(r) PROVE Broken => Broken'
  BY <1>5 DEF Crash, Broken
<1>6. QED
  BY <1>1, <1>2, <1>3, <1>4, <1>5 DEF Next

\* A run's own step keeps what was at the destination held.
LEMMA StepKeepsHeld ==
    ASSUME IInv, IInv', Held, NEW r \in Runs, StepShape(r) PROVE Held'
<1> SUFFICES ASSUME ~Broken', dest' = NONE, NEW p \in Runs, backup'[p] # NONE
             PROVE  \E q \in Runs : Holder(q)'
  BY DEF Held
<1>1. ~Broken /\ faults' = faults
  BY DEF StepShape, Broken
<1>2. CASE dest # NONE /\ pc'[r] = "promote" /\ backup'[r] = dest
  BY <1>2, Typed DEF Holder
<1>3. CASE /\ dest' = dest /\ pc[r] \notin {"promote", "restore", "crashed"}
           /\ backup[r] = NONE => backup'[r] = NONE
  <2>1. backup[p] # NONE
    BY <1>3 DEF StepShape
  <2>2. PICK q \in Runs : Holder(q)
    BY <1>1, <1>3, <2>1 DEF Held
  <2>3. q # r
    BY <1>3, <2>2 DEF Holder
  <2>4. pc'[q] = pc[q] /\ backup'[q] = backup[q]
    BY <2>3 DEF StepShape
  <2>5. Complete' = Complete
    BY DEF Complete
  <2>6. QED
    BY <1>1, <2>2, <2>4, <2>5 DEF Holder
<1>4. QED
  BY <1>2, <1>3 DEF StepShape

\* A failure, an interrupt or a crash that does not end the promise leaves it held.
LEMMA EventKeepsHeld ==
    ASSUME IInv, IInv', Held, NEW r \in Runs, Fault(r) \/ Interrupt(r) \/ Crash(r),
           Broken => Broken'
    PROVE  Held'
<1> SUFFICES ASSUME ~Broken', dest' = NONE, NEW p \in Runs, backup'[p] # NONE
             PROVE  \E q \in Runs : Holder(q)'
  BY DEF Held
<1>1. UNCHANGED <<dest, backup>> /\ pc[r] # "crashed"
      /\ \A q \in Runs \ {r} : pc'[q] = pc[q]
  BY Typed DEF Fault, Fails, Interrupt, Crash, Go, Running
<1>2. PICK q \in Runs : Holder(q)
  BY <1>1 DEF Held
<1>3. CASE Fault(r)
  <2>1. faults \in Nat /\ faults' = faults + 1
    BY <1>3, Typed, OutputConstants DEF Fault
  <2>2. faults = 0 /\ faults' = 1
    BY <2>1 DEF Broken
  <2>3. pc[q] \in {"promote", "crashed"} /\ backup[q] \in Complete
    BY <1>2, <2>2 DEF Holder
  <2>4. CASE q = r
    <3>1. pc[r] = "promote"
      BY <1>1, <2>3, <2>4
    <3>2. Go(r, Follow(Unwind, "promote"))
      BY <1>3, <3>1 DEF Fault, Fails, At, Cleaning
    <3>3. Follow(Unwind, "promote") = "restore"
      BY DEF Follow, Unwind
    <3>4. pc'[r] = "restore"
      BY <3>2, <3>3, Typed DEF Go
    <3>5. QED
      BY <1>1, <2>2, <2>3, <2>4, <3>4 DEF Holder, Complete
  <2>5. CASE q # r
    BY <1>1, <2>3, <2>5 DEF Holder, Complete
  <2>6. QED
    BY <2>4, <2>5
<1>4. CASE Interrupt(r)
  <2>1. faults' = faults
    BY <1>4 DEF Interrupt
  <2>2. CASE q = r
    <3>1. pc[r] \in {"promote", "restore"}
      BY <1>1, <1>2, <2>2 DEF Holder
    <3>2. result'[r] = "torn"
      BY <1>4, <3>1, Typed DEF Interrupt
    <3>3. QED
      BY <3>2 DEF Broken
  <2>3. CASE q # r
    BY <1>1, <1>2, <2>1, <2>3 DEF Holder, Complete
  <2>4. QED
    BY <2>2, <2>3
<1>5. CASE Crash(r)
  <2>1. faults' = faults /\ pc'[r] = "crashed"
    BY <1>5, Typed DEF Crash, Go
  <2>2. QED
    BY <1>1, <1>2, <2>1 DEF Holder, Complete
<1>6. QED
  BY <1>3, <1>4, <1>5

\* Held is inductive beside the invariant.
LEMMA NextKeepsHeld == ASSUME IInv, IInv', Held, [Next]_vars PROVE Held'
<1>1. CASE UNCHANGED vars
  BY <1>1 DEF vars, Held, Holder, Broken, Complete
<1>2. ASSUME NEW r \in Runs, Step(r) PROVE Held'
  BY <1>2, StepHasShape, StepKeepsHeld
<1>3. ASSUME NEW r \in Runs, Fault(r) \/ Interrupt(r) \/ Crash(r) PROVE Held'
  BY <1>3, BrokenStays, EventKeepsHeld
<1>4. QED
  BY <1>1, <1>2, <1>3 DEF Next

RecoverableFacts ==
    /\ Recoverable \in Complete \cup {NONE}
    /\ Recoverable = NONE <=> dest = NONE /\ \A q \in Runs : backup[q] \notin Complete

\* What can be found is complete, and is nothing only if neither the destination nor a
\* set-aside directory has anything complete.
LEMMA RecoverableIs == IInv => RecoverableFacts
<1> SUFFICES ASSUME IInv PROVE RecoverableFacts
  OBVIOUS
<1>1. SetAsideTrees \subseteq Complete
  BY DEF SetAsideTrees
<1>2. CASE dest # NONE
  BY <1>2, Typed, TreeTypes DEF Recoverable, RecoverableFacts
<1>3. CASE dest = NONE /\ SetAsideTrees = {}
  BY <1>3 DEF Recoverable, SetAsideTrees, RecoverableFacts
<1>4. CASE dest = NONE /\ SetAsideTrees # {}
  <2>1. Recoverable = CHOOSE t \in SetAsideTrees : TRUE
    BY <1>4 DEF Recoverable
  <2>2. Recoverable \in SetAsideTrees
    BY <1>4, <2>1
  <2>3. \E q \in Runs : backup[q] \in Complete
    BY <1>4 DEF SetAsideTrees
  <2>4. NONE \notin Complete
    BY TreeTypes
  <2>5. QED
    BY <1>1, <1>4, <2>2, <2>3, <2>4 DEF RecoverableFacts
<1>5. QED
  BY <1>2, <1>3, <1>4

\* Every step publishes, breaks the promise, loses what a broken promise no longer
\* protects, or changes nothing a user can find.
LEMMA StepImplements ==
    ASSUME IInv, IInv', Held, Held', [Next]_vars
    PROVE  [Atomic!Next]_<<Recoverable, Broken>>
<1>0. RecoverableFacts /\ RecoverableFacts'
  <2>1. (IInv => RecoverableFacts)'
    BY RecoverableIs, PTL
  <2>2. QED
    BY <2>1, RecoverableIs
<1>1. ASSUME UNCHANGED <<dest, backup>> PROVE Recoverable' = Recoverable
  <2>1. SetAsideTrees' = SetAsideTrees
    BY <1>1 DEF SetAsideTrees, Complete
  <2>2. QED
    BY <1>1, <2>1 DEF Recoverable
<1>2. Broken \in BOOLEAN /\ Broken' \in BOOLEAN /\ (Broken => Broken')
  BY BrokenStays DEF Broken
<1>3. CASE UNCHANGED vars
  <2>1. Recoverable' = Recoverable
    BY <1>1, <1>3 DEF vars
  <2>2. Broken' = Broken
    BY <1>3 DEF vars, Broken
  <2>3. QED
    BY <2>1, <2>2
<1>4. ASSUME NEW r \in Runs, Fault(r) \/ Interrupt(r) \/ Crash(r)
      PROVE  [Atomic!Next]_<<Recoverable, Broken>>
  <2>1. Recoverable' = Recoverable
    BY <1>1, <1>4 DEF Fault, Interrupt, Crash
  <2>2. CASE Broken' = TRUE
    BY <2>1, <2>2 DEF Atomic!Next, Atomic!Break
  <2>3. CASE Broken' = Broken
    BY <2>1, <2>3
  <2>4. QED
    BY <1>2, <2>2, <2>3
<1>5. ASSUME NEW r \in Runs, Step(r)
      PROVE  [Atomic!Next]_<<Recoverable, Broken>>
  <2>1. StepShape(r)
    BY <1>5, StepHasShape
  <2>2. Broken' = Broken
    BY <2>1, <1>2 DEF StepShape, Broken
  <2>3. Complete' = Complete
    BY DEF Complete
  <2>4. Recoverable' \in Complete \cup {NONE}
    BY <1>0, <2>3 DEF RecoverableFacts
  <2>5. CASE Recoverable' \in Complete
    BY <2>2, <2>5 DEF Atomic!Next, Atomic!Publish
  <2>6. CASE Recoverable' = NONE /\ Broken
    BY <2>2, <2>6 DEF Atomic!Next, Atomic!Lose
  <2>7. CASE Recoverable' = NONE /\ ~Broken
    <3>1. dest' = NONE /\ \A q \in Runs : backup'[q] \notin Complete
      BY <1>0, <2>3, <2>7 DEF RecoverableFacts
    <3>2. \A q \in Runs : backup'[q] = NONE
      BY <2>2, <2>3, <2>7, <3>1 DEF Held, Holder
    <3>3. dest = NONE /\ pc[r] \notin {"promote", "restore", "crashed"}
      BY <2>1, <3>1, <3>2 DEF StepShape
    <3>4. \A q \in Runs : ~Holder(q)
      <4>1. ASSUME NEW q \in Runs, Holder(q) PROVE FALSE
        <5>1. q # r
          BY <3>3, <4>1 DEF Holder
        <5>2. backup'[q] = backup[q]
          BY <2>1, <5>1 DEF StepShape
        <5>3. QED
          BY <3>1, <4>1, <5>2 DEF Holder
      <4>2. QED
        BY <4>1
    <3>5. \A q \in Runs : backup[q] = NONE
      BY <2>7, <3>3, <3>4 DEF Held
    <3>6. Recoverable = NONE
      BY <1>0, <3>3, <3>5, TreeTypes DEF RecoverableFacts
    <3>7. QED
      BY <2>2, <2>7, <3>6
  <2>8. QED
    BY <2>4, <2>5, <2>6, <2>7
<1>6. QED
  BY <1>3, <1>4, <1>5 DEF Next

\* The two renames, the rollback and the finally block of
\* _commit_recovered_directory_outputs, run by any number of processes at once, are one
\* atomic exchange: the detailed specification implements the abstract one.
THEOREM Refinement == Spec => ImplementsAtomic
<1>1. Init => Atomic!Init /\ Held
  <2> SUFFICES ASSUME Init PROVE Atomic!Init /\ Held
    OBVIOUS
  <2>1. IInv
    BY InitKeeps
  <2>2. ~Broken
    <3>1. \A r \in Runs : result[r] # "torn"
      BY DEF Init
    <3>2. ~(faults >= 2)
      BY DEF Init
    <3>3. QED
      BY <3>1, <3>2 DEF Broken
  <2>3. Broken = FALSE
    BY <2>2 DEF Broken
  <2>4. Held
    BY DEF Init, Held
  <2>5. QED
    BY <2>1, <2>3, <2>4, RecoverableIs DEF RecoverableFacts, Atomic!Init
<1>2. IInv /\ IInv' /\ Held /\ [Next]_vars => Held'
  BY NextKeepsHeld
<1>3. IInv /\ IInv' /\ Held /\ Held' /\ [Next]_vars => [Atomic!Next]_<<Recoverable, Broken>>
  BY StepImplements
<1>4. QED
  BY <1>1, <1>2, <1>3, Invariance, PTL DEF Spec, ImplementsAtomic, Atomic!Spec

-----------------------------------------------------------------------------
(* How a run ends: nothing lost. *)

\* What a failed or refused run may leave at the destination.
Ours == {old, NONE} \cup {Tree(r) : r \in Runs} \cup {File(r) : r \in Runs}

\* A tree other than the runs' own is the one that was there first, also while it is set
\* aside; and as long as the promise holds it can be found.
OldKept ==
    /\ dest \in Ours
    /\ \A q \in Runs : pc[q] \in {"promote", "restore"} => backup[q] \in Ours
    /\ ~Broken /\ Recoverable = NONE => old = NONE

\* No step forgets what was there first.
LEMMA OldFixed == ASSUME [Next]_vars PROVE old' = old
<1>1. ASSUME NEW r \in Runs, NEW step, RenameToDest(r, step) PROVE old' = old
  BY <1>1 DEF RenameToDest
<1>2. ASSUME NEW r \in Runs, Step(r) PROVE old' = old
  BY <1>1, <1>2 DEF Step, ChooseMode, InspectDestination, StageDirectory, ValidatePaths,
     WriteEntry, InstallFresh, SetAside, Promote, Restore, DropBackup, Report, Cleanup,
     MakeTemp, SaveTemp, MoveTemp, TellFile, PrepareOutputDir, SetUp, RenderDocument,
     CommitPrepared
<1>3. QED
  BY <1>2 DEF Next, Fault, Interrupt, Crash, vars

\* Where a run's step may lead it, and with what set aside.
LEMMA StepOnOurs ==
    ASSUME IInv, NEW r \in Runs, Step(r), OldKept
    PROVE  /\ dest' \in Ours
           /\ pc'[r] \in {"promote", "restore"} => backup'[r] \in Ours
           /\ \A q \in Runs \ {r} : pc'[q] = pc[q] /\ backup'[q] = backup[q]
<1>1. \A q \in Runs \ {r} : pc'[q] = pc[q] /\ backup'[q] = backup[q]
  BY StepHasShape DEF StepShape
<1>2. CASE InstallFresh(r) \/ Promote(r) \/ MoveTemp(r) \/ CommitPrepared(r)
  <2>1. staging[r] \in {Tree(r), File(r)}
    BY <1>2, Typed DEF InstallFresh, Promote, MoveTemp, CommitPrepared, At, Holds
  <2>2. PICK step \in {"report", "drop", "tell", "ended"} : RenameToDest(r, step)
    BY <1>2 DEF InstallFresh, Promote, MoveTemp, CommitPrepared
  <2>3. dest' \in {dest, staging[r]} /\ backup' = backup
    BY <2>2 DEF RenameToDest
  <2>4. pc'[r] \in {step, Follow(Unwind, pc[r])}
    BY <2>2, Typed DEF RenameToDest, Fails, Go
  <2>5. pc'[r] \in {"promote", "restore"} => pc[r] = "promote"
    BY <2>2, <2>4, Handlers
  <2>6. QED
    BY <1>1, <2>1, <2>3, <2>5 DEF OldKept, Ours
<1>3. CASE SetAside(r)
  <2>1. CASE dest = NONE
    <3>1. dest' = dest /\ pc'[r] = Follow(Unwind, "aside")
      BY <1>3, <2>1, Typed DEF SetAside, Fails, Go, At
    <3>2. Follow(Unwind, "aside") \notin {"promote", "restore"}
      BY Handlers
    <3>3. QED
      BY <1>1, <3>1, <3>2 DEF OldKept
  <2>2. CASE dest # NONE
    <3>1. dest' = NONE /\ backup'[r] = dest
      BY <1>3, <2>2, Typed DEF SetAside
    <3>2. QED
      BY <1>1, <3>1 DEF OldKept, Ours
  <2>3. QED
    BY <2>1, <2>2
<1>4. CASE Restore(r)
  <2>1. pc[r] = "restore" /\ pc'[r] = "drop" /\ dest' \in {dest, backup[r]}
    BY <1>4, Typed DEF Restore, At, Go
  <2>2. QED
    BY <1>1, <2>1 DEF OldKept
<1>5. CASE \/ ChooseMode(r) \/ InspectDestination(r) \/ StageDirectory(r) \/ ValidatePaths(r)
           \/ WriteEntry(r) \/ DropBackup(r) \/ Report(r) \/ Cleanup(r) \/ MakeTemp(r)
           \/ SaveTemp(r) \/ TellFile(r) \/ PrepareOutputDir(r) \/ SetUp(r) \/ RenderDocument(r)
  <2>1. dest' = dest /\ pc[r] \notin {"promote", "restore"}
    BY <1>5 DEF ChooseMode, InspectDestination, StageDirectory, ValidatePaths, WriteEntry,
       DropBackup, Report, Cleanup, MakeTemp, SaveTemp, TellFile, PrepareOutputDir, SetUp,
       RenderDocument, At
  <2>2. Follow(Unwind, pc[r]) \notin {"promote", "restore"}
    BY <2>1, Handlers
  <2>3. pc'[r] \notin {"promote", "restore"}
    BY <1>5, <2>1, <2>2, Typed DEF ChooseMode, InspectDestination, StageDirectory,
       ValidatePaths, WriteEntry, DropBackup, Report, Cleanup, MakeTemp, SaveTemp, TellFile,
       PrepareOutputDir, SetUp, RenderDocument, Go, Fails
  <2>4. QED
    BY <1>1, <2>1, <2>3 DEF OldKept
<1>6. QED
  BY <1>2, <1>3, <1>4, <1>5 DEF Step

\* As long as the promise holds, what can be found is not lost.
LEMMA NothingLost ==
    ASSUME IInv, IInv', Held, Held', [Next]_vars, ~Broken', Recoverable' = NONE
    PROVE  Recoverable = NONE
<1>1. [Atomic!Next]_<<Recoverable, Broken>>
  BY StepImplements
<1>2. NONE \notin Complete
  BY TreeTypes
<1>3. QED
  BY <1>1, <1>2 DEF Atomic!Next, Atomic!Publish, Atomic!Break, Atomic!Lose

\* OldKept is inductive beside the invariant.
LEMMA NextKeepsOld == ASSUME IInv, IInv', Held, Held', OldKept, [Next]_vars PROVE OldKept'
<1>1. old' = old /\ Ours' = Ours
  BY OldFixed DEF Ours
<1>2. ~Broken' /\ Recoverable' = NONE => old' = NONE
  BY <1>1, NothingLost, BrokenStays DEF OldKept
<1>3. ASSUME NEW r \in Runs, Step(r)
      PROVE  /\ dest' \in Ours
             /\ \A q \in Runs : pc'[q] \in {"promote", "restore"} => backup'[q] \in Ours
  BY <1>3, StepOnOurs DEF OldKept
<1>4. ASSUME NEW r \in Runs, Fault(r) \/ Interrupt(r) \/ Crash(r)
      PROVE  /\ dest' \in Ours
             /\ \A q \in Runs : pc'[q] \in {"promote", "restore"} => backup'[q] \in Ours
  <2>1. UNCHANGED <<dest, backup>> /\ \A q \in Runs \ {r} : pc'[q] = pc[q]
    BY <1>4, Typed DEF Fault, Fails, Interrupt, Crash, Go
  <2>2. pc'[r] \in {Follow(Unwind, pc[r]), Follow(UnwindInterrupt, pc[r]), "report",
                    "cleanup", "ended", "crashed"}
    BY <1>4, Typed DEF Fault, Fails, Interrupt, Crash, Go
  <2>3. pc'[r] \in {"promote", "restore"} => pc[r] = "promote"
    BY <2>2, Handlers
  <2>4. QED
    BY <2>1, <2>3 DEF OldKept
<1>5. CASE UNCHANGED vars
  BY <1>1, <1>2, <1>5 DEF vars, OldKept
<1>6. QED
  BY <1>1, <1>2, <1>3, <1>4, <1>5 DEF Next, OldKept

\* When all runs have ended nobody holds anything, so what can be found is at the destination.
LEMMA OldIsThere ==
    ASSUME IInv, Held, OldKept, ~Broken, Over, ~Published PROVE dest = old
<1>1. CASE dest # NONE
  BY <1>1 DEF OldKept, Ours, Published
<1>2. CASE dest = NONE
  <2>1. \A q \in Runs : ~Holder(q)
    BY DEF Over, At, Holder
  <2>2. \A q \in Runs : backup[q] = NONE
    BY <1>2, <2>1 DEF Held
  <2>3. Recoverable = NONE
    BY <1>2, <2>2, RecoverableIs, TreeTypes DEF RecoverableFacts
  <2>4. QED
    BY <1>2, <2>3 DEF OldKept
<1>3. QED
  BY <1>1, <1>2

-----------------------------------------------------------------------------
(* How a run ends: no copy left. *)

\* What a run has staged at the steps where it cleans up nothing.
Staged(r) ==
    /\ pc[r] \in {"choose", "inspect", "stage", "temp", "prepare", "tell"} => staging[r] = NONE
    /\ pc[r] \in {"validate", "setup"} => staging[r] = EmptyDir

\* A run that leaves a directory, or will because it could not delete what it set aside.
Stained(r) ==
    /\ result[r] \in {"ok", "error"}
    /\ \/ At(r, "ended") /\ (staging[r] \notin {NONE, EmptyDir} \/ IsDir(backup[r]))
       \/ pc[r] \in {"report", "cleanup"} /\ IsDir(backup[r])
StainedRuns == {r \in Runs : Stained(r)}

Counted == /\ \A r \in Runs : Staged(r)
           /\ IsFiniteSet(StainedRuns) /\ Cardinality(StainedRuns) <= faults

\* Going to a handler leaves what is staged as it was.
LEMMA FailsClean ==
    ASSUME IInv, NEW r \in Runs, Staged(r), Fails(r), UNCHANGED <<staging, backup>>,
           pc[r] \notin Late \/ pc[r] = "promote", pc[r] # "discard", pc[r] # "unlink"
    PROVE  /\ Staged(r)'
           /\ pc[r] \in {"choose", "inspect", "validate", "prepare", "install", "aside",
                         "promote", "move", "commit"} => (Stained(r)' => Stained(r))
<1>1. pc'[r] = Follow(Unwind, pc[r])
  BY Typed DEF Fails, Go
<1>2. Staged(r)'
  BY <1>1, Handlers DEF Staged
<1>3. CASE pc[r] \in {"choose", "inspect", "validate", "prepare"}
  <2>1. backup[r] = NONE /\ staging[r] \in {NONE, EmptyDir}
    BY <1>3, Typed DEF Holds, Late, Staged
  <2>2. QED
    BY <1>2, <2>1 DEF Stained, IsDir
<1>4. CASE pc[r] \in {"install", "aside", "move", "commit"}
  <2>1. backup[r] = NONE /\ Follow(Unwind, pc[r]) # "ended"
    BY <1>4, Typed DEF Holds, Late, Follow, Unwind
  <2>2. QED
    BY <1>1, <1>2, <2>1 DEF Stained, At, IsDir
<1>5. CASE pc[r] = "promote"
  <2>1. Follow(Unwind, pc[r]) = "restore"
    BY <1>5 DEF Follow, Unwind
  <2>2. QED
    BY <1>1, <1>2, <2>1 DEF Stained, At
<1>6. QED
  BY <1>2, <1>3, <1>4, <1>5

\* Renaming onto the destination takes the staging directory away.
LEMMA RenameClean ==
    ASSUME IInv, NEW r \in Runs, Staged(r), NEW step \in {"report", "drop", "tell", "ended"},
           RenameToDest(r, step), pc[r] \in {"install", "promote", "move", "commit"},
           step # "drop" => pc[r] # "promote"
    PROVE  Staged(r)' /\ (Stained(r)' => Stained(r))
<1>1. CASE CanReplace(staging[r])
  <2>1. staging'[r] = NONE /\ pc'[r] = step /\ backup' = backup
    BY <1>1, Typed DEF RenameToDest, Go
  <2>2. step # "drop" => backup[r] = NONE
    BY Typed DEF Holds, Late
  <2>3. QED
    BY <2>1, <2>2 DEF Staged, Stained, At, IsDir
<1>2. CASE ~CanReplace(staging[r])
  BY <1>2, FailsClean DEF RenameToDest, Late
<1>3. QED
  BY <1>1, <1>2

\* Without a failing operation no run comes to leave a directory.
LEMMA StepClean ==
    ASSUME IInv, NEW r \in Runs, Staged(r), Step(r)
    PROVE  Staged(r)' /\ (Stained(r)' => Stained(r))
<1>1. CASE ChooseMode(r)
  <2>1. pc'[r] \in {"temp", "inspect"} /\ staging' = staging /\ pc[r] = "choose"
    BY <1>1, Typed DEF ChooseMode, Go, At
  <2>2. QED
    BY <2>1 DEF Staged, Stained, At
<1>2. CASE InspectDestination(r)
  <2>1. CASE IsFile(dest)
    BY <1>2, <2>1, FailsClean DEF InspectDestination, At, Late
  <2>2. CASE ~IsFile(dest)
    BY <1>2, <2>2, Typed DEF InspectDestination, At, Go, Staged, Stained
  <2>3. QED
    BY <2>1, <2>2
<1>3. CASE StageDirectory(r)
  BY <1>3, Typed DEF StageDirectory, MakeStaging, At, Go, Staged, Stained
<1>4. CASE ValidatePaths(r)
  <2>1. CASE Fails(r)
    BY <1>4, <2>1, FailsClean DEF ValidatePaths, At, Late
  <2>2. CASE Go(r, "fill") /\ UNCHANGED result
    BY <1>4, <2>2, Typed DEF ValidatePaths, At, Go, Staged, Stained
  <2>3. QED
    BY <1>4, <2>1, <2>2 DEF ValidatePaths
<1>5. CASE WriteEntry(r) \/ RenderDocument(r)
  <2>1. pc'[r] \in {"fill", "aside", "install", "render", "commit"}
    BY <1>5, Typed DEF WriteEntry, RenderDocument, At, Go
  <2>2. QED
    BY <2>1 DEF Staged, Stained, At
<1>6. CASE InstallFresh(r) \/ MoveTemp(r) \/ CommitPrepared(r)
  BY <1>6, RenameClean DEF InstallFresh, MoveTemp, CommitPrepared, At
<1>7. CASE Promote(r)
  BY <1>7, RenameClean DEF Promote, At
<1>8. CASE SetAside(r)
  <2>1. CASE dest = NONE
    BY <1>8, <2>1, FailsClean DEF SetAside, At, Late
  <2>2. CASE dest # NONE
    BY <1>8, <2>2, Typed DEF SetAside, At, Go, Staged, Stained
  <2>3. QED
    BY <2>1, <2>2
<1>9. CASE Restore(r)
  BY <1>9, Typed DEF Restore, At, Go, Staged, Stained
<1>10. CASE DropBackup(r)
  <2>1. \/ pc'[r] = "drop"
        \/ pc'[r] \in {"report", "cleanup"} /\ ~IsDir(backup'[r])
    BY <1>10, Typed DEF DropBackup, At, Go, IsFile, IsDir
  <2>2. QED
    BY <2>1 DEF Staged, Stained, At
<1>11. CASE Report(r)
  BY <1>11, Typed DEF Report, At, Go, Staged, Stained
<1>12. CASE Cleanup(r)
  <2>1. /\ pc[r] \in {"cleanup", "discard", "unlink"} /\ backup' = backup /\ result' = result
        /\ \/ pc'[r] = "ended" /\ staging'[r] = NONE
           \/ pc' = pc
    BY <1>12, Typed DEF Cleanup, Go
  <2>2. pc[r] # "cleanup" => backup[r] = NONE
    BY <2>1, Typed DEF Holds, Late
  <2>3. QED
    BY <2>1, <2>2 DEF Staged, Stained, At, IsDir
<1>13. CASE MakeTemp(r) \/ SaveTemp(r) \/ SetUp(r)
  <2>1. pc'[r] \in {"save", "move", "render"}
    BY <1>13, Typed DEF MakeTemp, SaveTemp, SetUp, Go
  <2>2. QED
    BY <2>1 DEF Staged, Stained, At
<1>14. CASE TellFile(r)
  <2>1. /\ pc[r] = "tell" /\ pc'[r] = "ended" /\ staging' = staging /\ backup' = backup
    BY <1>14, Typed DEF TellFile, At, Go
  <2>2. backup[r] = NONE /\ staging[r] = NONE
    BY <2>1, Typed DEF Holds, Late, Staged
  <2>3. QED
    BY <2>1, <2>2 DEF Staged, Stained, IsDir
<1>15. CASE PrepareOutputDir(r)
  <2>1. CASE dest # NONE
    BY <1>15, <2>1, FailsClean DEF PrepareOutputDir, At, Late
  <2>2. CASE dest = NONE
    BY <1>15, <2>2, Typed DEF PrepareOutputDir, MakeStaging, At, Go, Staged, Stained
  <2>3. QED
    BY <2>1, <2>2
<1>16. QED
  BY <1>1, <1>2, <1>3, <1>4, <1>5, <1>6, <1>7, <1>8, <1>9, <1>10, <1>11, <1>12, <1>13, <1>14,
     <1>15 DEF Step

\* An interrupt or a crash is no end of which anything is promised.
LEMMA InterruptClean ==
    ASSUME IInv, NEW r \in Runs, Interrupt(r) \/ Crash(r)
    PROVE  Staged(r)' /\ ~Stained(r)'
<1>1. CASE Interrupt(r)
  <2>1. pc'[r] = Follow(UnwindInterrupt, pc[r]) /\ result'[r] \in {"torn", "interrupted"}
    BY <1>1, Typed DEF Interrupt, Go
  <2>2. QED
    BY <2>1, Handlers DEF Staged, Stained
<1>2. CASE Crash(r)
  BY <1>2, Typed DEF Crash, Go, Staged, Stained, At
<1>3. QED
  BY <1>1, <1>2

\* A failing operation stains at most the run it happens to.
LEMMA FaultStaged ==
    ASSUME IInv, NEW r \in Runs, Fault(r) PROVE Staged(r)'
<1>1. pc'[r] \in {Follow(Unwind, pc[r]), "report", "cleanup", "ended"}
  BY Typed DEF Fault, Fails, Go
<1>2. QED
  BY <1>1, Handlers DEF Staged

\* A step of one run leaves the others as they are.
LEMMA OthersAlone ==
    ASSUME IInv, NEW r \in Runs, Step(r) \/ Fault(r) \/ Interrupt(r) \/ Crash(r)
    PROVE  \A q \in Runs \ {r} : Staged(q) = Staged(q)' /\ Stained(q) = Stained(q)'
<1> SUFFICES \A q \in Runs \ {r} : /\ pc'[q] = pc[q] /\ staging'[q] = staging[q]
                                   /\ backup'[q] = backup[q] /\ result'[q] = result[q]
  BY DEF Staged, Stained, At
<1>1. ASSUME Fails(r) PROVE \A q \in Runs \ {r} : pc'[q] = pc[q] /\ result'[q] = result[q]
  BY <1>1, Typed DEF Fails, Go
<1>2. CASE Fault(r) \/ Interrupt(r) \/ Crash(r)
  BY <1>1, <1>2, Typed DEF Fault, Interrupt, Crash, Go
<1>3. ASSUME NEW step, RenameToDest(r, step)
      PROVE  \A q \in Runs \ {r} : /\ pc'[q] = pc[q] /\ staging'[q] = staging[q]
                                   /\ backup'[q] = backup[q] /\ result'[q] = result[q]
  BY <1>1, <1>3, Typed DEF RenameToDest, Go
<1>4. CASE InstallFresh(r) \/ Promote(r) \/ MoveTemp(r) \/ CommitPrepared(r)
  BY <1>3, <1>4 DEF InstallFresh, Promote, MoveTemp, CommitPrepared
<1>5. CASE \/ InspectDestination(r) \/ ValidatePaths(r) \/ SetAside(r) \/ PrepareOutputDir(r)
  BY <1>1, <1>5, Typed DEF InspectDestination, ValidatePaths, SetAside, PrepareOutputDir, Go,
     MakeStaging
<1>6. CASE ChooseMode(r) \/ StageDirectory(r) \/ Restore(r) \/ DropBackup(r)
  BY <1>6, Typed DEF ChooseMode, StageDirectory, Restore, DropBackup, Go, MakeStaging
<1>7. CASE WriteEntry(r) \/ RenderDocument(r) \/ Report(r) \/ Cleanup(r)
  BY <1>7, Typed DEF WriteEntry, RenderDocument, Report, Cleanup, Go, Stage
<1>8. CASE MakeTemp(r) \/ SaveTemp(r) \/ TellFile(r) \/ SetUp(r)
  BY <1>8, Typed DEF MakeTemp, SaveTemp, TellFile, SetUp, Go, MakeStaging
<1>9. QED
  BY <1>2, <1>4, <1>5, <1>6, <1>7, <1>8 DEF Step

\* At most one run is stained for each operation that failed.
LEMMA NextKeepsCounted == ASSUME IInv, Counted, [Next]_vars PROVE Counted'
<1>1. faults \in Nat
  BY Typed, OutputConstants
<1>2. ASSUME NEW r \in Runs, Step(r) \/ Interrupt(r) \/ Crash(r) PROVE Counted'
  <2>1. Staged(r)' /\ (Stained(r)' => Stained(r))
    BY <1>2, StepClean, InterruptClean DEF Counted
  <2>2. StainedRuns' \subseteq StainedRuns /\ \A q \in Runs : Staged(q)'
    BY <1>2, <2>1, OthersAlone DEF Counted, StainedRuns
  <2>3. IsFiniteSet(StainedRuns') /\ Cardinality(StainedRuns') <= Cardinality(StainedRuns)
        /\ Cardinality(StainedRuns') \in Nat /\ Cardinality(StainedRuns) \in Nat
    BY <2>2, FS_Subset, FS_CardinalityType DEF Counted
  <2>4. faults' = faults
    BY <1>2, StepHasShape DEF StepShape, Interrupt, Crash
  <2>5. QED
    BY <1>1, <2>2, <2>3, <2>4 DEF Counted
<1>3. ASSUME NEW r \in Runs, Fault(r) PROVE Counted'
  <2>1. Staged(r)' /\ faults' = faults + 1
    BY <1>3, FaultStaged DEF Fault
  <2>2. StainedRuns' \subseteq StainedRuns \cup {r} /\ \A q \in Runs : Staged(q)'
    BY <1>3, <2>1, OthersAlone DEF Counted, StainedRuns
  <2>3. /\ IsFiniteSet(StainedRuns \cup {r})
        /\ Cardinality(StainedRuns \cup {r}) \in Nat /\ Cardinality(StainedRuns) \in Nat
        /\ Cardinality(StainedRuns \cup {r}) <= Cardinality(StainedRuns) + 1
    BY FS_AddElement, FS_CardinalityType DEF Counted
  <2>4. IsFiniteSet(StainedRuns') /\ Cardinality(StainedRuns') \in Nat
        /\ Cardinality(StainedRuns') <= Cardinality(StainedRuns \cup {r})
    BY <2>2, <2>3, FS_Subset, FS_CardinalityType
  <2>5. QED
    BY <1>1, <2>1, <2>2, <2>3, <2>4 DEF Counted
<1>4. CASE UNCHANGED vars
  BY <1>4 DEF vars, Counted, Staged, StainedRuns, Stained, At
<1>5. QED
  BY <1>2, <1>3, <1>4 DEF Next

\* Every run that leaves a directory is stained.
LEMMA CountedSuffices ==
    ASSUME IInv, Counted PROVE Cardinality({r \in Runs : LeavesTree(r)}) <= faults
<1> DEFINE L == {r \in Runs : LeavesTree(r)}
<1>1. L \subseteq StainedRuns
  BY DEF LeavesTree, StainedRuns, Stained
<1>2. Cardinality(L) <= Cardinality(StainedRuns) /\ Cardinality(L) \in Nat
      /\ Cardinality(StainedRuns) \in Nat
  BY <1>1, FS_Subset, FS_CardinalityType DEF Counted
<1>3. faults \in Nat
  BY Typed, OutputConstants
<1>4. QED
  BY <1>2, <1>3 DEF Counted

-----------------------------------------------------------------------------
(* How a run ends: a file set aside. *)

\* The steps from a look at the destination, in existed, to its set-aside.
Seeing == {"stage", "validate", "fill", "aside"}

\* A run that has failed, was interrupted, or died; and one that may still.
Lost(p) == pc[p] = "crashed" \/ result[p] # "ok"
Ousted(p) == pc[p] = "promote" \/ Lost(p)

\* Up to its promotion a recovery has not failed; it sets aside a directory it saw, and is at
\* its rollback for having failed.
Orderly(r) ==
    /\ pc[r] \in Seeing \cup {"choose", "inspect", "promote"} => result[r] = "ok"
    /\ pc[r] = "aside" => existed[r]
    /\ pc[r] = "restore" => result[r] # "ok"

\* Where a recovery saw a directory there is none only because another took it away.
Overtaken(r) ==
    (dest = NONE \/ IsFile(dest)) /\ existed[r] /\ pc[r] \in Seeing
      => \E p \in Runs \ {r} : Ousted(p)

\* A file is set aside only where one directory's recovery took the place of another's, which
\* has failed or will: its promotion finds the file, or the tree of the run that set it aside.
FileExplained ==
    (\E r \in Runs : IsFile(backup[r])) =>
      /\ \E p \in Runs : Ousted(p)
      /\ dest = NONE => \E p, q \in Runs : p # q /\ Ousted(p) /\ Ousted(q)
      /\ dest = EmptyDir => \E p \in Runs : Lost(p)

Explained == (\A r \in Runs : Orderly(r) /\ Overtaken(r)) /\ FileExplained

\* A step of one run that leaves the destination, sets nothing aside and forgets no failure.
LEMMA QuietExplained ==
    ASSUME Explained, NEW r \in Runs, dest' = dest, existed' = existed,
           \A q \in Runs : IsFile(backup[q])' => IsFile(backup[q]),
           \A q \in Runs \ {r} : pc'[q] = pc[q] /\ result'[q] = result[q],
           Orderly(r)', pc'[r] \in Seeing => pc[r] \in Seeing,
           Ousted(r) => Ousted(r)', Lost(r) => Lost(r)'
    PROVE  Explained'
<1>1. \A q \in Runs : (Ousted(q) => Ousted(q)') /\ (Lost(q) => Lost(q)')
  BY DEF Ousted, Lost
<1>2. \A q \in Runs : Orderly(q)'
  BY DEF Explained, Orderly
<1>3. ASSUME NEW q \in Runs PROVE Overtaken(q)'
  <2>1. Overtaken(q)
    BY DEF Explained
  <2>2. pc'[q] \in Seeing => pc[q] \in Seeing
    OBVIOUS
  <2>3. IsFile(dest)' = IsFile(dest)
    BY DEF IsFile
  <2>4. QED
    BY <1>1, <2>1, <2>2, <2>3 DEF Overtaken
<1>4. FileExplained'
  BY <1>1 DEF Explained, FileExplained
<1>5. QED
  BY <1>2, <1>3, <1>4 DEF Explained

\* Going to a handler forgets no failure, and is one.
LEMMA FailsExplained ==
    ASSUME IInv, Explained, NEW r \in Runs, Fails(r), UNCHANGED <<dest, staging, backup, existed>>
    PROVE  Explained'
<1>1. pc'[r] = Follow(Unwind, pc[r]) /\ result'[r] # "ok"
      /\ \A q \in Runs \ {r} : pc'[q] = pc[q] /\ result'[q] = result[q]
  BY Typed DEF Fails, Go
<1>2. pc'[r] \notin Seeing \cup {"choose", "inspect", "promote"}
  BY <1>1, Handlers DEF Seeing
<1>3. Orderly(r)'
  BY <1>1, <1>2 DEF Orderly, Seeing
<1>4. Lost(r)' /\ Ousted(r)'
  BY <1>1 DEF Lost, Ousted
<1>5. \A q \in Runs : IsFile(backup[q])' => IsFile(backup[q])
  BY DEF IsFile
<1>6. QED
  BY <1>1, <1>2, <1>3, <1>4, <1>5, QuietExplained

\* A failing operation, Ctrl-C and a crash.
LEMMA FaultExplained ==
    ASSUME IInv, Explained, NEW r \in Runs, Fault(r) \/ Interrupt(r) \/ Crash(r)
    PROVE  Explained'
<1>1. UNCHANGED <<dest, staging, backup, existed>>
  BY DEF Fault, Interrupt, Crash
<1>2. CASE Fails(r)
  BY <1>1, <1>2, FailsExplained
<1>3. CASE ~Fails(r)
  <2>1. \A q \in Runs \ {r} : pc'[q] = pc[q] /\ result'[q] = result[q]
    BY <1>3, Typed DEF Fault, Interrupt, Crash, Go
  <2>2. /\ pc'[r] \in {Follow(UnwindInterrupt, pc[r]), "report", "cleanup", "ended", "crashed"}
        /\ \/ result'[r] \in {"torn", "interrupted"}
           \/ pc'[r] = "crashed" /\ result' = result
           \/ pc[r] \in Cleaning /\ result' = result
    BY <1>3, Typed DEF Fault, Interrupt, Crash, Go, At, Cleaning
  <2>3. pc'[r] \notin Seeing \cup {"choose", "inspect", "promote", "restore"}
    BY <2>2, Handlers DEF Seeing
  <2>4. Orderly(r)'
    BY <2>3 DEF Orderly, Seeing
  <2>5. pc[r] # "crashed"
    BY DEF Fault, Interrupt, Crash, Running
  <2>6. (Ousted(r) => Ousted(r)') /\ (Lost(r) => Lost(r)')
    BY <2>2, <2>5 DEF Ousted, Lost, Cleaning
  <2>7. \A q \in Runs : IsFile(backup[q])' => IsFile(backup[q])
    BY <1>1 DEF IsFile
  <2>8. QED
    BY <1>1, <2>1, <2>3, <2>4, <2>6, <2>7, QuietExplained
<1>4. QED
  BY <1>2, <1>3

\* A run's complete tree is a directory that is not empty.
LEMMA TreeIsDir ==
    \A r \in Runs : Tree(r) # NONE /\ Tree(r) # EmptyDir /\ ~IsFile(Tree(r))
<1> SUFFICES ASSUME NEW r \in Runs
             PROVE  Tree(r) # NONE /\ Tree(r) # EmptyDir /\ ~IsFile(Tree(r))
  OBVIOUS
<1>1. Tree(r) # NONE
  BY TreeTypes
<1>2. DOMAIN Tree(r) = Entries(r) /\ DOMAIN EmptyDir = {}
  BY DEF Tree, EmptyDir
<1>3. QED
  BY <1>1, <1>2, OutputConstants DEF IsFile

\* Installing a fresh directory, and a prepared one.
LEMMA InstallExplained ==
    ASSUME IInv, Explained, NEW r \in Runs, NEW step \in {"report", "ended"},
           RenameToDest(r, step), pc[r] \in {"install", "commit"}
    PROVE  Explained'
<1>1. staging[r] = Tree(r)
  BY Typed DEF Holds
<1>2. CASE CanReplace(staging[r])
  <2>1. /\ dest' = Tree(r) /\ UNCHANGED <<result, backup, existed>>
        /\ pc'[r] = step /\ \A q \in Runs \ {r} : pc'[q] = pc[q]
    BY <1>1, <1>2, Typed DEF RenameToDest, Go
  <2>2. dest' # NONE /\ dest' # EmptyDir /\ ~IsFile(dest')
    BY <2>1, TreeIsDir
  <2>3. \A q \in Runs : Ousted(q) => Ousted(q)'
    BY <2>1 DEF Ousted, Lost
  <2>4. \A q \in Runs : Orderly(q)' /\ Overtaken(q)'
    BY <2>1, <2>2 DEF Explained, Orderly, Overtaken, Seeing
  <2>5. FileExplained'
    BY <2>1, <2>2, <2>3 DEF Explained, FileExplained, IsFile
  <2>6. QED
    BY <2>4, <2>5 DEF Explained
<1>3. CASE ~CanReplace(staging[r])
  BY <1>3, FailsExplained DEF RenameToDest
<1>4. QED
  BY <1>2, <1>3

\* A single file replaces nothing or a file, so it hides no directory.
LEMMA MoveTempExplained ==
    ASSUME IInv, Explained, NEW r \in Runs, MoveTemp(r) PROVE Explained'
<1>1. staging[r] = File(r) /\ pc[r] = "move"
  BY Typed DEF Holds, MoveTemp, At
<1>2. CASE CanReplace(staging[r])
  <2>1. /\ dest' = File(r) /\ UNCHANGED <<result, backup, existed>>
        /\ pc'[r] = "tell" /\ \A q \in Runs \ {r} : pc'[q] = pc[q]
    BY <1>1, <1>2, Typed DEF MoveTemp, RenameToDest, Go
  <2>2. dest' # NONE /\ dest' # EmptyDir /\ IsFile(dest')
    BY <2>1, TreeTypes DEF File, EmptyDir, IsFile
  <2>3. dest = NONE \/ IsFile(dest)
    BY <1>1, <1>2 DEF CanReplace, IsDir, IsFile, File
  <2>4. \A q \in Runs : Ousted(q) => Ousted(q)'
    BY <1>1, <2>1 DEF Ousted, Lost
  <2>5. \A q \in Runs : Orderly(q)'
    BY <2>1 DEF Explained, Orderly, Seeing
  <2>6. \A q \in Runs : Overtaken(q)'
    BY <2>1, <2>3, <2>4 DEF Explained, Overtaken, Seeing
  <2>7. FileExplained'
    BY <2>1, <2>2, <2>4 DEF Explained, FileExplained, IsFile
  <2>8. QED
    BY <2>5, <2>6, <2>7 DEF Explained
<1>3. CASE ~CanReplace(staging[r])
  BY <1>3, FailsExplained DEF MoveTemp, RenameToDest
<1>4. QED
  BY <1>2, <1>3

\* A promotion succeeds where nothing is, or an empty directory: a file set aside then has
\* another run to explain it.
LEMMA PromoteExplained ==
    ASSUME IInv, Explained, NEW r \in Runs, Promote(r) PROVE Explained'
<1>1. staging[r] = Tree(r) /\ pc[r] = "promote" /\ result[r] = "ok"
  BY Typed DEF Holds, Promote, At, Explained, Orderly
<1>2. CASE CanReplace(staging[r])
  <2>1. /\ dest' = Tree(r) /\ UNCHANGED <<result, backup, existed>>
        /\ pc'[r] = "drop" /\ \A q \in Runs \ {r} : pc'[q] = pc[q]
    BY <1>1, <1>2, Typed DEF Promote, RenameToDest, Go
  <2>2. dest' # NONE /\ dest' # EmptyDir /\ ~IsFile(dest')
    BY <2>1, TreeIsDir
  <2>3. dest = NONE \/ dest = EmptyDir
    BY <1>1, <1>2, TreeIsDir DEF CanReplace
  <2>4. \A q \in Runs \ {r} : (Ousted(q) => Ousted(q)')
    BY <2>1 DEF Ousted, Lost
  <2>5. ~Lost(r) /\ \A q \in Runs : Lost(q) => Ousted(q)
    BY <1>1 DEF Lost, Ousted
  <2>6. (\E q \in Runs : IsFile(backup[q])) => \E p \in Runs \ {r} : Ousted(p)
    BY <2>3, <2>5 DEF Explained, FileExplained
  <2>7. \A q \in Runs : Orderly(q)' /\ Overtaken(q)'
    BY <2>1, <2>2 DEF Explained, Orderly, Overtaken, Seeing
  <2>8. FileExplained'
    BY <2>1, <2>2, <2>4, <2>6 DEF FileExplained, IsFile
  <2>9. QED
    BY <2>7, <2>8 DEF Explained
<1>3. CASE ~CanReplace(staging[r])
  BY <1>3, FailsExplained DEF Promote, RenameToDest
<1>4. QED
  BY <1>2, <1>3

\* Setting aside what is there, which is a file only if another run took the directory.
LEMMA SetAsideExplained ==
    ASSUME IInv, Explained, NEW r \in Runs, SetAside(r) PROVE Explained'
<1>1. pc[r] = "aside" /\ result[r] = "ok" /\ existed[r]
  BY DEF SetAside, At, Explained, Orderly, Seeing
<1>2. CASE dest = NONE
  BY <1>2, FailsExplained DEF SetAside
<1>3. CASE dest # NONE
  <2>1. /\ dest' = NONE /\ backup'[r] = dest /\ \A q \in Runs \ {r} : backup'[q] = backup[q]
        /\ pc'[r] = "promote" /\ \A q \in Runs \ {r} : pc'[q] = pc[q]
        /\ UNCHANGED <<result, existed>>
    BY <1>3, Typed DEF SetAside, Go
  <2>2. Ousted(r)' /\ \A q \in Runs \ {r} : Ousted(q) => Ousted(q)'
    BY <2>1 DEF Ousted, Lost
  <2>3. ~Ousted(r)
    BY <1>1 DEF Ousted, Lost
  <2>4. IsFile(dest) => \E p \in Runs \ {r} : Ousted(p)
    BY <1>1 DEF Explained, Overtaken, Seeing
  <2>5. (\E q \in Runs : IsFile(backup'[q])) => \E p \in Runs \ {r} : Ousted(p)
    <3>1. (\E q \in Runs : IsFile(backup[q])) => \E p \in Runs \ {r} : Ousted(p)
      BY <2>3 DEF Explained, FileExplained
    <3>2. QED
      BY <2>1, <2>4, <3>1
  <2>6. \A q \in Runs : Orderly(q)'
    BY <1>1, <2>1 DEF Explained, Orderly, Seeing
  <2>7. \A q \in Runs : Overtaken(q)'
    BY <2>1, <2>2 DEF Overtaken, Seeing
  <2>8. FileExplained'
    <3>1. NONE # EmptyDir
      BY TreeTypes
    <3>2. QED
      BY <2>1, <2>2, <2>5, <3>1 DEF FileExplained, IsFile
  <2>9. QED
    BY <2>6, <2>7, <2>8 DEF Explained
<1>4. QED
  BY <1>2, <1>3

\* The rollback belongs to a run that has failed.
LEMMA RestoreExplained ==
    ASSUME IInv, Explained, NEW r \in Runs, Restore(r) PROVE Explained'
<1>1. pc[r] = "restore" /\ result[r] # "ok" /\ backup[r] \in Complete
  BY Typed DEF Restore, At, Holds, Explained, Orderly
<1>2. /\ pc'[r] = "drop" /\ \A q \in Runs \ {r} : pc'[q] = pc[q]
      /\ UNCHANGED <<result, existed>>
  BY Typed DEF Restore, Go
<1>3. \A q \in Runs : (Ousted(q) => Ousted(q)') /\ (Lost(q) => Lost(q)')
  BY <1>1, <1>2 DEF Ousted, Lost
<1>4. Lost(r)' /\ Ousted(r)'
  BY <1>1, <1>2 DEF Ousted, Lost
<1>5. \A q \in Runs : Orderly(q)'
  BY <1>2 DEF Explained, Orderly, Seeing
<1>6. CASE dest = NONE
  <2>1. dest' = backup[r] /\ dest' # NONE
    BY <1>1, <1>6, TreeTypes DEF Restore
  <2>2. \A q \in Runs : Overtaken(q)'
    BY <1>2, <1>4 DEF Overtaken, Seeing
  <2>3. FileExplained'
    BY <1>4, <2>1 DEF FileExplained
  <2>4. QED
    BY <1>5, <2>2, <2>3 DEF Explained
<1>7. CASE dest # NONE
  <2>1. dest' = dest /\ backup' = backup
    BY <1>7 DEF Restore
  <2>2. \A q \in Runs : IsFile(backup[q])' => IsFile(backup[q])
    BY <2>1 DEF IsFile
  <2>3. QED
    BY <1>2, <1>3, <1>5, <2>1, <2>2, QuietExplained DEF Seeing
<1>8. QED
  BY <1>6, <1>7

\* The first look at the destination remembers whether there is a directory.
LEMMA InspectExplained ==
    ASSUME IInv, Explained, NEW r \in Runs, InspectDestination(r) PROVE Explained'
<1>1. CASE IsFile(dest)
  BY <1>1, FailsExplained DEF InspectDestination
<1>2. CASE ~IsFile(dest)
  <2>1. /\ existed'[r] = (dest # NONE) /\ \A q \in Runs \ {r} : existed'[q] = existed[q]
        /\ pc[r] = "inspect" /\ pc'[r] = "stage" /\ \A q \in Runs \ {r} : pc'[q] = pc[q]
        /\ UNCHANGED <<dest, result, backup>>
    BY <1>2, Typed DEF InspectDestination, At, Go
  <2>2. \A q \in Runs : (Ousted(q) => Ousted(q)') /\ (Lost(q) => Lost(q)')
    BY <2>1 DEF Ousted, Lost
  <2>3. \A q \in Runs : Orderly(q)'
    BY <2>1 DEF Explained, Orderly, Seeing
  <2>4. \A q \in Runs : Overtaken(q)'
    BY <1>2, <2>1, <2>2 DEF Explained, Overtaken, IsFile
  <2>5. FileExplained'
    BY <2>1, <2>2 DEF Explained, FileExplained, IsFile
  <2>6. QED
    BY <2>3, <2>4, <2>5 DEF Explained
<1>3. QED
  BY <1>1, <1>2

\* The two steps that may refuse, when they do not.
Validated(r) == ValidatePaths(r) /\ Go(r, "fill") /\ UNCHANGED result
Prepared(r) == PrepareOutputDir(r) /\ dest = NONE

\* The steps that leave the destination and set nothing aside.
LEMMA QuietStepExplained ==
    ASSUME IInv, Explained, NEW r \in Runs,
           \/ ChooseMode(r) \/ StageDirectory(r) \/ Validated(r)
           \/ WriteEntry(r) \/ DropBackup(r) \/ Report(r) \/ Cleanup(r)
           \/ MakeTemp(r) \/ SaveTemp(r) \/ TellFile(r)
           \/ Prepared(r) \/ SetUp(r) \/ RenderDocument(r)
    PROVE  Explained'
<1>1. UNCHANGED <<dest, existed, result>> /\ \A q \in Runs \ {r} : pc'[q] = pc[q]
  BY Typed DEF ChooseMode, StageDirectory, ValidatePaths, Validated, WriteEntry, DropBackup, Report,
     Cleanup, MakeTemp, SaveTemp, TellFile, PrepareOutputDir, Prepared, SetUp, RenderDocument, Go
<1>2. \A q \in Runs : IsFile(backup[q])' => IsFile(backup[q])
  <2>1. CASE DropBackup(r) /\ ~(backup[r] = NONE \/ IsFile(backup[r]))
    <3>1. PICK t \in Emptied(backup, r) : backup' = [backup EXCEPT ![r] = t]
      BY <2>1 DEF DropBackup
    <3>2. ~IsFile(t)
      BY <2>1 DEF Emptied, IsFile
    <3>3. QED
      BY <3>1, <3>2, Typed DEF IsFile
  <2>2. CASE backup' = backup
    BY <2>2 DEF IsFile
  <2>3. QED
    BY <2>1, <2>2 DEF ChooseMode, StageDirectory, ValidatePaths, Validated, WriteEntry,
       DropBackup, Report, Cleanup, MakeTemp, SaveTemp, TellFile, PrepareOutputDir, Prepared, SetUp, RenderDocument
<1>3. /\ pc[r] \notin {"promote", "restore", "crashed"}
      /\ pc'[r] \in Seeing => pc[r] \in Seeing \cup {"choose", "inspect"}
      /\ pc'[r] \in Seeing \cup {"choose", "inspect"} => result[r] = "ok"
      /\ pc'[r] \notin {"promote", "restore"}
      /\ pc'[r] = "aside" => existed[r]
  <2>1. CASE \/ ChooseMode(r) \/ StageDirectory(r) \/ Validated(r)
             \/ WriteEntry(r)
    <3>1. /\ pc[r] \in Seeing \cup {"choose", "inspect"} /\ pc'[r] \notin {"promote", "restore"}
          /\ pc'[r] = "aside" => existed[r]
      BY <2>1, Typed DEF ChooseMode, StageDirectory, ValidatePaths, Validated, WriteEntry,
         At, Go, Seeing
    <3>2. result[r] = "ok"
      BY <3>1 DEF Explained, Orderly
    <3>3. QED
      BY <3>1, <3>2 DEF Seeing
  <2>2. CASE \/ DropBackup(r) \/ Report(r) \/ Cleanup(r) \/ MakeTemp(r) \/ SaveTemp(r)
             \/ TellFile(r) \/ Prepared(r) \/ SetUp(r) \/ RenderDocument(r)
    BY <2>2, Typed DEF DropBackup, Report, Cleanup, MakeTemp, SaveTemp, TellFile,
       PrepareOutputDir, Prepared, SetUp, RenderDocument, At, Go, Seeing
  <2>3. QED
    BY <2>1, <2>2
<1>4. Orderly(r)'
  BY <1>1, <1>3 DEF Orderly, Seeing
<1>5. pc'[r] \in Seeing => pc[r] \in Seeing
  BY <1>1, Typed DEF ChooseMode, StageDirectory, ValidatePaths, Validated, WriteEntry,
     DropBackup, Report, Cleanup, MakeTemp, SaveTemp, TellFile, PrepareOutputDir, Prepared,
     SetUp, RenderDocument, At, Go, Seeing
<1>6. (Ousted(r) => Ousted(r)') /\ (Lost(r) => Lost(r)')
  BY <1>1, <1>3 DEF Ousted, Lost
<1>7. QED
  BY <1>1, <1>2, <1>4, <1>5, <1>6, QuietExplained

\* Every step keeps files explained.
LEMMA NextKeepsExplained == ASSUME IInv, Explained, [Next]_vars PROVE Explained'
<1>1. ASSUME NEW r \in Runs, Step(r) PROVE Explained'
  <2>1. CASE InstallFresh(r) \/ CommitPrepared(r)
    BY <2>1, InstallExplained DEF InstallFresh, CommitPrepared, At
  <2>2. CASE ValidatePaths(r)
    BY <2>2, FailsExplained, QuietStepExplained DEF ValidatePaths, Validated
  <2>3. CASE PrepareOutputDir(r)
    BY <2>3, FailsExplained, QuietStepExplained DEF PrepareOutputDir, Prepared
  <2>4. QED
    BY <1>1, <2>1, <2>2, <2>3, MoveTempExplained, PromoteExplained, SetAsideExplained,
       RestoreExplained, InspectExplained, QuietStepExplained DEF Step
<1>2. ASSUME NEW r \in Runs, Fault(r) \/ Interrupt(r) \/ Crash(r) PROVE Explained'
  BY <1>2, FaultExplained
<1>3. CASE UNCHANGED vars
  BY <1>3 DEF vars, Explained, Orderly, Overtaken, FileExplained, Ousted, Lost, IsFile
<1>4. QED
  BY <1>1, <1>2, <1>3 DEF Next

\* When every run has ended a file set aside means that one of them failed.
LEMMA FileHasCause ==
    ASSUME Explained, Over, NEW r \in Runs, IsFile(backup[r])
    PROVE  \E p \in Runs : result[p] # "ok"
BY DEF Explained, FileExplained, Ousted, Lost, Over, At

\* What every run's end rests on.
EndInv == Held /\ OldKept /\ Counted /\ Explained

\* At the start nothing is staged, set aside or published.
LEMMA EndInvInit == Init => EndInv
<1> SUFFICES ASSUME Init PROVE EndInv
  OBVIOUS
<1>1. IInv
  BY InitKeeps
<1>2. Held /\ (Recoverable = NONE => old = NONE)
  BY <1>1, RecoverableIs DEF Init, Held, RecoverableFacts
<1>3. OldKept
  BY <1>2 DEF Init, OldKept, Ours
<1>4. StainedRuns = {} /\ \A r \in Runs : Staged(r)
  BY DEF Init, StainedRuns, Stained, At, Staged, IsDir
<1>5. Counted
  BY <1>4, FS_EmptySet DEF Counted, Init
<1>6. Explained
  <2>1. \A r \in Runs : Orderly(r) /\ Overtaken(r)
    BY DEF Init, Orderly, Overtaken, Seeing
  <2>2. FileExplained
    BY DEF Init, FileExplained, IsFile
  <2>3. QED
    BY <2>1, <2>2 DEF Explained
<1>7. QED
  BY <1>2, <1>3, <1>5, <1>6 DEF EndInv

\* However runs race, fail or are interrupted, each one's handlers and finally blocks
\* (outputs.py:252-281, 341-350) leave the old output or a new one: a run that put nothing in
\* place restored what was there, and leaves a directory only if a removal failed.  A file set
\* aside, which rmtree leaves where it is, is only there when some run did not succeed.
THEOREM EndsAlwaysClean == Spec => []EndsClean
<1>1. IInv /\ IInv' /\ EndInv /\ [Next]_vars => EndInv'
  BY NextKeepsHeld, NextKeepsOld, NextKeepsCounted, NextKeepsExplained DEF EndInv
<1>2. IInv /\ EndInv => EndsClean
  <2>1. IInv /\ EndInv => RollbackUnlessTorn
    BY OldIsThere DEF EndInv, RollbackUnlessTorn, RollbackRestores
  <2>2. IInv /\ EndInv => NoCopyLeft
    BY CountedSuffices, FileHasCause DEF EndInv, NoCopyLeft
  <2>3. QED
    BY <2>1, <2>2 DEF EndsClean
<1>3. QED
  BY <1>1, <1>2, EndInvInit, Invariance, PTL DEF Spec
=============================================================================
