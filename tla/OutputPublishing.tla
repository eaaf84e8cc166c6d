-------------------------- MODULE OutputPublishing --------------------------
(***************************************************************************)
(* How recover, backup and mint runs put their files in place              *)
(* (cli/shared/io/outputs.py, backup/execution.py, mint/workflow.py).      *)
(* Several runs share one destination path on a POSIX file system.  A run  *)
(* writes into a staging directory beside the destination and renames it;  *)
(* a recover run onto an existing directory first sets that aside under a  *)
(* backup name.                                                            *)
(*                                                                         *)
(* Every file system operation may raise OSError (at most MaxFaults times  *)
(* in a behaviour), an Interruptible run may get one Ctrl-C at any point,  *)
(* and every run may die without cleaning up.  A rename also fails by      *)
(* itself when another run has taken the target.                           *)
(*                                                                         *)
(* A tree is a function from file names to the run whose data they hold; a *)
(* destination that is a file is a tree with the single name ".".          *)
(* Operators marked [mutant] are plausible bugs, used only to confirm that *)
(* the properties would notice them.                                       *)
(***************************************************************************)
EXTENDS Naturals, FiniteSets

CONSTANTS
    NONE,
    Runs,           \* the runs
    Casts,          \* which of them take part; the others are never started
    Kind(_),        \* "recover" or "prepared" (backup, mint)
    Files,          \* file names
    Entries(_),     \* the files a run writes
    Origins(_),     \* what a run's manifest may call its input origin
    OldTrees,       \* what may be at the destination before the first run
    MayCollide(_),  \* some of a run's entries are one file if names differing in case are
    MaxFaults,      \* bound on failing operations
    Interruptible   \* the runs in which Ctrl-C may be pressed

VARIABLES
    dest,           \* the tree at the destination, or NONE
    staging,        \* each run's staging directory or temporary file
    backup,         \* each run's backup directory
    pc,             \* what each run does next
    existed,        \* destination_exists, as the run read it
    result,         \* how each run ends; "torn": interrupted between the two renames
    faults,         \* operations that have failed
    old             \* what was at the destination first (observes only)

vars == <<dest, staging, backup, pc, existed, result, faults, old>>

Names == Files \cup {"."}
Contents == Runs \cup {"old", "partial"}
Trees == UNION {[D -> Contents] : D \in SUBSET Names}
Option(S) == S \cup {NONE}

ASSUME OutputConstants ==
    /\ \A r \in Runs : Kind(r) \in {"recover", "prepared"}
                       /\ Entries(r) \subseteq Files /\ Entries(r) # {}
                       /\ Origins(r) \subseteq {"file", "directory", "mixed"}
    /\ "." \notin Files
    /\ NONE \notin Trees
    /\ OldTrees \subseteq Option({t \in Trees : \A f \in DOMAIN t : t[f] = "old"})
    /\ Casts \subseteq SUBSET Runs /\ Interruptible \subseteq Runs
    /\ MaxFaults \in Nat

EmptyDir == [f \in {} |-> NONE]
IsFile(t) == t # NONE /\ "." \in DOMAIN t
IsDir(t) == t # NONE /\ "." \notin DOMAIN t

\* The complete output of a run, as a directory and as a single file.
Tree(r) == [f \in Entries(r) |-> r]
File(r) == [f \in {"."} |-> r]

Steps == {"choose", "inspect", "stage", "validate", "fill", "install", "aside", "promote",
          "restore", "drop", "report", "cleanup",
          "temp", "save", "move", "unlink", "tell",
          "prepare", "setup", "render", "commit", "discard", "ended", "crashed"}

TypeOK ==
    /\ dest \in Option(Trees)
    /\ staging \in [Runs -> Option(Trees)]
    /\ backup \in [Runs -> Option(Trees)]
    /\ pc \in [Runs -> Steps]
    /\ existed \in [Runs -> BOOLEAN]
    /\ result \in [Runs -> {"ok", "error", "interrupted", "torn"}]
    /\ faults \in 0..MaxFaults
    /\ old \in Option(Trees)

Init ==
    /\ dest \in OldTrees /\ old = dest
    /\ staging = [r \in Runs |-> NONE] /\ backup = [r \in Runs |-> NONE]
    /\ \E cast \in Casts :
         pc = [r \in Runs |-> IF r \notin cast THEN "ended"
                             ELSE IF Kind(r) = "recover" THEN "choose" ELSE "prepare"]
    /\ existed = [r \in Runs |-> FALSE]
    /\ result = [r \in Runs |-> "ok"]
    /\ faults = 0

-----------------------------------------------------------------------------
(* Control: the exception handlers and finally blocks. *)

At(r, step) == pc[r] = step
Go(r, step) == pc' = [pc EXCEPT ![r] = step]

\* [mutant] A failed second rename goes straight to the finally block.
UnwindNoRollback ==
    [fill |-> "cleanup", install |-> "cleanup", aside |-> "cleanup", promote |-> "drop",
     restore |-> "drop", report |-> "cleanup", save |-> "unlink", move |-> "unlink",
     render |-> "discard", commit |-> "discard"]

\* Where an OSError takes a run: the steps named here are inside a try block whose
\* handler or finally block continues there; anywhere else it ends the run.
Unwind ==
    [fill |-> "cleanup", install |-> "cleanup", aside |-> "cleanup", promote |-> "restore",
     restore |-> "drop", report |-> "cleanup", save |-> "unlink", move |-> "unlink",
     render |-> "discard", commit |-> "discard"]

\* KeyboardInterrupt is no Exception: finally blocks run, handlers do not.
UnwindInterrupt ==
    [fill |-> "cleanup", install |-> "cleanup", aside |-> "cleanup", promote |-> "drop",
     restore |-> "drop", drop |-> "cleanup", report |-> "cleanup"]

Follow(handlers, step) == IF step \in DOMAIN handlers THEN handlers[step] ELSE "ended"

Fails(r) == /\ Go(r, Follow(Unwind, pc[r]))
            /\ result' = [result EXCEPT ![r] = IF @ = "ok" THEN "error" ELSE @]

Running(r) == pc[r] \notin {"ended", "crashed"}

\* rmtree(ignore_errors=True) and unlink(missing_ok=True): the cleaning steps.
Cleaning == {"drop", "cleanup", "discard", "unlink"}

\* The operation raises.  Cleaning a directory ignores it and goes on.
Fault(r) ==
    /\ Running(r) /\ faults < MaxFaults /\ faults' = faults + 1
    /\ IF At(r, "drop")
       THEN Go(r, IF result[r] = "ok" THEN "report" ELSE "cleanup") /\ UNCHANGED result
       ELSE IF pc[r] \in Cleaning THEN Go(r, "ended") /\ UNCHANGED result
       ELSE Fails(r)
    /\ UNCHANGED <<dest, staging, backup, existed, old>>

Interrupt(r) ==
    /\ r \in Interruptible /\ Running(r) /\ result[r] \in {"ok", "error"}
    /\ Go(r, Follow(UnwindInterrupt, pc[r]))
    /\ result' = [result EXCEPT ![r] = IF pc[r] \in {"promote", "restore"} THEN "torn"
                                       ELSE "interrupted"]
    /\ UNCHANGED <<dest, staging, backup, existed, faults, old>>

\* SIGKILL or power loss.
Crash(r) ==
    /\ Running(r) /\ Go(r, "crashed")
    /\ UNCHANGED <<dest, staging, backup, existed, result, faults, old>>

-----------------------------------------------------------------------------
(* The file system. *)

\* mkdtemp, mkstemp
MakeStaging(r, tree) == staging' = [staging EXCEPT ![r] = tree]

\* One file of a tree written through a temporary file and a rename.
Stage(r, f) ==
    staging' = [staging EXCEPT ![r] = [g \in DOMAIN @ \cup {f} |-> IF g = f THEN r ELSE @[g]]]

\* rename(2) of the staging directory or file onto the destination.
CanReplace(tree) == \/ dest = NONE
                    \/ IsDir(tree) /\ dest = EmptyDir
                    \/ IsFile(tree) /\ IsFile(dest)
RenameToDest(r, step) ==
    /\ IF CanReplace(staging[r])
       THEN /\ dest' = staging[r] /\ staging' = [staging EXCEPT ![r] = NONE]
            /\ Go(r, step) /\ UNCHANGED result
       ELSE Fails(r) /\ UNCHANGED <<dest, staging>>
    /\ UNCHANGED <<backup, existed, faults, old>>

\* rmtree removes one file after the other, then the directory; unlink removes a file.
Emptied(trees, r) ==
    IF DOMAIN trees[r] \subseteq {"."} THEN {NONE}
    ELSE {[g \in DOMAIN trees[r] \ {f} |-> trees[r][g]] : f \in DOMAIN trees[r]}

-----------------------------------------------------------------------------
(* recover: _write_recovered_outputs. *)

\* _single_entry_uses_directory_output; of its two calls the deciding one counts.
ChooseMode(r) ==
    /\ At(r, "choose")
    /\ \E origin \in Origins(r) :
         Go(r, IF Cardinality(Entries(r)) = 1 /\ origin = "file" /\ ~IsDir(dest)
               THEN "temp" ELSE "inspect")
    /\ UNCHANGED <<dest, staging, backup, existed, result, faults, old>>

InspectDestination(r) ==
    /\ At(r, "inspect")
    /\ IF IsFile(dest) THEN Fails(r) /\ UNCHANGED existed
       ELSE /\ existed' = [existed EXCEPT ![r] = dest # NONE]
            /\ Go(r, "stage") /\ UNCHANGED result
    /\ UNCHANGED <<dest, staging, backup, faults, old>>

StageDirectory(r) ==
    /\ At(r, "stage")
    /\ MakeStaging(r, EmptyDir) /\ Go(r, "validate")
    /\ UNCHANGED <<dest, backup, existed, result, faults, old>>

\* _validate_recovered_output_paths runs before the try block.
ValidatePaths(r) ==
    /\ At(r, "validate")
    /\ \/ Go(r, "fill") /\ UNCHANGED result
       \/ MayCollide(r) /\ Fails(r)
    /\ UNCHANGED <<dest, staging, backup, existed, faults, old>>

\* [mutant] The destination is replaced after the first file.
WriteEntryEarly(r) ==
    /\ At(r, "fill")
    /\ \E f \in Entries(r) \ DOMAIN staging[r] : Stage(r, f)
    /\ Go(r, IF existed[r] THEN "aside" ELSE "install")
    /\ UNCHANGED <<dest, backup, existed, result, faults, old>>

WriteEntry(r) ==
    /\ At(r, "fill")
    /\ \E f \in Entries(r) \ DOMAIN staging[r] :
         /\ Stage(r, f)
         /\ IF Entries(r) \subseteq DOMAIN staging[r] \cup {f}
            THEN Go(r, IF existed[r] THEN "aside" ELSE "install") ELSE UNCHANGED pc
    /\ UNCHANGED <<dest, backup, existed, result, faults, old>>

InstallFresh(r) == At(r, "install") /\ RenameToDest(r, "report")

\* [mutant] The old directory is removed instead of set aside.
SetAsideRemoving(r) ==
    /\ At(r, "aside")
    /\ IF dest = NONE THEN Fails(r) /\ UNCHANGED dest
       ELSE dest' = NONE /\ Go(r, "promote") /\ UNCHANGED result
    /\ UNCHANGED <<staging, backup, existed, faults, old>>

\* _commit_recovered_directory_outputs
SetAside(r) ==
    /\ At(r, "aside")
    /\ IF dest = NONE THEN Fails(r) /\ UNCHANGED <<dest, backup>>
       ELSE /\ backup' = [backup EXCEPT ![r] = dest] /\ dest' = NONE
            /\ Go(r, "promote") /\ UNCHANGED result
    /\ UNCHANGED <<staging, existed, faults, old>>

Promote(r) == At(r, "promote") /\ RenameToDest(r, "drop")

Restore(r) ==
    /\ At(r, "restore")
    /\ IF dest = NONE
       THEN dest' = backup[r] /\ backup' = [backup EXCEPT ![r] = NONE]
       ELSE UNCHANGED <<dest, backup>>
    /\ Go(r, "drop")
    /\ UNCHANGED <<staging, existed, result, faults, old>>

\* rmtree(ignore_errors=True) of a directory; a file, which another recovery may have put in
\* the directory's place, it leaves where it is and says nothing.
DropBackup(r) ==
    /\ At(r, "drop")
    /\ IF backup[r] = NONE \/ IsFile(backup[r])
       THEN Go(r, IF result[r] = "ok" THEN "report" ELSE "cleanup") /\ UNCHANGED backup
       ELSE UNCHANGED pc /\ \E t \in Emptied(backup, r) : backup' = [backup EXCEPT ![r] = t]
    /\ UNCHANGED <<dest, staging, existed, result, faults, old>>

\* on_entry_written emits events; it fails like any other output (Fault).
Report(r) ==
    /\ At(r, "report") /\ Go(r, "cleanup")
    /\ UNCHANGED <<dest, staging, backup, existed, result, faults, old>>

\* The finally block of a recover run, and _discard_prepared_output_dir.
Cleanup(r) ==
    /\ pc[r] \in {"cleanup", "discard", "unlink"}
    /\ IF staging[r] = NONE THEN Go(r, "ended") /\ UNCHANGED staging
       ELSE UNCHANGED pc /\ \E t \in Emptied(staging, r) : staging' = [staging EXCEPT ![r] = t]
    /\ UNCHANGED <<dest, backup, existed, result, faults, old>>

-----------------------------------------------------------------------------
(* recover to a single file: _write_output, _write_atomic_file. *)

MakeTemp(r) ==
    /\ At(r, "temp")
    /\ MakeStaging(r, [f \in {"."} |-> "partial"]) /\ Go(r, "save")
    /\ UNCHANGED <<dest, backup, existed, result, faults, old>>

SaveTemp(r) ==
    /\ At(r, "save")
    /\ MakeStaging(r, File(r)) /\ Go(r, "move")
    /\ UNCHANGED <<dest, backup, existed, result, faults, old>>

MoveTemp(r) == At(r, "move") /\ RenameToDest(r, "tell")

TellFile(r) ==
    /\ At(r, "tell") /\ Go(r, "ended")
    /\ UNCHANGED <<dest, staging, backup, existed, result, faults, old>>

-----------------------------------------------------------------------------
(* backup and mint: a prepared directory. *)

PrepareOutputDir(r) ==
    /\ At(r, "prepare")
    /\ IF dest # NONE THEN Fails(r) /\ UNCHANGED staging
       ELSE MakeStaging(r, EmptyDir) /\ Go(r, "setup") /\ UNCHANGED result
    /\ UNCHANGED <<dest, backup, existed, faults, old>>

\* Render services, debug directory, first events: before the try block.
SetUp(r) ==
    /\ At(r, "setup") /\ Go(r, "render")
    /\ UNCHANGED <<dest, staging, backup, existed, result, faults, old>>

RenderDocument(r) ==
    /\ At(r, "render")
    /\ \E f \in Entries(r) \ DOMAIN staging[r] :
         /\ Stage(r, f)
         /\ IF Entries(r) \subseteq DOMAIN staging[r] \cup {f}
            THEN Go(r, "commit") ELSE UNCHANGED pc
    /\ UNCHANGED <<dest, backup, existed, result, faults, old>>

\* [mutant] What is in the way is removed first.
CommitPreparedForcing(r) ==
    /\ At(r, "commit")
    /\ dest' = staging[r] /\ staging' = [staging EXCEPT ![r] = NONE]
    /\ Go(r, "ended")
    /\ UNCHANGED <<backup, existed, result, faults, old>>

CommitPrepared(r) == At(r, "commit") /\ RenameToDest(r, "ended")

-----------------------------------------------------------------------------

Step(r) ==
    \/ ChooseMode(r) \/ InspectDestination(r) \/ StageDirectory(r) \/ ValidatePaths(r)
    \/ WriteEntry(r) \/ InstallFresh(r) \/ SetAside(r) \/ Promote(r) \/ Restore(r)
    \/ DropBackup(r) \/ Report(r) \/ Cleanup(r)
    \/ MakeTemp(r) \/ SaveTemp(r) \/ MoveTemp(r) \/ TellFile(r)
    \/ PrepareOutputDir(r) \/ SetUp(r) \/ RenderDocument(r) \/ CommitPrepared(r)

Next == \E r \in Runs : Step(r) \/ Fault(r) \/ Interrupt(r) \/ Crash(r)

Spec == Init /\ [][Next]_vars
-----------------------------------------------------------------------------
(* Properties. *)

Complete == {Tree(r) : r \in Runs} \cup {File(r) : r \in Runs} \cup (OldTrees \ {NONE})

\* Whoever looks at the destination, at any moment and after any crash, finds a
\* complete output of one run, what was there before, or nothing: no mixture of
\* runs and no half-written file.
DestinationWhole == dest \in Complete \cup {NONE}

\* What can still be found by name: at the destination, or set aside by a run that
\* has not begun to delete it.
SetAsideTrees == {backup[r] : r \in {q \in Runs : backup[q] \in Complete}}
Recoverable == IF dest # NONE THEN dest
               ELSE IF SetAsideTrees = {} THEN NONE ELSE CHOOSE t \in SetAsideTrees : TRUE

Broken == faults >= 2 \/ \E r \in Runs : result[r] = "torn"

\* The two renames of _commit_recovered_directory_outputs, its rollback and its
\* finally block implement one atomic exchange, as long as at most one operation
\* fails and nobody presses Ctrl-C between the renames.
Atomic == INSTANCE AtomicDestination WITH tree <- Recoverable, broken <- Broken
ImplementsAtomic == Atomic!Spec

Over == \A r \in Runs : At(r, "ended")
Published == dest \in {Tree(r) : r \in Runs} \cup {File(r) : r \in Runs}

\* "via staging with rollback" (outputs.py:240): when every run has ended, at most one
\* operation failed and no output was put in place, the destination is as it was.
RollbackRestores ==
    (Over /\ faults <= 1 /\ ~Published) => dest = old

\* The same where no run was interrupted between its renames.
RollbackUnlessTorn == ~Broken => RollbackRestores

\* A run that was not interrupted and leaves a directory, staged or set aside.
LeavesTree(r) == At(r, "ended") /\ result[r] \in {"ok", "error"}
                 /\ (staging[r] \notin {NONE, EmptyDir} \/ IsDir(backup[r]))

\* No decrypted or rendered file stays behind but the published ones.  Each run that leaves a
\* directory, without having been interrupted, had a removal fail; and a file that was set
\* aside, which nothing removes, is only there when some run has failed or was interrupted:
\* runs that all report success leave none.
NoCopyLeft ==
    /\ Cardinality({r \in Runs : LeavesTree(r)}) <= faults
    /\ (Over /\ \E r \in Runs : IsFile(backup[r])) => \E r \in Runs : result[r] # "ok"

\* However a run ends, its handlers and finally blocks (outputs.py:252-281, 341-350) leave
\* the old output or a new one, and nothing beside it but what NoCopyLeft excepts.
EndsClean == RollbackUnlessTorn /\ NoCopyLeft

\* backup and mint never replace anything, whatever other runs do meanwhile.
PreparedReplacesNothing ==
    [][\A r \in Runs : (At(r, "commit") /\ dest' # dest /\ dest' = Tree(r))
         => dest \in {NONE, EmptyDir}]_vars
=============================================================================
