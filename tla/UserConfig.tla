------------------------------ MODULE UserConfig ------------------------------
(***************************************************************************)
(* The user's configuration directory and the processes that install,      *)
(* migrate, patch and onboard it: install.py, api_patch.py and the         *)
(* onboarding wizard.  Every process is a run of one command; a run may be *)
(* overlapped by others, fail at any call to the file system, or be killed *)
(* between any two.                                                        *)
(*                                                                         *)
(* Files have identity: a name leads to an inode, renaming moves the inode *)
(* and an open file keeps writing to the inode it opened.  A write lands   *)
(* whole, or fails; a failed one may leave a text that does not parse.     *)
(* The templates beside the configuration are not part of the state: their *)
(* copying only succeeds or fails here.                                    *)
(***************************************************************************)
EXTENDS ConfigText, FiniteSets

CONSTANTS
  Runs,        \* the processes that can run at one time
  Requests,    \* the commands a run can be started with
  HandTexts,   \* what a user may write into config.toml with an editor
  NoInode,     \* a name that leads to no file
  MaxStarts,   \* bound: how many commands are started
  MaxMishaps,  \* bound: how many errors, kills and edits there are
  MaxEvents    \* bound: how many of both together

(* A request is [kind, asks, mark].  kind is load, any command that only   *)
(* reads the configuration; set, api config set; first, the wizard of a    *)
(* first run; again, config --onboard.  asks maps settings to the values   *)
(* to save, each of its type (_validate_config_values), and mark is what a *)
(* patch asks of the onboarding marker.                                    *)
ASSUME RequestsAssumption ==
  \A q \in Requests :
    /\ q.kind \in {"load", "set", "first", "again"}
    /\ q.mark \in {"keep", "chosen", "none"}
    /\ DOMAIN q.asks \subseteq Settings
    /\ \E v \in Values : \A k \in DOMAIN q.asks : q.asks[k] = v[k]
    /\ q.kind \in {"first", "again"} => q.asks \in Values /\ Consistent(q.asks)

(* What a user writes by hand pairs the two counts; dotted keys, which are *)
(* replaced one by one, set both of them or neither.                       *)
Paired(text) ==
  /\ Consistent(Reads(text, BuiltIn))
  /\ text.layout = "dotted" => ("threshold" \in text.keys <=> "count" \in text.keys)

ASSUME HandTextsAssumption == HandTexts \subseteq {text \in Text : Paired(text)}

Names == {"config", "bak", "tmp"}
(* Every name, and for every run a file it writes and one it reads from,   *)
(* leave one inode free.                                                   *)
Inodes == 1 .. (Cardinality(Names) + 2 * Cardinality(Runs) + 1)

ASSUME RunsAssumption == IsFiniteSet(Runs) /\ NoInode \notin Inodes

(* none: no marker; bare: onboarding was declined; chosen: it configured.  *)
Markers == {"none", "bare", "chosen"}

VARIABLES
  dir,        \* the inode of every name
  data,       \* the text of every inode
  packaged,   \* the default configuration shipped with the program
  marker,     \* the first-run onboarding marker
  run,        \* the state of every process
  budget      \* starts and mishaps still allowed

files == <<dir, data>>
vars == <<dir, data, packaged, marker, run, budget>>

Idle == [pc |-> "idle", request |-> [kind |-> "load", asks |-> << >>, mark |-> "keep"],
         path |-> "config", round |-> 1, out |-> NoInode, in |-> NoInode,
         found |-> TRUE, text |-> Empty, new |-> Empty, before |-> "none",
         alone |-> TRUE, faults |-> 0, misread |-> FALSE, outcome |-> "none"]

-------------------------------------------------------------------------------
(* Files *)

Exists(name) == dir[name] # NoInode
ContentOf(name) == data[dir[name]]

InUse(d, rs) ==
  ({d[n] : n \in Names} \cup {rs[r].out : r \in Runs} \cup {rs[r].in : r \in Runs})
    \ {NoInode}

NewInode == CHOOSE i \in Inodes \ InUse(dir, run) : TRUE

(* The texts once d names the files and rs has them open: an inode nothing *)
(* leads to any more is free again.                                        *)
Kept(texts, d, rs) ==
  [i \in Inodes |-> IF i \in InUse(d, rs) THEN texts[i] ELSE Empty]

Update(texts) == data' = Kept(texts, dir', run')

(* _write_text_atomic: a temporary file of its own, renamed to the name.   *)
Replace(name, text) ==
  /\ dir' = [dir EXCEPT ![name] = NewInode]
  /\ Update([data EXCEPT ![NewInode] = text])

(* Opening for writing truncates the file or makes one. *)
Opened(name) == IF Exists(name) THEN dir[name] ELSE NewInode
Truncate(name) ==
  /\ dir' = [dir EXCEPT ![name] = Opened(name)]
  /\ Update([data EXCEPT ![Opened(name)] = Empty])

-------------------------------------------------------------------------------
(* Runs *)

At(r, pc) == run[r].pc = pc
Go(r, pc) == run' = [run EXCEPT ![r].pc = pc]
Quit(r) == run' = [run EXCEPT ![r] = Idle]

(* The end of a patch that came to writing, as its caller sees it. *)
End(r, outcome) ==
  run' = [run EXCEPT ![r].pc = "end", ![r].outcome = outcome,
                     ![r].new = Empty, ![r].out = NoInode, ![r].in = NoInode]

\* Events are left to be spent.
Left == (MaxStarts - budget.starts) + (MaxMishaps - budget.mishaps) < MaxEvents

Mishap ==
  Left /\ budget.mishaps > 0 /\ budget' = [budget EXCEPT !.mishaps = @ - 1]

Onboards(r) == run[r].request.kind \in {"first", "again"}

(* What a command does with the path it resolved.  The wizard of a first   *)
(* run resolves it for its review and again to write; config --onboard     *)
(* passes on the one it has; others load the text and are done here.       *)
Resolved(r, path) ==
  IF run[r].request.kind = "load" THEN Quit(r)
  ELSE run' = [run EXCEPT ![r].path = path, ![r].out = NoInode, ![r].in = NoInode,
                 ![r].new = Empty,
                 ![r].pc = IF Onboards(r) /\ run[r].round = 1 THEN "ask" ELSE "read"]

(* _ensure_user_config returned False.  A patch refuses to go on; whoever  *)
(* only resolves the path gets that of the packaged text.                  *)
NotInstalled(r) ==
  IF run[r].request.kind = "set" THEN Quit(r) ELSE Resolved(r, "packaged")

(* Other runs are no longer alone once this one has started. *)
Start(r) ==
  /\ At(r, "idle") /\ Left /\ budget.starts > 0
  /\ budget' = [budget EXCEPT !.starts = @ - 1]
  /\ \E q \in Requests :
       /\ q.kind = "first" => marker = "none"
       /\ run' = [s \in Runs |->
            IF s = r
            THEN [Idle EXCEPT !.pc = "check", !.request = q,
                    !.alone = \A t \in Runs \ {r} : run[t].pc \in {"idle", "end"}]
            ELSE IF run[s].pc = "idle" THEN run[s]
            ELSE [run[s] EXCEPT !.alone = FALSE]]
  /\ UNCHANGED <<files, packaged, marker>>

Leave(r) ==
  /\ At(r, "end") /\ Quit(r)
  /\ UNCHANGED <<files, packaged, marker, budget>>

(* Killed: its open files are closed, what it wrote stays. *)
Crash(r) ==
  /\ run[r].pc \notin {"idle", "end"} /\ Mishap
  /\ Quit(r)
  /\ UNCHANGED <<dir, packaged, marker>> /\ Update(data)

(* The user saves config.toml in an editor, or removes it. *)
HandEdit ==
  /\ Mishap
  /\ run' = [s \in Runs |-> IF run[s].pc = "idle" THEN run[s]
                            ELSE [run[s] EXCEPT !.alone = FALSE]]
  /\ UNCHANGED <<packaged, marker>>
  /\ \/ \E text \in HandTexts : Replace("config", text)
     \/ dir' = [dir EXCEPT !["config"] = NoInode] /\ Update(data)

-------------------------------------------------------------------------------
(* _ensure_user_config: copy the packaged text when there is none *)

Check(r) ==
  /\ At(r, "check")
  /\ Go(r, IF Exists("config") THEN "migrate" ELSE "create")
  /\ UNCHANGED <<files, packaged, marker, budget>>

Create(r) ==
  /\ At(r, "create")
  /\ run' = [run EXCEPT ![r].pc = "fill", ![r].out = Opened("config")]
  /\ Truncate("config")
  /\ UNCHANGED <<packaged, marker, budget>>

Fill(r) ==
  /\ At(r, "fill")
  /\ run' = [run EXCEPT ![r].pc = "migrate", ![r].out = NoInode]
  /\ UNCHANGED dir
  /\ Update([data EXCEPT ![run[r].out] = packaged])
  /\ UNCHANGED <<packaged, marker, budget>>

(* _migrate_user_config: the text is read once; a backup that exists, even *)
(* a partial one, is kept; the temporary file has one name for all runs.   *)
Migrate(r) ==
  /\ At(r, "migrate") /\ Exists("config")
  /\ IF Migrates(ContentOf("config"))
     THEN run' = [run EXCEPT ![r].pc = IF Exists("bak") THEN "tmp" ELSE "bak",
                             ![r].new = Migrated(ContentOf("config"))]
     ELSE Go(r, "sync")
  /\ UNCHANGED <<files, packaged, marker, budget>>

OpenBak(r) ==
  /\ At(r, "bak") /\ Exists("config")
  /\ run' = [run EXCEPT ![r].pc = "fillBak", ![r].in = dir["config"],
                        ![r].out = Opened("bak")]
  /\ Truncate("bak")
  /\ UNCHANGED <<packaged, marker, budget>>

FillBak(r) ==
  /\ At(r, "fillBak")
  /\ run' = [run EXCEPT ![r].pc = "tmp", ![r].in = NoInode, ![r].out = NoInode]
  /\ UNCHANGED dir
  /\ Update([data EXCEPT ![run[r].out] = data[run[r].in]])
  /\ UNCHANGED <<packaged, marker, budget>>

OpenTmp(r) ==
  /\ At(r, "tmp")
  /\ run' = [run EXCEPT ![r].pc = "fillTmp", ![r].out = Opened("tmp")]
  /\ Truncate("tmp")
  /\ UNCHANGED <<packaged, marker, budget>>

FillTmp(r) ==
  /\ At(r, "fillTmp")
  /\ run' = [run EXCEPT ![r].pc = "swap", ![r].out = NoInode]
  /\ UNCHANGED dir
  /\ Update([data EXCEPT ![run[r].out] = run[r].new])
  /\ UNCHANGED <<packaged, marker, budget>>

Swap(r) ==
  /\ At(r, "swap") /\ Exists("tmp")
  /\ run' = [run EXCEPT ![r].pc = "sync", ![r].new = Empty]
  /\ dir' = [dir EXCEPT !["config"] = dir["tmp"], !["tmp"] = NoInode]
  /\ Update(data)
  /\ UNCHANGED <<packaged, marker, budget>>

(* The templates are copied, and the configuration is looked up again. *)
Sync(r) ==
  /\ At(r, "sync") /\ Exists("config")
  /\ Resolved(r, "config")
  /\ UNCHANGED <<files, packaged, marker, budget>>

(* The file a step needs is gone: another run renamed it, or the user      *)
(* removed it.                                                             *)
Missing(r) ==
  /\ \/ run[r].pc \in {"migrate", "bak", "sync"} /\ ~Exists("config")
     \/ At(r, "swap") /\ ~Exists("tmp")
  /\ NotInstalled(r)
  /\ UNCHANGED <<files, packaged, marker, budget>>

(* An error of the file system in _ensure_user_config; a write that fails  *)
(* leaves an empty or a partial text.                                      *)
InstallFault(r) ==
  /\ run[r].pc \in {"create", "fill", "migrate", "bak", "fillBak", "tmp",
                    "fillTmp", "swap", "sync"}
  /\ Mishap
  /\ NotInstalled(r)
  /\ UNCHANGED dir
  /\ \/ Update(data)
     \/ run[r].pc \in {"fill", "fillBak", "fillTmp"}
          /\ Update([data EXCEPT ![run[r].out] = Broken])
  /\ UNCHANGED <<packaged, marker>>

-------------------------------------------------------------------------------
(* The commands *)

(* The user applies the reviewed defaults, or keeps what there is. *)
Accept(r) ==
  /\ At(r, "ask")
  /\ run' = [run EXCEPT ![r].round = 2,
               ![r].pc = IF run[r].request.kind = "first" THEN "check" ELSE "read"]
  /\ UNCHANGED <<files, packaged, marker, budget>>

Decline(r) ==
  /\ At(r, "ask")
  /\ Go(r, "mark")
  /\ UNCHANGED <<files, packaged, marker, budget>>

(* apply_first_run_defaults: the text is read, and written with every      *)
(* choice of the wizard.                                                   *)
ReadChoices(r) ==
  /\ At(r, "read") /\ Onboards(r)
  /\ IF run[r].path = "packaged"
     THEN run' = [run EXCEPT ![r].pc = "write",
                    ![r].new = Written(packaged, run[r].request.asks)]
     ELSE IF Exists("config")
     THEN run' = [run EXCEPT ![r].pc = "write",
                    ![r].new = Written(ContentOf("config"), run[r].request.asks)]
     ELSE Quit(r)
  /\ UNCHANGED <<files, packaged, marker, budget>>

(* apply_api_config_patch: the text to restore, when there is a file. *)
ReadOriginal(r) ==
  /\ At(r, "read") /\ ~Onboards(r)
  /\ run' = [run EXCEPT ![r].pc = "reread", ![r].found = Exists("config"),
               ![r].text = IF Exists("config") THEN ContentOf("config") ELSE Empty]
  /\ UNCHANGED <<files, packaged, marker, budget>>

(* A patch merged into the defaults. *)
ValuesPackaged(text) == Reads(packaged, BuiltIn)

(* The values of a snapshot: a text that does not parse has those of the   *)
(* packaged one, which also stand in for what a text does not load.        *)
ValuesOf(text) ==
  IF Loads(text) THEN Reads(text, BuiltIn)
  ELSE Reads(text, Reads(packaged, BuiltIn))

(* The second reading yields the values, with the patch merged into them;  *)
(* a file that cannot be read counts as one that does not parse.           *)
Reread(r) ==
  /\ At(r, "reread")
  /\ \E misread \in BOOLEAN :
       /\ IF misread THEN Mishap /\ Exists("config")
                     ELSE UNCHANGED budget
       /\ LET current == IF misread THEN Broken
                         ELSE IF Exists("config") THEN ContentOf("config") ELSE packaged
              values == Merged(ValuesOf(current), run[r].request.asks)
              base == IF run[r].found /\ current.parses THEN run[r].text ELSE packaged
          IN IF Validated(values)
             THEN run' = [run EXCEPT ![r].pc = "write", ![r].before = marker,
                            ![r].misread = misread,
                            ![r].new = Written(base, values)]
             ELSE Quit(r)
  /\ UNCHANGED <<files, packaged, marker>>

(* Only a patch looks whether the text changes at all. *)
Changes(r) == Onboards(r) \/ ~run[r].found \/ run[r].new # run[r].text

AfterWrite(r) ==
  IF Onboards(r) \/ run[r].request.mark # "keep" THEN Go(r, "mark") ELSE End(r, "ok")

Write(r) ==
  /\ At(r, "write")
  /\ AfterWrite(r)
  /\ IF ~Changes(r) THEN UNCHANGED <<files, packaged>>
     ELSE IF run[r].path = "packaged"
     THEN packaged' = run[r].new /\ UNCHANGED files
     ELSE Replace("config", run[r].new) /\ UNCHANGED packaged
  /\ UNCHANGED <<marker, budget>>

Mark(r) ==
  /\ At(r, "mark")
  /\ marker' = IF ~Onboards(r) THEN run[r].request.mark
               ELSE IF run[r].round = 2 THEN "chosen" ELSE "bare"
  /\ IF Onboards(r) THEN Quit(r) ELSE End(r, "ok")
  /\ UNCHANGED <<files, packaged, budget>>

(* A patch whose write or marker fails is undone; the wizard just ends. *)
CommitFault(r) ==
  /\ run[r].pc \in {"write", "mark"} /\ Mishap
  /\ At(r, "write") => Changes(r)
  /\ IF Onboards(r)
     THEN Quit(r)
     ELSE run' = [run EXCEPT ![r].faults = @ + 1,
            ![r].pc = IF run[r].request.mark = "keep" THEN "undo" ELSE "undoMark"]
  /\ UNCHANGED <<files, packaged, marker>>

(* A restored marker that ends the undoing. *)
UndoMarkOnly(r) ==
  /\ At(r, "undoMark")
  /\ marker' = run[r].before
  /\ End(r, "failed")
  /\ UNCHANGED <<files, packaged, budget>>

UndoMark(r) ==
  /\ At(r, "undoMark")
  /\ marker' = run[r].before
  /\ Go(r, "undo")
  /\ UNCHANGED <<files, packaged, budget>>

Undo(r) ==
  /\ At(r, "undo")
  /\ End(r, "failed")
  /\ IF ~Changes(r) THEN UNCHANGED files
     ELSE IF run[r].found THEN Replace("config", run[r].text)
     ELSE dir' = [dir EXCEPT !["config"] = NoInode] /\ Update(data)
  /\ UNCHANGED <<packaged, marker, budget>>

(* An error while undoing ends the undoing. *)
UndoFault(r) ==
  /\ run[r].pc \in {"undoMark", "undo"} /\ Mishap
  /\ run' = [run EXCEPT ![r].pc = "end", ![r].outcome = "failed", ![r].faults = @ + 1]
  /\ UNCHANGED <<files, packaged, marker>>

(* An error while reading the text to change. *)
ReadFault(r) ==
  /\ At(r, "read") /\ Mishap
  /\ Quit(r)
  /\ UNCHANGED <<files, packaged, marker>>

-------------------------------------------------------------------------------
(* Nothing is installed yet, or the user has a configuration already. *)
Init ==
  /\ \/ /\ dir = [n \in Names |-> NoInode]
        /\ data = [i \in Inodes |-> Empty]
     \/ \E text \in HandTexts :
          /\ dir = [n \in Names |-> IF n = "config" THEN 1 ELSE NoInode]
          /\ data = [i \in Inodes |-> IF i = 1 THEN text ELSE Empty]
  /\ packaged = PackagedText
  /\ marker = "none"
  /\ run = [r \in Runs |-> Idle]
  /\ budget = [starts |-> MaxStarts, mishaps |-> MaxMishaps]

Install(r) ==
  \/ Check(r) \/ Create(r) \/ Fill(r) \/ Migrate(r) \/ OpenBak(r) \/ FillBak(r)
  \/ OpenTmp(r) \/ FillTmp(r) \/ Swap(r) \/ Sync(r) \/ Missing(r) \/ InstallFault(r)

Command(r) ==
  \/ Accept(r) \/ Decline(r) \/ ReadChoices(r) \/ ReadOriginal(r)
  \/ Reread(r) \/ ReadFault(r) \/ Write(r) \/ Mark(r) \/ CommitFault(r)
  \/ UndoMark(r) \/ Undo(r) \/ UndoFault(r)

Next ==
  \/ \E r \in Runs : Start(r) \/ Install(r) \/ Command(r) \/ Leave(r) \/ Crash(r)
  \/ HandEdit

Spec == Init /\ [][Next]_vars

-------------------------------------------------------------------------------
(* Properties *)

(* Whatever runs race, fail or are killed, no file of the directory and    *)
(* not the packaged text ever pairs the shard counts wrongly: every writer *)
(* saves both of them from one validated set of values, so that an update  *)
(* may be lost but never mixes with another (_apply_values_to_text).       *)
CountsAlwaysPaired ==
  /\ Consistent(Reads(packaged, BuiltIn))
  /\ \A n \in Names : Exists(n) => Consistent(Reads(ContentOf(n), BuiltIn))

(* What the text sets explicitly stays set to the same value, but for the  *)
(* settings in changing.                                                   *)
Keeps(text, later, changing) ==
  \A k \in text.keys \ changing :
    k \in later.keys /\ later.values[k] = text.values[k]

Changing(r) ==
  CASE At(r, "write") -> DOMAIN run[r].request.asks
    [] At(r, "undo") -> Settings
    [] OTHER -> {}

(* A run that no other run and no edit overlaps keeps every setting of     *)
(* config.toml it was not asked to change, while it installs, migrates and *)
(* patches, from whatever earlier runs left behind when they were killed   *)
(* or raced; undoing is FailedMeansUnchanged's.  Excepted is a patch whose *)
(* second reading failed: it takes the text for broken and starts over     *)
(* from the packaged one (_snapshot_from_path).                            *)
SettingsKept ==
  [][\A r \in Runs :
       (/\ run'[r] # run[r] /\ run[r].alone /\ run'[r].alone
        /\ ~run[r].misread /\ Exists("config") /\ ContentOf("config").parses)
       => /\ Exists("config")'
          /\ Keeps(ContentOf("config"), ContentOf("config")', Changing(r))]_vars

(* A patch that reports success, alone, has saved what it was asked: the   *)
(* loader finds every value in config.toml, and the marker is as asked.    *)
SavedMeansSaved ==
  \A r \in Runs :
    (/\ At(r, "end") /\ run[r].outcome = "ok" /\ run[r].alone
     /\ run[r].request.kind = "set")
    => /\ Exists("config") /\ Loads(ContentOf("config"))
       /\ \A k \in DOMAIN run[r].request.asks :
            /\ k \in ContentOf("config").keys
            /\ ContentOf("config").values[k] = run[r].request.asks[k]
       /\ run[r].request.mark # "keep" => marker = run[r].request.mark

(* A patch that fails once, alone, leaves the text and the marker as it    *)
(* found them: a failed marker undoes the configuration written before it  *)
(* (apply_api_config_patch).  A second failure may stop the undoing.       *)
FailedMeansUnchanged ==
  \A r \in Runs :
    (/\ At(r, "end") /\ run[r].outcome = "failed" /\ run[r].alone
     /\ run[r].faults = 1 /\ ~run[r].misread)
    => /\ Exists("config") /\ ContentOf("config") = run[r].text
       /\ run[r].request.mark # "keep" => marker = run[r].before

(* The outcome a patch reports is true, either way. *)
OutcomeIsTrue == SavedMeansSaved /\ FailedMeansUnchanged

(* Installing never turns a configuration that parses into one that does   *)
(* not: install.py promises "backward-compatible migrations", and its      *)
(* tests that a second migration changes nothing.                          *)
ParsedStaysParsed ==
  [][\A r \in Runs :
       (/\ run'[r] # run[r] /\ run[r].alone /\ run'[r].alone
        /\ Exists("config") /\ ContentOf("config").parses)
       => Exists("config")' /\ ContentOf("config")'.parses]_vars
===============================================================================
