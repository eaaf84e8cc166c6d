---------------------------- MODULE CommandLine ----------------------------
(***************************************************************************)
(* The program from its start to its exit code: bootstrap, defaults, the   *)
(* home screen, the command and what the exceptions of each part become.   *)
(* Recovery, inspection, settings and the kit are short scripts here; the  *)
(* modules RecoveryPlan, RecoverWizard, ShardCustody and UserConfig hold   *)
(* what they compute.                                                      *)
(*                                                                         *)
(* ask has: front ("cli", "api" or "home"), command, help, tty, init,      *)
(* onboard, explicit (the file of --config: Unset, "good" or "broken"),    *)
(* parses, found (the state of the user's configuration file), opts, saved *)
(* (its defaults), onboarded, configPaper, kitIndex, backup, shards,       *)
(* keyShards, files.                                                       *)
(***************************************************************************)
EXTENDS MintCommand

CONSTANT Invocations    \* the values of ask that are looked at

Commands == {"backup", "mint", "recover", "inspect_recover", "inspect_mint", "config_get", "config_set", "kit"}

\* Outside the API the parser of the options refuses what is no number.
Number(a) == Int \cup {Unset} \cup (IF a.front = "api" THEN {Text} ELSE {})
Name == Names \cup {Unset}

BackupOptions(a) ==
  [input : BOOLEAN, sealed : BOOLEAN, t : Number(a), n : Number(a), mode : Name, st : Number(a), sn : Number(a),
   pass : Name, words : Name, chunk : Name, paper : Name, dir : Name, quick : BOOLEAN]

MintOptions(a) ==
  [input : BOOLEAN, p : BOOLEAN, s : BOOLEAN, t : Number(a), n : Number(a), st : Number(a), sn : Number(a),
   rp : Number(a), rs : Number(a), pass : Name, shards : Name, keys : BOOLEAN, paper : Name, dir : Name]

SavedOptions(saved) ==
  /\ {"dir", "output"} \subseteq DOMAIN saved
  /\ DOMAIN saved \cap {"input", "sealed", "quick"} = {}
  /\ \A f \in DOMAIN saved \cap {"t", "n", "st", "sn"} : saved[f] \in Int \cup {Unset}
  /\ \A f \in DOMAIN saved \ {"t", "n", "st", "sn"} : saved[f] \in Name

\* The shards of one set that a user has.
ShardsInHand == { s \in [t : Nat, n : 0 .. MaxShards, have : SUBSET (1 .. MaxShards)] :
                    1 <= s.t /\ s.t <= s.n /\ s.have \subseteq 1 .. s.n }

\* What a wizard can show; None is not among it.
Reviews == [passphrase : {"generated", "provided"}, sharding : [t : Int, n : Int] \cup {Unset},
            key : Name \cup {"not_applicable", "not_stored"}, keyShards : [t : Int, n : Int] \cup {Unset},
            sealed : BOOLEAN, paper : Name, dir : Name, kitIndex : BOOLEAN]

ASSUME ReviewsAssumption == Unset \notin Reviews

ASSUME InvocationsAssumption ==
  \A a \in Invocations :
    /\ a.front \in {"api", "cli", "home"}
    /\ a.command \in Commands
    /\ a.front = "api" => a.command # "kit"
    /\ {a.help, a.tty, a.init, a.onboard, a.parses, a.kitIndex, a.backup.key, a.backup.auth} \subseteq BOOLEAN
    /\ a.configPaper \in Names
    /\ a.files \in Nat
    /\ SavedOptions(a.saved)
    /\ a.command = "backup" => a.opts \in BackupOptions(a)
    /\ a.command = "mint" => a.opts \in MintOptions(a)
    /\ {a.shards, a.keyShards} \subseteq ShardsInHand

Init ==
  /\ ask \in Invocations
  /\ at = "main"
  /\ args = Unset /\ plan = Unset /\ review = Unset
  /\ stream = <<>> /\ papers = <<>> /\ outputs = <<>>
  /\ config = ask.found
  /\ status = Running

(***************************************************************************)
(* Bootstrap.                                                              *)
(***************************************************************************)
ApiConfig == Api /\ ask.command \in {"config_get", "config_set"}

\* [mutant] the API starts up as the command line does
MainAlwaysStarts ==
  /\ at = "main"
  /\ IF ~ask.parses THEN Raises("INVALID_INPUT")
     ELSE Go(IF ask.help THEN "defaults_path" ELSE "startup") /\ UNCHANGED <<stream, status>>
  /\ UNCHANGED <<ask, args, plan, review, papers, outputs, config>>

\* An error in the arguments ends the program before the callback runs.
Main ==
  /\ at = "main"
  /\ IF ~ask.parses THEN Raises("INVALID_INPUT")
     ELSE Go(IF ask.help \/ Api THEN "defaults_path" ELSE "startup") /\ UNCHANGED <<stream, status>>
  /\ UNCHANGED <<ask, args, plan, review, papers, outputs, config>>

\* run_startup: the browser, --init-config, and the first copy of the configuration.
Startup ==
  /\ at = "startup"
  /\ config' = IF config = "absent" THEN "good" ELSE config
  /\ IF ask.init THEN Returns(0)
     ELSE Go(IF ask.front = "home" /\ ask.tty THEN "onboarding" ELSE "defaults_path") /\ UNCHANGED <<stream, status>>
  /\ UNCHANGED <<ask, args, plan, review, papers, outputs>>

\* The first-run wizard rewrites the settings; UserConfig has its steps.
Onboarding ==
  /\ at = "onboarding"
  /\ config' \in IF ask.onboard THEN {config, "good"} ELSE {config}
  /\ Go("defaults_path")
  /\ UNCHANGED <<ask, args, plan, review, stream, papers, outputs, status>>

\* Where the defaults are read from.  For the API an existing user configuration is refreshed
\* first, and a failure of that is caught nowhere.
DefaultsPath ==
  /\ at = "defaults_path"
  /\ \/ Go(IF ApiConfig \/ ask.help THEN "context" ELSE "defaults") /\ UNCHANGED <<stream, status>>
     \/ /\ Api /\ ~ApiConfig /\ ask.explicit = Unset /\ config # "absent"
        /\ Exits(1) /\ UNCHANGED stream
  /\ UNCHANGED <<ask, args, plan, review, papers, outputs, config>>

ReadDefaults == IF ask.explicit # Unset THEN ask.explicit
                ELSE IF Api /\ config = "absent" THEN "good" ELSE config

LoadDefaults ==
  /\ at = "defaults"
  /\ IF ReadDefaults = "broken" THEN Raises("INVALID_INPUT")
     ELSE Go("context") /\ UNCHANGED <<stream, status>>
  /\ UNCHANGED <<ask, args, plan, review, papers, outputs, config>>

\* The first step of a command has the command's name.
Dispatch ==
  /\ at = "context"
  /\ IF ask.help THEN Returns(0)
     ELSE IF ask.front = "home" /\ ~ask.tty THEN Raises("NO_SUBCOMMAND")
     ELSE Go(ask.command) /\ UNCHANGED <<stream, status>>
  /\ UNCHANGED <<ask, args, plan, review, papers, outputs, config>>

(***************************************************************************)
(* Recovery.  The API takes its output only from the command line.         *)
(***************************************************************************)
RecoverOutput == IF Api THEN ask.opts.output ELSE Merged(ask.opts.output, ask.saved.output)

StartRecover ==
  /\ at = "recover"
  /\ IF Api /\ RecoverOutput = Unset THEN Raises("OUTPUT_REQUIRED") /\ Keep(plan)
     ELSE /\ plan' = [dir |-> Merged(RecoverOutput, "stdout")]
          /\ Emit(<<Started, Phase("plan")>>)
          /\ Go("recover_plan")
          /\ Keep(status)
  /\ UNCHANGED <<ask, args, review, papers, outputs, config>>

PlanRecovery == Works("recover_plan", "decrypt", <<Progress("plan", 1, 1), Phase("decrypt")>>)

DecryptAndExtract == Works("decrypt", "write", <<Progress("decrypt", 1, 1), Phase("write")>>)

Recovered(i) == [kind |-> "recovered_file", index |-> i, dir |-> plan.dir]

\* Several files do not fit on stdout.
WriteRecovered ==
  /\ at = "write"
  /\ IF plan.dir = "stdout" /\ ask.files > 1 THEN Raises("INVALID_INPUT") /\ Keep(papers)
     ELSE IF Len(papers) < ask.files
     THEN /\ papers' = Append(papers, Recovered(Len(papers) + 1))
          /\ UNCHANGED <<at, stream, status>>
     ELSE Go("commit") /\ UNCHANGED <<papers, stream, status>>
  /\ UNCHANGED <<ask, args, plan, review, outputs, config>>

\* A file is reported when it is in its place.
WrittenEvents == [i \in DOMAIN outputs |-> Progress("write", i, Len(outputs))]

ReportRecovery ==
  /\ at = "report"
  /\ ask.command = "recover"
  /\ Emit(WrittenEvents \o [i \in DOMAIN outputs |-> Artifact(outputs[i])]
          \o <<Result([files |-> outputs, dir |-> plan.dir])>>)
  /\ Go("return")
  /\ UNCHANGED <<ask, args, plan, review, papers, outputs, config, status>>

(***************************************************************************)
(* Inspection.                                                             *)
(***************************************************************************)
StartRecoverInspection == Works("inspect_recover", "inspect", <<Started, Phase("plan")>>)
StartMintInspection == Works("inspect_mint", "inspect", <<Started, Phase("plan")>>)

\* Recovery's inspection decrypts when it can; a failure is a blocking issue.
InspectRecovery ==
  /\ ask.command = "inspect_recover"
  /\ \/ Works("inspect", "return", <<Progress("plan", 1, 1), Result([files |-> <<>>, ready |-> FALSE])>>)
     \/ Works("inspect", "return", <<Progress("plan", 1, 1), Phase("decrypt"), Result([files |-> <<>>, ready |-> FALSE])>>)
     \/ Works("inspect", "return", <<Progress("plan", 1, 1), Phase("decrypt"), Progress("decrypt", 1, 1),
                                     Result([files |-> <<>>, ready |-> TRUE])>>)

InspectMint ==
  /\ ask.command = "inspect_mint"
  /\ \E ready \in BOOLEAN :
       Works("inspect", "return", <<Progress("plan", 1, 1), Result([files |-> <<>>, ready |-> ready])>>)

(***************************************************************************)
(* Settings.  UserConfig has what a patch does to the file.                *)
(***************************************************************************)
ConfigGet == Works("config_get", "config_read", <<Started, Phase("load")>>)

ReadSettings == Works("config_read", "return", <<Result([files |-> <<>>])>>)

ConfigSet ==
  /\ at = "config_set"
  /\ IF ~ask.opts.input THEN Raises("CONFIG_INPUT_REQUIRED")
     ELSE Emit(<<Started, Phase("validate")>>) /\ Go("config_apply") /\ Keep(status)
  /\ UNCHANGED <<ask, args, plan, review, papers, outputs, config>>

ApplyPatch ==
  /\ at = "config_apply"
  /\ config' = IF ask.explicit = Unset THEN "good" ELSE config
  /\ Emit(<<Phase("write")>>)
  /\ Go("config_report")
  /\ UNCHANGED <<ask, args, plan, review, papers, outputs, status>>

ReportSettings == Works("config_report", "return", <<Result([files |-> <<>>])>>)

(***************************************************************************)
(* The kit's document is written where it is to be, without staging.       *)
(***************************************************************************)
RenderKit ==
  /\ at = "kit"
  /\ outputs' = <<[kind |-> "kit", index |-> 1, dir |-> Merged(ask.opts.output, Unset)]>>
  /\ Go("return")
  /\ UNCHANGED <<ask, args, plan, review, stream, papers, config, status>>

(***************************************************************************)
(* Ends.                                                                   *)
(***************************************************************************)
Return ==
  /\ at = "return"
  /\ Returns(0)
  /\ UNCHANGED <<ask, args, plan, review, papers, outputs, config>>

\* The steps that call something that may raise: a file, a browser, a codec, a library.
Fallible == {"startup", "onboarding", "defaults", "backup_browsers", "backup_plan", "backup_inputs",
  "wizard", "wizard_review", "prepare", "envelope", "encrypt", "split", "chunk", "inputs", "render",
  "commit", "report", "mint_browsers", "mint_plan", "mint_wizard", "mint_keys_read", "mint_shards", "mint_render",
  "recover_plan", "decrypt", "write", "inspect", "config_read", "config_apply", "kit"}

\* The steps inside the try that discards the staging directory.
Staged == {"render", "commit", "mint_render", "write"}

Breaks ==
  /\ at \in Fallible
  /\ papers' = IF at \in Staged THEN <<>> ELSE papers
  /\ Raises("FAILED")
  /\ UNCHANGED <<ask, args, plan, review, outputs, config>>

\* The steps before a command is called, inside no handler of the program's own but that of the
\* first-run wizard.
Boot == {"main", "startup", "onboarding", "defaults_path", "defaults", "context"}

\* Ctrl-C.  Before the command begins typer, or the wizard's handler, turns it into exit code
\* 130; main() hands that on and reports nothing, to a reader of events neither.  A backup or
\* mint leaves its staged files, since their clean-up is for exceptions only.
Interrupt ==
  /\ status = Running
  /\ papers' = IF ask.command = "recover" THEN <<>> ELSE papers
  /\ IF at \in Boot THEN Returns(130) ELSE Cancels
  /\ UNCHANGED <<ask, args, plan, review, outputs, config>>

Bootstrap == Main \/ Startup \/ Onboarding \/ DefaultsPath \/ LoadDefaults \/ Dispatch
Scripts == \/ StartRecover \/ PlanRecovery \/ DecryptAndExtract \/ WriteRecovered \/ ReportRecovery
           \/ StartRecoverInspection \/ StartMintInspection \/ InspectRecovery \/ InspectMint
           \/ ConfigGet \/ ReadSettings \/ ConfigSet \/ ApplyPatch \/ ReportSettings
           \/ RenderKit

Next == Bootstrap \/ BackupNext \/ MintNext \/ Scripts \/ Return \/ Breaks \/ Interrupt

Spec == Init /\ [][Next]_vars

(***************************************************************************)
(* What the event stream promises (docs/cli_api.md).                       *)
(***************************************************************************)
Done == status # Running
Terminal(e) == e.type \in {"result", "error"}
Terminals == { i \in DOMAIN stream : Terminal(stream[i]) }

\* The phases of a command, in order.
Phases(command) ==
  CASE command = "backup" -> <<"plan", "input", "backup", "prepare", "encrypt", "shard", "render">>
    [] command = "mint" -> <<"plan", "mint", "render">>
    [] command = "recover" -> <<"plan", "decrypt", "write">>
    [] command = "inspect_recover" -> <<"plan", "decrypt">>
    [] command = "inspect_mint" -> <<"plan">>
    [] command = "config_get" -> <<"load">>
    [] command = "config_set" -> <<"validate", "write">>
    [] OTHER -> <<>>

\* Before the i-th event of s, p is the phase announced last; "none": there was none.
InPhase(s, i, p) ==
  IF p = "none" THEN \A k \in 1..(i - 1) : s[k].type # "phase"
  ELSE \E j \in 1..(i - 1) : s[j] = Phase(p) /\ \A k \in (j + 1)..(i - 1) : s[k].type # "phase"

InOrder(s, command) ==
  \A i \in DOMAIN s :
    /\ s[i].type = "started" <=> (i = 1 /\ ~Terminal(s[i]))
    /\ s[i].type = "progress" => s[i].phase # "none" /\ InPhase(s, i, s[i].phase)
    /\ s[i].type = "phase" => \E k \in DOMAIN Phases(command) :
         /\ s[i].phase = Phases(command)[k]
         /\ InPhase(s, i, IF k = 1 THEN "none" ELSE Phases(command)[k - 1])

\* A program that reads the stream can follow the command: nothing but an error comes before
\* `started`, which comes once; phases come in the order of the command, none is skipped, and
\* progress belongs to the phase announced last.  (The run functions of features/*/api_handlers
\* and what they call each emit a part of the sequence.)
EventsInOrder == InOrder(stream, ask.command)

\* However an API command ends, its last event says so: `result` with exit code 0, `error` with
\* 2, CANCELLED with 130; and it is the only such event, unless the run was cancelled after its
\* result.  Three ends have no event at all: help, a configuration that cannot be refreshed
\* (exit code 1), and Ctrl-C before the command begins (exit code 130, no `started` either).
OneTerminalEvent ==
  Done /\ Api /\ ~(ask.help /\ status = 0) /\ ~(stream = <<>> /\ status \in {1, 130}) =>
    /\ Len(stream) \in Terminals
    /\ LET last == stream[Len(stream)]
       IN /\ status = 0 <=> last.type = "result"
          /\ status = 130 <=> last = ErrorEvent("CANCELLED")
          /\ status # 1
    /\ \A i \in Terminals \ {Len(stream)} : stream[i].type = "result" /\ status = 130

\* What a program that only reads the stream can rely on, while the command runs and at its end.
EventsTellTheStory == EventsInOrder /\ OneTerminalEvent

OutputsOf(kind) == { i \in DOMAIN outputs : outputs[i].kind = kind }
IndexesOf(kind) == { outputs[i].index : i \in OutputsOf(kind) }

\* The result names what was made: every file that was published, each announced as an artifact
\* right before it, in that order; for a backup also the quorum of the signing key that its
\* shards really have, and the mode under which they exist.  (BackupResult is built from the
\* plan, not from the files.)
ResultTellsTheTruth ==
  \A i \in DOMAIN stream : stream[i].type = "result" =>
    LET r == stream[i].about
        before == i - Len(outputs)
    IN /\ r.files = outputs
       /\ { j \in DOMAIN stream : stream[j].type = "artifact" } = before..(i - 1)
       /\ \A j \in DOMAIN outputs : stream[before + j - 1] = Artifact(outputs[j])
       /\ ask.command = "backup" =>
            /\ (r.mode = "sharded") = (OutputsOf("signing_key_shard") # {})
            /\ \A j \in OutputsOf("signing_key_shard") : outputs[j].quorum = Merged(r.seed, r.sharding)
            /\ r.seed # Unset => r.mode = "sharded"

(***************************************************************************)
(* What is on paper in the end.                                            *)
(***************************************************************************)
BackupPublished == outputs # <<>> /\ ask.command = "backup"

\* A published backup can be opened again: it has its QR codes, and either the recovery document
\* shows the passphrase or every shard of one quorum, which can be met, was published; the same of
\* a signing key that was split.  No combination of options, saved settings and answers escapes
\* the checks made before the run.  (validate_backup_args runs only after the wizard's review.)
CompleteSet(kind) ==
  \E q \in { outputs[i].quorum : i \in OutputsOf(kind) } :
    /\ 1 <= q.t /\ q.t <= q.n /\ q.n <= MaxShards
    /\ \A i \in OutputsOf(kind) : outputs[i].quorum = q
    /\ IndexesOf(kind) = 1..q.n
    /\ Cardinality(OutputsOf(kind)) = q.n

Shows(secret) == \E i \in DOMAIN outputs : secret \in outputs[i].holds

BackupRecoverable ==
  BackupPublished =>
    /\ OutputsOf("qr") # {} /\ OutputsOf("recovery") # {}
    /\ Shows("passphrase") \/ (OutputsOf("shard") # {} /\ CompleteSet("shard"))
    /\ OutputsOf("signing_key_shard") # {} => CompleteSet("signing_key_shard")
    /\ \A i \in OutputsOf("kit_index") :
         outputs[i].index = Len(outputs) - 1 /\ ask.kitIndex

\* What must not be on paper is not: a passphrase that was split stands on no document, and a
\* sealed backup leaves its signing key nowhere, whole or in shares.
SecretsWherePlanned ==
  BackupPublished =>
    /\ OutputsOf("shard") # {} => ~Shows("passphrase")
    /\ plan.sealed => ~Shows("signing_key") /\ ~Shows("share_of_signing_key")

\* What the wizard showed before it asked to proceed is what was published: the quorums, whether
\* and how the signing key is stored, paper and place.  Without a wizard it is what the options
\* asked for, where they spoke, whatever was saved.  A run that was declined publishes nothing.
AskedIsMade ==
  /\ BackupPublished /\ review # Unset =>
       /\ review.sharding = Unset <=> OutputsOf("shard") = {}
       /\ \A i \in OutputsOf("shard") : outputs[i].quorum = review.sharding
       /\ review.keyShards = Unset <=> OutputsOf("signing_key_shard") = {}
       /\ \A i \in OutputsOf("signing_key_shard") : outputs[i].quorum = review.keyShards
       /\ review.key = "sharded" <=> OutputsOf("signing_key_shard") # {}
       /\ review.sealed <=> ~Shows("signing_key")
       /\ review.kitIndex <=> OutputsOf("kit_index") # {}
       /\ \A i \in DOMAIN outputs : outputs[i].paper = review.paper /\ outputs[i].dir = review.dir
  /\ BackupPublished /\ review = Unset =>
       /\ ask.opts.t # Unset => \E i \in OutputsOf("shard") : outputs[i].quorum.t = ask.opts.t
       /\ ask.opts.n # Unset => \E i \in OutputsOf("shard") : outputs[i].quorum.n = ask.opts.n
       /\ ask.opts.mode = "embedded" => OutputsOf("signing_key_shard") = {}
       /\ ask.opts.sealed <=> ~Shows("signing_key")
       /\ \A i \in DOMAIN outputs : outputs[i].dir = Merged(ask.opts.dir, ask.saved.dir)
  /\ Done /\ ask.command = "backup" /\ status = 1 => outputs = <<>>

\* A run of mint makes something, and what it makes fits: a replacement belongs to the old quorum,
\* has an index that is not in hand and is within that set; a fresh set is complete.  It never
\* makes replacements from shards that do not reach their quorum, whatever was chosen or asked.
Fits(kind, count, given, shards) ==
  OutputsOf(kind) # {} =>
    IF count = Unset THEN CompleteSet(kind)
    ELSE /\ HasQuorum(given, shards)
         /\ IndexesOf(kind) \subseteq Missing(shards)
         /\ Cardinality(OutputsOf(kind)) = Cardinality(IndexesOf(kind))
         /\ Cardinality(IndexesOf(kind)) = count
         /\ \A i \in OutputsOf(kind) : outputs[i].quorum = Kept(shards)

MintedWithinReach ==
  ask.command = "mint" /\ (outputs # <<>> \/ (Done /\ status = 0 /\ at = "done" /\ ~ask.help /\ ~ask.init)) =>
    /\ outputs # <<>>
    /\ Fits("shard", args.rp, ShardsGiven, ask.shards)
    /\ Fits("signing_key_shard", args.rs, args.keys, ask.keyShards)

\* Reading leaves no trace: help, the API's inspections and `config get` publish nothing, and on a
\* machine without a user configuration they create none; nor does any other API command but
\* `config set`.  What stands in an existing one they leave to the refresh that UserConfig models.
\* (Startup writes the first configuration, and the API must not pass through it.)
LeavesNoTrace ==
  /\ (Api /\ ask.command # "config_set") \/ ask.help => config = ask.found
  /\ ask.help \/ ask.command \in {"inspect_recover", "inspect_mint", "config_get", "config_set"}
       => outputs = <<>> /\ papers = <<>>
=============================================================================
