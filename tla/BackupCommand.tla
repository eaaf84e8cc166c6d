--------------------------- MODULE BackupCommand ---------------------------
(***************************************************************************)
(* `ethernity backup`, its wizard and `ethernity api backup`: from the     *)
(* options and the saved defaults to the published documents.              *)
(***************************************************************************)
EXTENDS CommandRun

Merged(option, default) == IF option # Unset THEN option ELSE default

(***************************************************************************)
(* Options.  t of n is the passphrase quorum, st of sn the signing key's.  *)
(***************************************************************************)
BackupArgs == [f \in DOMAIN ask.opts |->
  IF f \in DOMAIN ask.saved THEN Merged(ask.opts[f], ask.saved[f]) ELSE ask.opts[f]]

BadQuorum(t, n) == \/ t = Unset
                   \/ n = Unset
                   \/ t < 1
                   \/ t > MaxShards
                   \/ n < t
                   \/ n > MaxShards
Given(t, n) == t # Unset \/ n # Unset

\* [mutant] the bounds of the passphrase quorum are not checked
BackupInvalidUnbounded(a) ==
  \/ a.pass \in {"empty", "both"}
  \/ a.chunk = "bad"
  \/ a.words = "bad"
  \/ a.mode \notin {Unset, "embedded", "sharded"}
  \/ Given(a.st, a.sn) /\ (a.mode # "sharded" \/ BadQuorum(a.st, a.sn))
  \/ a.mode = "sharded" /\ (a.t = Unset \/ a.n = Unset)
  \/ (a.t = Unset) # (a.n = Unset)

BackupInvalid(a) ==
  \/ a.pass \in {"empty", "both"}
  \/ a.chunk = "bad"
  \/ a.words = "bad"
  \/ a.mode \notin {Unset, "embedded", "sharded"}
  \/ Given(a.st, a.sn) /\ (a.mode # "sharded" \/ BadQuorum(a.st, a.sn))
  \/ a.mode = "sharded" /\ (a.t = Unset \/ a.n = Unset)
  \/ Given(a.t, a.n) /\ BadQuorum(a.t, a.n)

Quorum(t, n) == IF t = Unset THEN Unset ELSE [t |-> t, n |-> n]

DocumentPlan(sealed, mode, sharding, seedSharding) ==
  [sealed |-> sealed, mode |-> mode, sharding |-> sharding, seed |-> seedSharding]

PlanFromArgs(a) ==
  LET mode == Merged(a.mode, "embedded")
  IN DocumentPlan(a.sealed, mode, Quorum(a.t, a.n),
                  IF mode = "sharded" THEN Quorum(a.st, a.sn) ELSE Unset)

(***************************************************************************)
(* The documents of a plan, in the order in which they are rendered.       *)
(* holds: what a reader who can open the document finds besides the files. *)
(***************************************************************************)
Document(kind, index, quorum, holds) ==
  [kind |-> kind, index |-> index, quorum |-> quorum, holds |-> holds,
   paper |-> plan.paper, dir |-> plan.dir]

ShardDocuments(kind, quorum, secret) ==
  [i \in 1..quorum.n |-> Document(kind, i, quorum, {secret})]

SigningKeySharded(p) == p.sharding # Unset /\ ~p.sealed /\ p.mode = "sharded"

PassphraseShards(p) ==
  IF p.sharding = Unset THEN <<>> ELSE ShardDocuments("shard", p.sharding, "share_of_passphrase")

SigningKeyShards(p) ==
  IF ~SigningKeySharded(p) THEN <<>>
  ELSE ShardDocuments("signing_key_shard", Merged(p.seed, p.sharding), "share_of_signing_key")

\* The ciphertext holds the signing key of an unsealed backup.
Stored(p) == IF p.sealed THEN {} ELSE {"signing_key"}

\* [mutant] the recovery document always shows the passphrase
KeyLinesAlways(p) == {"passphrase"}

KeyLines(p) == IF p.sharding = Unset THEN {"passphrase"} ELSE {}

KitIndexRows(p) == 2 + Len(PassphraseShards(p)) + Len(SigningKeyShards(p))

Documents(p) ==
  << Document("qr", 1, Unset, Stored(p)),
     Document("recovery", 1, p.sharding, Stored(p) \cup KeyLines(p)) >>
  \o (IF ask.kitIndex THEN <<Document("kit_index", KitIndexRows(p), Unset, {})>> ELSE <<>>)
  \o PassphraseShards(p)
  \o SigningKeyShards(p)

(***************************************************************************)
(* The command, up to a resolved plan.                                     *)
(***************************************************************************)
NoInput == ~args.input

\* The API reads numbers and modes as text and refuses what is neither.
Unparsable(o) == Api /\ (Text \in {o.t, o.n, o.st, o.sn} \/ o.mode = "other")

NeedsWizard == NoInput /\ ~Api /\ ask.tty

StartBackup ==
  /\ at = "backup"
  /\ IF Unparsable(ask.opts)
     THEN Raises("INVALID_INPUT") /\ Keep(args)
     ELSE args' = BackupArgs /\ Go("backup_input") /\ UNCHANGED <<stream, status>>
  /\ UNCHANGED <<ask, plan, review, papers, outputs, config>>

CheckInput ==
  /\ at = "backup_input"
  /\ \/ NeedsWizard /\ Go("wizard") /\ UNCHANGED <<stream, status>>
     \/ NoInput /\ ~NeedsWizard /\ Raises("INPUT_REQUIRED")
     \/ ~NoInput /\ Emit(<<Started>>) /\ Go("backup_browsers") /\ Keep(status)
  /\ UNCHANGED <<ask, args, plan, review, papers, outputs, config>>

\* ensure_playwright_browsers may raise; see Breaks.
BackupBrowsers == Works("backup_browsers", "backup_plan", <<Phase("plan")>>)

Placed(p, paper, dir) ==
  [sealed |-> p.sealed, mode |-> p.mode, sharding |-> p.sharding, seed |-> p.seed,
   paper |-> paper, dir |-> dir]

SealedIgnoresShardedKey(p) == p.sealed /\ p.mode = "sharded"

ResolvePlan ==
  /\ at = "backup_plan"
  /\ IF BackupInvalid(args)
     THEN Raises("INVALID_INPUT") /\ Keep(plan)
     ELSE LET p == PlanFromArgs(args)
          IN /\ plan' = Placed(p, Merged(args.paper, ask.configPaper), args.dir)
             /\ Emit((IF SealedIgnoresShardedKey(p) THEN <<Warning("SIGNING_KEY_SHARDING_DISABLED")>> ELSE <<>>)
                     \o <<Phase("input")>>)
             /\ Go("backup_inputs")
             /\ Keep(status)
  /\ UNCHANGED <<ask, args, review, papers, outputs, config>>

\* [mutant] the next phase is announced before the progress of the last one
LoadInputsPhaseFirst == Works("backup_inputs", "prepare", <<Phase("backup"), Progress("input", 1, 1)>>)

LoadInputs == Works("backup_inputs", "prepare", <<Progress("input", 1, 1), Phase("backup")>>)

(***************************************************************************)
(* The wizard.  ask.onboarded names the setting saved at the first run;    *)
(* quick mode does not ask for it again.                                   *)
(***************************************************************************)
AnyQuorum == { [t |-> p[1], n |-> p[2]] : p \in { p \in (1..MaxShards) \X (1..MaxShards) : p[1] <= p[2] } }

UsesSaved(setting) == args.quick /\ ask.onboarded = setting
Half(t, n) == (t = Unset) # (n = Unset)

WizardStarts ==
  /\ at = "wizard"
  /\ \E quick \in IF ask.onboarded = Unset THEN {FALSE} ELSE BOOLEAN :
       args' = [args EXCEPT !.quick = quick]
  /\ Go("wizard_encryption")
  /\ UNCHANGED <<ask, plan, review, stream, papers, outputs, config, status>>

\* A blank answer keeps the passphrase of the options, or asks for the words of a new one.
PromptEncryption ==
  /\ at = "wizard_encryption"
  /\ \/ args.pass \in {Unset, "generate"} /\ args.words = "bad" /\ Raises("INVALID_INPUT") /\ Keep(args)
     \/ /\ \/ args' = [args EXCEPT !.pass = "given"]
           \/ args.pass \notin {Unset, "generate"} /\ Keep(args)
           \/ args.pass \in {Unset, "generate"} /\ args.words # "bad" /\ args' = [args EXCEPT !.words = "good"]
        /\ Go("wizard_recovery")
        /\ UNCHANGED <<stream, status>>
  /\ UNCHANGED <<ask, plan, review, papers, outputs, config>>

ShardingAnswers == IF UsesSaved("sharding") THEN {Quorum(args.t, args.n)} ELSE {Unset} \cup AnyQuorum

SealedAnswers(sharding) == IF sharding = Unset \/ args.sealed THEN {args.sealed} ELSE BOOLEAN

\* [mutant] the saved mode is kept for a sealed backup
ModeAnswersSealedToo(sharding, sealed) ==
  IF sharding = Unset THEN {"embedded"}
  ELSE IF UsesSaved("sharding") /\ args.mode # Unset THEN {args.mode}
  ELSE IF sealed THEN {"embedded"} ELSE {"embedded", "sharded"}

ModeAnswers(sharding, sealed) ==
  IF sharding = Unset \/ sealed THEN {"embedded"}
  ELSE IF UsesSaved("sharding") /\ args.mode # Unset THEN {args.mode}
  ELSE {"embedded", "sharded"}

SeedAnswers(mode) ==
  IF mode # "sharded" THEN {Unset}
  ELSE IF UsesSaved("sharding") THEN {Quorum(args.st, args.sn)}
  ELSE {Unset} \cup AnyQuorum

PromptRecovery ==
  /\ at = "wizard_recovery"
  /\ \/ UsesSaved("sharding") /\ Half(args.t, args.n) /\ Raises("INVALID_INPUT") /\ Keep(args)
     \/ /\ ~(UsesSaved("sharding") /\ Half(args.t, args.n))
        /\ \E sharding \in ShardingAnswers :
             \E sealed \in SealedAnswers(sharding) :
               \E mode \in ModeAnswers(sharding, sealed) :
                 IF mode = "sharded" /\ UsesSaved("sharding") /\ Half(args.st, args.sn)
                 THEN Raises("INVALID_INPUT") /\ Keep(args)
                 ELSE \E seed \in SeedAnswers(mode) :
                   /\ args' = [args EXCEPT !.sealed = sealed, !.mode = mode,
                                 !.t = IF sharding = Unset THEN Unset ELSE sharding.t,
                                 !.n = IF sharding = Unset THEN Unset ELSE sharding.n,
                                 !.st = IF seed = Unset THEN Unset ELSE seed.t,
                                 !.sn = IF seed = Unset THEN Unset ELSE seed.n]
                   /\ Go("wizard_layout")
                   /\ UNCHANGED <<stream, status>>
  /\ UNCHANGED <<ask, plan, review, papers, outputs, config>>

PromptLayout ==
  /\ at = "wizard_layout"
  /\ IF args.paper # Unset \/ UsesSaved("page_size") THEN Keep(args)
     ELSE \E paper \in {"A4", "Letter"} : args' = [args EXCEPT !.paper = paper]
  /\ Go("wizard_inputs")
  /\ UNCHANGED <<ask, plan, review, stream, papers, outputs, config, status>>

\* Paths that cannot be loaded are asked for again.
PromptInputs ==
  /\ at = "wizard_inputs"
  /\ \/ Keep(args)
     \/ ~UsesSaved("output") /\ args' = [args EXCEPT !.dir = "typed"]
  /\ Go("wizard_review")
  /\ UNCHANGED <<ask, plan, review, stream, papers, outputs, config, status>>

WizardPlan == Placed(DocumentPlan(args.sealed, args.mode, Quorum(args.t, args.n), Quorum(args.st, args.sn)),
                     Merged(args.paper, ask.configPaper), args.dir)

SigningLabel(p) ==
  IF p.sharding = Unset THEN "not_applicable"
  ELSE IF p.sealed THEN "not_stored" ELSE p.mode

ReviewRows(p) ==
  [passphrase |-> IF args.pass \in {Unset, "generate"} THEN "generated" ELSE "provided",
   sharding |-> p.sharding, key |-> SigningLabel(p),
   keyShards |-> IF p.sharding # Unset /\ p.mode = "sharded" THEN Merged(p.seed, p.sharding) ELSE Unset,
   sealed |-> p.sealed, paper |-> p.paper, dir |-> p.dir, kitIndex |-> ask.kitIndex]

ShowReview ==
  /\ at = "wizard_review"
  /\ plan' = WizardPlan
  /\ review' = ReviewRows(WizardPlan)
  /\ Go("wizard_proceed")
  /\ UNCHANGED <<ask, args, stream, papers, outputs, config, status>>

\* The options checked are those of the command line with the answers about shards in their place.
EffectiveArgs == [BackupArgs EXCEPT !.t = args.t, !.n = args.n, !.mode = args.mode,
                                    !.st = args.st, !.sn = args.sn, !.words = args.words]

Proceed ==
  /\ at = "wizard_proceed"
  /\ \/ Returns(1)
     \/ BackupInvalid(EffectiveArgs) /\ Raises("INVALID_INPUT")
     \/ ~BackupInvalid(EffectiveArgs) /\ Go("prepare") /\ UNCHANGED <<stream, status>>
  /\ UNCHANGED <<ask, args, plan, review, papers, outputs, config>>

(***************************************************************************)
(* run_backup.                                                             *)
(***************************************************************************)
PreparePayload == Works("prepare", "envelope", <<Phase("prepare")>>)

PrepareEnvelope == Works("envelope", "encrypt", <<Progress("prepare", 1, 1), Phase("encrypt")>>)

\* A ciphertext above the limit raises; see Breaks.
EncryptPayload == Works("encrypt", "split", <<Progress("encrypt", 1, 1), Phase("shard")>>)

ShardTotal == Len(PassphraseShards(plan)) + Len(SigningKeyShards(plan))

CreateShards == Works("split", "chunk", <<Progress("shard", ShardTotal, ShardTotal)>>)

ChunkAndStage ==
  \/ Works("chunk", "inputs", <<>>)
  \/ Works("chunk", "inputs", <<Warning("BACKUP_QR_CHUNK_SIZE_REDUCED")>>)

PrepareRender == Works("inputs", "render", <<Phase("render")>>)

RenderDocument ==
  /\ at = "render"
  /\ IF Len(papers) < Len(Documents(plan))
     THEN /\ papers' = Append(papers, Documents(plan)[Len(papers) + 1])
          /\ Emit(<<Progress("render", Len(papers) + 1, Len(Documents(plan)))>>)
          /\ UNCHANGED <<at, status>>
     ELSE Go("commit") /\ UNCHANGED <<papers, stream, status>>
  /\ UNCHANGED <<ask, args, plan, review, outputs, config>>

Commit ==
  /\ at = "commit"
  /\ outputs' = papers
  /\ papers' = <<>>
  /\ Go("report")
  /\ UNCHANGED <<ask, args, plan, review, stream, config, status>>

(***************************************************************************)
(* What the API reports.  The command line prints a summary.               *)
(***************************************************************************)
EffectiveMode(p) ==
  IF p.sealed /\ p.mode = "sharded" THEN "embedded"
  ELSE IF Len(SigningKeyShards(p)) > 0 THEN "sharded" ELSE p.mode

\* [mutant] the plan's mode is reported as it was asked for
BackupSummaryRaw(p) ==
  [files |-> outputs, sealed |-> p.sealed, sharding |-> p.sharding, mode |-> p.mode,
   seed |-> p.seed, generated |-> args.pass \in {Unset, "generate"}]

BackupSummary(p) ==
  [files |-> outputs, sealed |-> p.sealed, sharding |-> p.sharding, mode |-> EffectiveMode(p),
   seed |-> IF SigningKeySharded(p) THEN p.seed ELSE Unset,
   generated |-> args.pass \in {Unset, "generate"}]

ReportBackup ==
  /\ at = "report"
  /\ ask.command = "backup"
  /\ Emit([i \in DOMAIN outputs |-> Artifact(outputs[i])])
  /\ Go("result")
  /\ UNCHANGED <<ask, args, plan, review, papers, outputs, config, status>>

BackupResult ==
  /\ at = "result"
  /\ ask.command = "backup"
  /\ Emit(<<Result(BackupSummary(plan))>>)
  /\ Go("return")
  /\ UNCHANGED <<ask, args, plan, review, papers, outputs, config, status>>

BackupNext ==
  \/ StartBackup \/ CheckInput \/ BackupBrowsers \/ ResolvePlan \/ LoadInputs
  \/ WizardStarts \/ PromptEncryption \/ PromptRecovery \/ PromptLayout \/ PromptInputs
  \/ ShowReview \/ Proceed
  \/ PreparePayload \/ PrepareEnvelope \/ EncryptPayload \/ CreateShards \/ ChunkAndStage
  \/ PrepareRender \/ RenderDocument \/ Commit \/ ReportBackup \/ BackupResult
=============================================================================
