--------------------------- MODULE RecoverWizard ---------------------------
(***************************************************************************)
(* The guided recovery (recover/wizard.py): a person gives the backup and  *)
(* the key material step by step, reviews the plan, and chooses where the  *)
(* files go.  The plan is built anew for the review and again before the   *)
(* output step, and each time the files named on the command line are      *)
(* read again; they may have changed while the wizard was waiting.         *)
(*                                                                         *)
(* The disjuncts of Next are the person's answers, the wizard's own steps, *)
(* and the change of a file.  An error message that leads back to the same *)
(* prompt changes nothing and is left out.                                 *)
(***************************************************************************)
EXTENDS InputCollectors

CONSTANTS
    BackupFiles,    \* what one scan, text or payload file may hold
    PastedFrames,   \* frames that may be pasted one by one
    ShardFrames,    \* shard frames that may be offered one by one
    AuthFiles,      \* what the --auth-payloads-file may hold
    ShardFiles,     \* what the --shard-payloads-file may hold
    Passphrases,    \* what may be typed or given on the command line; NONE: nothing
    Key(_),         \* the passphrase a ciphertext opens with, or NONE if it was never encrypted
    GenuineFrames   \* the frames a patient user has (used by fairness only)

\* Frames and shard payloads come out of the decoders, which refuse any others.
ASSUME FramesAssumption ==
    /\ \A F \in BackupFiles \cup AuthFiles \cup ShardFiles : \A f \in F : ValidFrame(f)
    /\ \A f \in PastedFrames \cup ShardFrames : ValidFrame(f)
    /\ \A f \in ShardFrames : f.type = "key" /\ f.data # NONE => WellFormed(f.data)

VARIABLES
    args,           \* command line: [passphrase, unsigned]
    stage,          \* where the wizard is
    frames,         \* frames of the backup, as collected
    shards,         \* shard frames, as collected
    passphrase,     \* as typed
    authFile,       \* what the auth file holds now; {}: the option is not given
    shardFile,      \* what the shard file holds now; {}: the option is not given
    plan,           \* the plan last built, or NONE
    reviewed,       \* the plan the user agreed to (observes only)
    output          \* what was decrypted and, at the end, written: a ciphertext or NONE

vars == <<args, stage, frames, shards, passphrase, authFile, shardFile, plan, reviewed, output>>

Stages == {"input", "paste", "keys", "shards", "review", "agree", "output", "agree_to_write",
           "written", "failed", "cancelled"}

\* What the next plan is built from.
Inputs ==
    [frames |-> frames, extra |-> authFile,
     shards |-> IF shards # {} THEN shards ELSE shardFile,
     passphrase |-> passphrase, unsigned |-> args.unsigned]

Init ==
    /\ args \in [passphrase : Passphrases, unsigned : BOOLEAN]
    /\ stage = "input"
    /\ frames = {} /\ shards = {} /\ passphrase = args.passphrase
    /\ authFile \in AuthFiles \cup {{}}
    /\ shardFile \in ShardFiles \cup {{}}
    /\ plan = NONE /\ reviewed = NONE /\ output = NONE

-----------------------------------------------------------------------------
(* Stage 1: the backup. *)

\* A file or a scan gives all of its frames at once.
ReadBackup ==
    /\ stage = "input"
    /\ \E F \in BackupFiles : frames' = F
    /\ stage' = "keys"
    /\ UNCHANGED <<args, shards, passphrase, authFile, shardFile, plan, reviewed, output>>

StartPaste ==
    /\ stage = "input" /\ stage' = "paste"
    /\ UNCHANGED <<args, frames, shards, passphrase, authFile, shardFile, plan, reviewed, output>>

PasteFrame(f) ==
    /\ stage = "paste"
    /\ Fits(frames, f)
    /\ frames' = frames \cup {f}
    /\ stage' = IF Complete(frames', args.unsigned) THEN "keys" ELSE "paste"
    /\ UNCHANGED <<args, shards, passphrase, authFile, shardFile, plan, reviewed, output>>

-----------------------------------------------------------------------------
(* Stage 2: the keys (_prompt_key_material). *)

KeysOnCommandLine ==
    /\ stage = "keys"
    /\ shardFile # {} \/ passphrase # NONE
    /\ stage' = "review"
    /\ UNCHANGED <<args, frames, shards, passphrase, authFile, shardFile, plan, reviewed, output>>

TypePassphrase ==
    /\ stage = "keys" /\ shardFile = {} /\ passphrase = NONE
    /\ passphrase' \in Passphrases \ {NONE}
    /\ stage' = "review"
    /\ UNCHANGED <<args, frames, shards, authFile, shardFile, plan, reviewed, output>>

StartShards ==
    /\ stage = "keys" /\ shardFile = {} /\ passphrase = NONE
    /\ stage' = "shards"
    /\ UNCHANGED <<args, frames, shards, passphrase, authFile, shardFile, plan, reviewed, output>>

\* Files of shards are offered frame by frame too; those after the quorum are not read.
OfferShard(f) ==
    /\ stage = "shards"
    /\ ShardFits(shards, f, "passphrase")
    /\ shards' = shards \cup {f}
    /\ stage' = IF AtQuorum(shards') THEN "review" ELSE "shards"
    /\ UNCHANGED <<args, frames, passphrase, authFile, shardFile, plan, reviewed, output>>

-----------------------------------------------------------------------------
(* Stages 3 and 4: review, decrypt, output. *)

BuildPlan(next) ==
    /\ \/ /\ Plannable(Inputs)
          /\ plan' = Plan(Inputs) /\ stage' = next
       \/ /\ ~Plannable(Inputs)
          /\ plan' = plan /\ stage' = "failed"
    /\ UNCHANGED <<args, frames, shards, passphrase, authFile, shardFile, reviewed, output>>

Review == stage = "review" /\ BuildPlan("agree")

\* The user agrees; the ciphertext of the plan is decrypted with its passphrase.
Agree ==
    /\ stage = "agree"
    /\ reviewed' = plan
    /\ \/ /\ Key(plan.ciphertext) = plan.passphrase
          /\ output' = plan.ciphertext /\ stage' = "output"
       \/ /\ Key(plan.ciphertext) # plan.passphrase
          /\ output' = NONE /\ stage' = "failed"
    /\ UNCHANGED <<args, frames, shards, passphrase, authFile, shardFile, plan>>

\* [mutant] The output step reads the recovery input again as well.
RebuildFromAnyFile ==
    /\ stage = "output"
    /\ \E F \in BackupFiles :
         LET in == [Inputs EXCEPT !.frames = F] IN
         /\ Plannable(in)
         /\ plan' = Plan(in) /\ stage' = "agree_to_write" /\ output' = Ciphertext(in)
    /\ UNCHANGED <<args, frames, shards, passphrase, authFile, shardFile, reviewed>>

Rebuild == stage = "output" /\ BuildPlan("agree_to_write")

AgreeToWrite ==
    /\ stage = "agree_to_write" /\ stage' = "written"
    /\ UNCHANGED <<args, frames, shards, passphrase, authFile, shardFile, plan, reviewed, output>>

\* The user declines, or interrupts any prompt.
Cancel ==
    /\ stage \in {"input", "paste", "keys", "shards", "agree", "agree_to_write"}
    /\ stage' = "cancelled"
    /\ UNCHANGED <<args, frames, shards, passphrase, authFile, shardFile, plan, reviewed, output>>

\* Somebody edits a file while the wizard waits for an answer.
EditFiles ==
    /\ stage \in {"input", "paste", "keys", "shards", "agree"}
    /\ \/ authFile # {} /\ authFile' \in AuthFiles /\ UNCHANGED shardFile
       \/ shardFile # {} /\ shardFile' \in ShardFiles /\ UNCHANGED authFile
    /\ UNCHANGED <<args, stage, frames, shards, passphrase, plan, reviewed, output>>

Stopped == stage \in {"written", "failed", "cancelled"} /\ UNCHANGED vars

Next ==
    \/ ReadBackup \/ StartPaste \/ \E f \in PastedFrames : PasteFrame(f)
    \/ KeysOnCommandLine \/ TypePassphrase
    \/ StartShards \/ \E f \in ShardFrames : OfferShard(f)
    \/ Review \/ Agree \/ Rebuild \/ AgreeToWrite \/ Cancel
    \/ EditFiles
    \/ Stopped

Spec == Init /\ [][Next]_vars

\* A patient user sooner or later pastes each frame that still fits.
PatientSpec == Spec /\ \A f \in GenuineFrames : WF_vars(PasteFrame(f))

-----------------------------------------------------------------------------
(* Properties. *)

PastingEnds == stage = "paste" /\ stage' = "keys"

\* Pasting ends with one whole backup: the prompt counts frames as they come, and what it
\* ends with is what reassemble_payload and the checks on duplicates accept.
PastedBackupIsWhole ==
    [][PastingEnds => /\ ~Clash(frames') /\ OfType(frames', "key") = {}
                      /\ LET M == OfType(frames', "main")
                         IN Reassembles(M) \/ TooLarge(Joined(M))]_vars

\* The shards collected one by one are never refused for being mixed: they are a quorum of
\* one set with distinct indices, as recover_passphrase demands.
CollectedShardsAreOneSet ==
    stage = "review" /\ shards # {} =>
      /\ Distinct(Payloads(shards)) /\ Consistent(Payloads(shards), FALSE)
      /\ Quorate(shards)

\* What the API's inspection reports as ready is what a recovery with the same inputs
\* accepts: the two walk the same tests in code of their own.
InspectionAgrees ==
    stage = "review" => (InspectedReady(Inputs) <=> Plannable(Inputs))

\* Without --rescue-mode nothing is decrypted that no genuine AUTH payload vouches for, and
\* shards count only if they name the key that made it.
Vouched(p) ==
    /\ ~args.unsigned => \E f \in AuthFrames(Inputs) :
         f.data # NONE /\ f.data.genuine /\ f.data.hash = Hash(p.ciphertext)
    /\ p.pub # NONE => \A f \in Inputs.shards :
         f.data.header.pub = p.pub /\ f.data.header.hash = Hash(p.ciphertext)

\* The files written are those of the backup that was reviewed, opened with its key.
WrittenIsReviewed ==
    stage \in {"agree_to_write", "written"} =>
      /\ output = reviewed.ciphertext /\ output = plan.ciphertext
      /\ Key(output) = reviewed.passphrase

\* What lands on disk was seen and vouched for, although the plan behind the review and the
\* one behind the output are built at different times, from files that may have changed in
\* between (wizard.py:293-316, 323-389).
OnlyVouchedIsWritten ==
    [][WrittenIsReviewed' /\ (plan' # plan => Vouched(plan'))]_vars

\* A user whose first frame belongs to the backup, and who pastes its frames until the
\* prompt is content, gets past it, whatever else was pasted in between.
PatienceEndsPaste ==
    \A f \in GenuineFrames : (stage = "paste" /\ frames = {f} /\ f.type = "main") ~> stage # "paste"
=============================================================================
