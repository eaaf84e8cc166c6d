# Ethernity: a verification project

Ethernity turns files into paper: a backup is one encrypted ciphertext, cut into frames that
are printed as QR codes, with a signed AUTH frame beside them and, if the user wishes, the
passphrase and the signing key split over shard documents. Recovery reads the paper back, in
a Python command line (`src/src/ethernity`) or in a browser page that needs nothing else
(`src/kit`). This directory holds TLA+ modules of that program, configurations that
model-check them with TLC, and proofs that TLAPS checks.

1. [What the program consists of](#1-what-the-program-consists-of)
2. [The modules](#2-the-modules)
3. [The runs](#3-the-runs)
4. [The proofs](#4-the-proofs)
5. [Where the code and its documents disagree](#5-where-the-code-and-its-documents-disagree)
6. [What is not modelled](#6-what-is-not-modelled)
7. [Plan](#7-plan)

## 1. What the program consists of

| part | state it keeps | operations | modelled in |
|---|---|---|---|
| **Recovery kit, store** (`kit/app/state`, `actions_common.js`) | one immutable state object with a `revision`; what handlers hold across an `await` | `SET_STATE`, `PATCH_STATE`, `MUTATE_STATE` (each dropped if its base revision is stale), `RESET` | `KitState`, `KitRecovery` |
| **Recovery kit, collecting** (`actions_collect.js`, `frames_apply.js`, `auth.js`, `shards.js`) | collected frames, AUTH payload, shards, cached ciphertext, recovered secret | paste frames, paste shards, the follow-ups that verify and reconstruct | `KitState`, `KitRecovery` |
| **Recovery kit, unlocking** (`actions_recover.js`, `actions_export.js`) | envelope, extracted files, busy flags | decrypt, extract, clear, copy, download | `KitRecovery` |
| **Recovery kit, scanner** (`hooks/useQrScannerRuntime_jsqr.js`, `FrameCollector.jsx`) | session token, camera stream, timer, `<video>` | start, stop, scan loop, typing and adding beside it, unmounting by the offline guard | `KitScanner` |
| **Publishing of outputs** (`cli/shared/io/outputs.py`, `backup/execution.py`, `mint/workflow.py`) | destination, staging and set-aside paths | write a file, write a directory, commit, roll back, discard | `OutputPublishing`, `AtomicDestination` |
| **Recovery planning** (`recover/planning.py`, `recover/key_recovery.py`, `encoding/chunking.py`) | none: a function of the inputs | load, authenticate, unlock; the inspection of the same | `RecoveryPlan` |
| **Recovery input and wizard** (`recover/input_collection.py`, `recover/wizard.py`, `shared/recovery_prompts.py`) | frames and shards collected so far, command line, plan | paste a frame, offer a shard, type, review, agree, write | `InputCollectors`, `RecoverWizard` |
| **Sharding** (`crypto/sharding.py`, `crypto/_shamir_compat.py`) | none | split, check a set, recover, mint replacements | `ShardSets`, `ShamirField` |
| **Minting** (`mint/workflow.py`) | the shard documents in the world | `execute_mint`, `inspect_mint_inputs` | `ShardCustody` |
| **Backup creation** (`backup/*`) | the options merged with saved settings, the plan, what the wizard showed | plan, ask, review, seal, split, render, report | `BackupCommand`; its output directory `OutputPublishing`, its shards `ShardCustody`, its pages `PaperBackup` |
| **The program** (`cli/bootstrap/*`, `cli/app.py`, `cli/features/api`, `mint/workflow.py`) | the event stream, exit code, staged and published files | start-up, defaults, dispatch, the commands of three fronts, exceptions and Ctrl-C | `CommandRun`, `BackupCommand`, `MintCommand`, `CommandLine` |
| **Frames on paper and back** (`encoding/*`, `qr/capacity.py`, `shared/io/frames.py`, `fallback_parser.py`, `kit/workflow.py`) | none | choose a chunk size, cut, scan, type, reassemble | `FrameSets`, `PaperFrames`, `PaperBackup` |
| **Pages** (`render/pages.py`, `layout.py`, `fallback.py`, `layout_policy.py`, `geometry.py`, `pdf_render.py`) | the cursor of the text, line numbers, the pages so far | estimate, grid, place text, trim | `PaperPages` |
| **Configuration** (`config/*`, `cli/features/config`) | config.toml, its .bak and .tmp, the onboarding marker | first-run copy, migration, `config set`, the first-run wizard; copying of templates | `ConfigText`, `UserConfig`; not the templates |
| Byte formats, template markup, the document inspector, packaging | none | pure conversions and presentation | not modelled (section 6) |

**How the parts interact.** The command line's `recover`, `mint` and their `api` twins read
frames, build a plan (`build_recovery_plan`), decrypt, and publish; `mint` builds the same
plan and then splits or interpolates new shards with the signing key that the manifest or a
quorum of signing-key shards gives. Inspection (`api inspect`) walks the same tests in code of
its own, so that a graphical frontend knows beforehand what would fail. `backup`, `mint` and
`recover` share the helpers that stage a directory and rename it. The kit shares no code with
the command line; it reads the same frames. Its handlers share one store: each takes a
snapshot, waits for WebCrypto, scrypt or a decompression, and commits. Its scanner feeds the
paste box or, with a binary code, the adding handler; the offline guard unmounts both. Every
command of the command line exists three times, typed out, guided and as an `api` command that
writes one JSON event a line; all three end in the same functions, and all take their defaults
from the configuration. A backup's ciphertext passes through `choose_frame_chunk_size`,
`chunk_payload` and the page layout onto paper, and comes back by a camera or a keyboard through
the frame readers that recovery and minting begin with.

**What is hard about each part**, and what makes it correct:

* *Kit.* Any number of handlers wait at once, a keystroke or a reset may come between any two
  steps, answers arrive in any order, and one module-global flag (`authStatusPending`) lives
  outside the store. Correct means: what the page says (verified, recovered, cleared) is true
  of what it shows; nothing collected or typed is lost; every busy control is released.
* *Publishing.* Several renames and removals, each of which may fail, may be interrupted by
  Ctrl-C (which runs `finally` but not `except Exception`) or be cut off by a crash, while
  other runs use the same destination. Correct means: whoever looks finds one complete output,
  what was there before, or nothing; a failure restores; no decrypted copy stays behind.
* *Planning and inspection.* Seven ordered tests of the AUTH payload, rescue mode that
  forgives some of them, two code paths that must agree. Correct means: they agree, and
  nothing is planned that the backup's own key does not vouch for.
* *Collectors and wizard.* Frames of several copies in any order; the plan is built twice from
  files that may change in between. Correct means: what is collected is what the planner
  accepts, a patient user gets past the prompt, and what is written is what was reviewed.
* *Shards.* Documents issued years apart, from several splittings and replacements of
  replacements, with another backup's in the same drawer. Correct means: a quorum that is
  accepted gives the true secret; replacements fit the set they complete; only the backup's
  own key signs.
* *Configuration.* Every command may install and migrate the one configuration, several at a
  time, with names they share; a patch reads the file three times and then replaces it; a file
  is read as TOML and written line by line. Correct means: what the user set survives what
  they did not ask for, a save that reports success has saved, one that fails has not, and the
  shard counts always pair.
* *Scanner.* Two awaits in a start (`getUserMedia`, `play`), a timer, and a renderer that makes
  every element anew; clicks, errors and the offline guard come between any two. Correct means:
  a stop is final, no camera stays on, a code that is held up is seen, the box keeps its text.
* *Commands.* Options, saved settings and answers are merged in five places and validated in
  others; the guided backup validates after its review; exceptions and Ctrl-C leave from every
  step. Correct means: a published backup can be opened and shows no secret it should not, what
  was reviewed or asked is what was made, events are in order and end once, reading leaves no
  trace.
* *Paper.* The chunk size changes the number of frames, which changes the size of each; five
  pieces of code compute the room on a page and must agree; text crosses pages in the middle of
  a section; a reader loses, repeats and mixes pieces. Correct means: every code and every token
  is on paper once, in order and inside the margins, and what is read is the whole or refused.

`PROJECT.json` lists 40 hazards at the line where each bites, with the properties that would
catch it.

## 2. The modules

    KitState            the kit's state and its synchronous functions
      KitRecovery       the kit's handlers, split at each await
        MCKitRecovery   instances: one backup, its shards, wrong ones of each
        KitRecovery_proofs
    KitScanner          the kit's camera session, and the page around it
        KitScanner_proofs
    AtomicDestination   what a user may rely on: one atomic exchange
    OutputPublishing    runs that stage, rename, roll back and clean up
        MCOutputPublishing, OutputPublishing_proofs
    FrameSets           when collected frames contradict each other or make up a payload
    ShardSets           splitting, checking, recovering and replacing shards
      RecoveryPlan      planning a recovery, and the inspection of the same (with FrameSets)
        InputCollectors the two interactive collectors
          RecoverWizard the guided recovery
            MCRecoverWizard, RecoverWizard_proofs
        ShardCustody    the shard documents of one backup over any number of mintings
            MCShardCustody, ShardCustody_proofs
    ShamirField         Lagrange interpolation over a small prime field, for the instances
    ConfigText          a configuration's text: read as TOML, written line by line
      UserConfig        the processes that install, migrate, patch and onboard it
        MCUserConfig, UserConfig_proofs
    CommandRun          one run of the program: events, files, exit code
      BackupCommand     backup, its wizard, its API
        MintCommand     mint, its wizard, its API
          CommandLine   start-up, dispatch, the other commands, every end
            MCCommandLine, CommandLine_proofs   23,634 invocations in families
    PaperPages          a document laid out on pages, one block of text at a time
    PaperFrames         chunk sizes, chunks, scanned and typed pieces (with FrameSets)
      PaperBackup       ciphertext to paper and back (with PaperPages)
        MCPaperBackup   sheets, templates and readers
        PaperBackup_proofs   of pages, frames and readers together

Conventions. Definitions keep the names of the source where TLA+ allows it. `NONE` is null, or
an option not given. Cryptography is perfect and named: a digest is a constant operator, a
signature is modelled by the seed that made it (or by a Boolean `genuine`), interpolation is a
constant operator with the assumption that threshold points of one splitting determine the
rest (`LagrangeExact`). Operators marked `[mutant]` are plausible bugs; each shows that some
property would notice it, and no specification uses them.

**KitState, KitRecovery.** `store` is the state object, field by field, without counters,
status wording and text boxes. `inflight[k]` is what the k-th waiting handler holds: its
snapshot (`work`) or what it decrypts. The revision number is not a variable. The reducer only
compares the base revision of a commit with the current one, so all that matters is whether
the store has changed since a handler's snapshot: `Superseded` drops the snapshot of every
waiting handler when somebody commits, and a handler without snapshot finishes without
committing. That keeps the state finite without a bound on revisions. Each handler is an
action up to its `await` (`AddPayloads`, `AddShardPayloads`, `DecryptCiphertext`,
`ExtractEnvelope`, `CopyRecoveredSecret`) and one after it (`Finish...`), and does everything
the handler does on the way, synchronisation of the cached ciphertext and the automatic
recovery included. Guards are the `disabled` attributes of the buttons. `crypto` says what
`crypto.subtle` is in this browser: absent, without Ed25519, or working.

Assumed of microact (`App.jsx:58-62`): effects of a commit run before the next task, so a
handler that starts sees the latest state.

**OutputPublishing.** One process per run, one step per file system operation. `Unwind` and
`UnwindInterrupt` are the exception tables of the code: where an `OSError`, and where a
`KeyboardInterrupt`, takes a run from each step. `Fault(r)` lets the operation at hand fail,
`Interrupt(r)` presses Ctrl-C, `Crash(r)` ends the run on the spot. A tree maps file names to
the run whose data they hold, so that a mixture of runs is visible. `rmtree` removes one file
of a directory at a time, and nothing at all where the path is itself a file. `Casts` says which
of the runs take part in a behaviour. `AtomicDestination` is the abstract specification: something complete is only ever
exchanged for something complete, until the promise is broken; `ImplementsAtomic` maps the
destination or, failing that, a tree that was set aside onto it.

**ShardSets.** `Split`, `Consistent`, `Secret` and `Replacements` follow `_split_secret`,
`validate_shard_set_consistency`, `_recover_secret` and `mint_replacement_shards`; a guard of
the same function stands beside each (`CanSplit`, `Recoverable`, `CanReplace`). A payload is
its header, index, share and signing seed. Versions 1 (no set id) and 2 are both there.
Secrets are one field element: the code cuts them into blocks that are treated alike.

**RecoveryPlan.** `Loads`, `AuthResolves` and `Unlocks` are the three parts of
`build_recovery_plan`; `AuthTests` lists the tests of `_resolve_auth_payload` in order and
`AuthFault` is the first that fails, which decides what rescue mode forgives and what status
is reported. The inspection is written down separately (`InspectedAuthBlocked`,
`UnlockBlocked`, `InspectionRaises`), as it is in the code.

**InputCollectors, RecoverWizard.** A collector is the set of frames it has kept: what it pins
(document, frame count, shard header) can be read off them. The wizard's actions are the
user's answers, its own steps, `Cancel` from any prompt, and `EditFiles`, which changes a file
named on the command line while the wizard waits. Its variables `frames` and `shards` persist
from review to output, `authFile` and `shardFile` are read again, as in the code.

**ShardCustody.** `papers` is every shard document in the world, as the frame it carries.
`Mint` is `execute_mint` as a whole: hand in any documents of both types and perhaps the
passphrase, choose an output (a new set or replacements) for each type, and the documents are
added. It needs the passphrase (or a quorum for it), the authority to sign (the seed in the
manifest, or a quorum of signing-key shards when the backup is sealed), and that this
authority's key is the AUTH payload's. A failing run adds nothing: that it also leaves nothing
behind is `OutputPublishing`'s business. Nothing is ever removed from `papers`: a lost document
is one that nobody hands in. `Offered` is what `_inspect_mint_capabilities` says.

**ConfigText, UserConfig.** A text keeps what the TOML parser and the line-wise writers of
`_toml_support.py` and `install.py` can disagree about: whether it parses, the style in which
`defaults.backup` is written, whether a table header stands above its end, which settings the
parser finds, and which keys stand where the parser gives them to another table. Four settings
stand for all: the page size (any setting outside that table), the two shard counts (a rule
relates them), and the payload codec (the loader requires it and the migration adds it).
`UserConfig` has one process per command, one step per call to the file system: `Check`,
`Create`, `Fill` are `_copy_if_missing`; `Migrate` to `Swap` are `_migrate_user_config`;
`ReadOriginal`, `Reread`, `Write`, `Mark` are `apply_api_config_patch`, `UndoMark` and `Undo`
its `except` block; `Accept`, `Decline`, `ReadChoices` are the wizard of a first run and of
`config --onboard`. Names lead to inodes, because a process that opened `config.toml.tmp` goes
on writing to the file that another one has meanwhile renamed to `config.toml`.
`packaged` is the default file shipped with the program: a wizard whose installation failed
writes its choices there. Assumed: a write lands whole or fails, and one that fails leaves a
text that does not parse; the reads inside one snapshot see one text. A requested path and the
templates are left out, their copying succeeds or fails.

**KitScanner.** `starts` lists the calls of `startScanner`; each goes through the click
(`ClickScan`), the answer of `getUserMedia` (`StreamArrives`) and the answer of `play()`
(`PlayStarts`, which runs the first pass of the loop), or fails (`StartFails`, the `catch` block
that stops whatever session the panel is in). `session`, `stream` and `timer` are the refs,
`attached` is the stream of the `<video>` on the page: a render makes the element anew and only
an effect, while `active`, gives the stream back (`AfterRender`). `Turn` is what `App.jsx` does
when the browser goes online or offline: it takes the panel off, with its clean-up, or mounts a
new one with fresh refs, whose predecessor's unfinished starts go on. `box` is the paste box as
a set of lines; a click's closure sees the box of that moment (`seen`). `live` (running camera
tracks), `mayDeliver`, `overlapped` and `edited` are history variables that no action reads.

**CommandRun, BackupCommand, MintCommand, CommandLine.** `ask` is the command line with the
world it meets (the terminal, the configuration found, the saved defaults, the shards in hand);
`at` is the next step; `args`, `plan` and `review` are what the code passes on under those names
or prints; `stream` is what went to stdout as events, `papers` the staging directory, `outputs`
what was published. A step is the stretch between two events or two things that may fail, so
that `Breaks` (an exception from any of `Fallible`) and `Interrupt` (Ctrl-C) cut a run wherever
the stream shows it. `BackupInvalid`, `MintValid`, `MintArgs` and `BackupArgs` are the merging and
validation functions with their gaps; `EffectiveArgs` is what the guided backup validates after
its review, which is not what it reviewed. A document is its kind, index, quorum, place, paper and
what whoever opens it learns (`holds`). Numbers go from nothing over 0 to one above `MaxShards`,
the model's 255, and `Text` is an argument that is no number.
Recovery, inspection, settings and the kit are short scripts of their events and ends, since
other modules have what they compute.

**FrameSets, PaperFrames.** A frame is its type, document, index, total and data; the data of a
main frame is the interval of the ciphertext it carries. `FrameLen` adds up the header with its
three varints, so that the size of a frame depends on its index and on the number of frames;
`FittingSize`, `LastFitting` and `LargestCode` are the binary searches of the code as recursive
functions. A damaged code or line is `Noise`: magic, lengths and CRC-32 make an error of it.

**PaperPages, PaperBackup.** `LayOut`, `BeginPage`, `PlaceBlock`, `EndText` and `FinishPages` are
`render_frames_to_pdf` and the loops of `build_pages` and `consume_fallback_blocks`, one turn a
step, with every capacity in integers (tenths of a millimetre) and every number a template's
`style.json` or `layout_policy.py` gives in `style`. `cursor` and `lines` are
`FallbackConsumerState`; `pages` and `blocks` what is printed, without positions. `PaperBackup`
has before that the loop of `choose_frame_chunk_size` (`ChooseSize`), the cutting of the kit
(`SplitKit`), and after it a reader who scans or types what was printed and strays
(`ScanCode`, `ScanStray`, `TypeBlock`) as long as they please and then hands it to one of the
readers of the code. The data of the templates is that of the six designs.

## 3. The runs

| run | specification | question | bounds |
|---|---|---|---|
| `kit_collect` | `FairSpec` | Collecting, authenticating, unlocking and extracting: is what is shown earned, is nothing lost, is every control released? | 2 frames, 2 documents, 2 waiting handlers, 10 pastes (partial, contradicting, foreign, wrongly signed and unreadable among them), 3 kinds of browser |
| `kit_shards` | `Spec` | Reconstructing: is the cached ciphertext that of the frames, does a secret belong to the backup it is shown with? | 1 frame, threshold 2, shares of two splittings and another backup, 3 waiting handlers |
| `kit_patient` | `PatientSpec` | Does what the page, the tests and the format promise hold when operations do not overlap? | as above, 1 handler, stored without compression |
| `kit_scanner` | `PatientSpec` | Clicks, camera answers, renders, typing and the offline guard in any order: does a stop end everything, is text kept, does a scan end? | 3 starts, 2 panels, a line, a text code, a binary code |
| `outputs` | `Spec` | Several runs at one destination: is it always whole, do rollbacks restore, what stays behind, do renames implement one exchange? | two recoveries and a backup, or three recoveries, one of a file; up to 2 files per run, 4 old destinations, 2 failing operations, Ctrl-C once per run (once in all with three recoveries), crashes anywhere |
| `recover_wizard` | `PatientSpec` | The guided recovery with every answer, and files that change: is what is written what was reviewed, do planning and inspection agree? | 2 frames, 9 frames to paste, 6 files, 9 shards, 6 shard files, 4 passphrases |
| `shard_custody` | `Spec` | Two mintings from any documents: does every accepted quorum give the secret, do replacements fit? | field of 5, 2 of 3, 3 drawers to begin with, 3 documents of a type handed in |
| `user_config` | `Spec` | Two processes that install, migrate, patch and onboard one configuration: do settings survive, do success and failure mean what they say? | up to 3 commands of 4 kinds; up to 2 errors, kills or edits by hand; 4 of these together; 2 texts to begin with besides none |
| `commands` | `Spec` | Every command from start to exit: do events, results and published documents agree with what was asked, reviewed and permitted? | 23,634 invocations in nine families, shares up to 3 |
| `paper` | `Spec` | From a ciphertext to pages and back: do chunks fit, is all on paper, is what is read whole? | three families, below |
| `outputs_interrupt`, `config_migration` | | section 5 | the smallest instance that shows it |

**Why the bounds are enough for the question asked.**
*Kit.* A race needs a handler that waits and somebody who overtakes it; two waiting handlers
show every such pair, and three (with shards) one more overtaking the overtaker. Two frames
tell partial from complete; one frame in the shard runs keeps the product small where the
frame count plays no role. Every kind of paste that takes another branch is in the set.
*Scanner.* Two starts of one panel overlap, a third shows what an overlap leaves to a later
session; a second panel is where the starts of the first come home. A text code and a binary
one take the two branches of a sighting, the line pasted is what either may overwrite.
*Outputs.* A recovery races another and a backup. A single file can be set aside only by a
recovery that saw a directory, after another has taken that directory away and before it failed
to put its own in place: three recoveries, the second cast, in which one of them may be
interrupted. Two files tell half-written from whole; two failures are needed for one to hit the rollback of the other,
which is also where the promise ends. *Wizard.* Each test of the planner is failed by some
input, each file has a good and some bad contents. *Custody.* A second minting is needed to
use replacements and new sets as inputs of a minting; a field of five has room for three
indices and 0, and four draws separate every splitting; threshold 2 of 3 has one shard too
many to check and one to replace. *Configuration.* A race needs two
commands, and a third sees what they left; one mishap reaches each step that can fail, and a
second the undoing after it. Three commands with a mishap and two with two are covered. The
requests are a patch of each shard count, whose merging with the other the validation must
judge, one with and one without the marker, and the wizard of either kind.
*Commands.* Each family varies one concern and keeps the rest plain: how the program is started
(front, terminal, flags, configuration found and named), the options of a backup, the ones that
are refused, saved settings under options, the guided backup, the options of mint, odd ones,
the guided mint, recovery. In each, counts run over every value that a comparison tells apart
(unset, 0, below, at, above the other count or the limit; 3 stands for 255), the answers of a
wizard over every quorum, and failures and Ctrl-C over every step. *Paper.* The sizing family
has every ciphertext of 1 to 40 bytes under each capacity around the length of an empty frame;
varints change their length at 4 and 16 instead of 128 and 16,384 and 25 frames are the limit,
so that growing the frame count, the index and the data past such a border all happen. The
layout family has the five kinds of document in A4 and Letter with the numbers of the six
template designs, and lengths on both sides of each page break of the codes. The reading family has
sheets so small that two codes or a few lines fill them, heights from too small for anything,
and readers of up to four pieces: codes of two chunkings, another document's, damaged ones,
shards; text with and without its titles; kits whose chunks are pasted in any order.

**What the properties say.**

* `VerifiedIsEarned`, `CacheCoherent`, `SecretMatchesBackup`: what the page shows is true of
  what it holds, although it was computed on snapshots. `ControlsReleased`: no control stays
  busy. `InputsKept`: a late commit takes nothing away that was collected (`CollectedIsKept`) or
  typed (`TypedPassphraseKept`).
* `ClearedShowsNothing`, `CollectedIsEnough` (`ReadySharesRecover` and
  `GenuineBackupVerified`), `ForgedShareNeverUsed`: promises of texts, tests and format, which
  hold for one operation at a time. They fail when operations overlap (section 5).
* `StopIsFinal`: after a stop no camera stays on and no code is taken, provided no start was
  clicked while another was unfinished (for the camera; the second half needs no such proviso).
  `TextSurvives`: a line leaves the box only to be parsed, unless the user changed the box
  during the scan. `ScanEnds`: a code that is held up is seen, whatever is rendered meanwhile.
* `DestinationWhole`, `EndsClean` (`RollbackUnlessTorn` and `NoCopyLeft`),
  `PreparedReplacesNothing`, `ImplementsAtomic`: see section 1. `NoCopyLeft` counts: a directory
  left behind takes a removal that failed, for each run one of its own. A file that was set aside
  does stay, without any failing removal (section 5), but never when all runs report success.
* `PastedBackupIsWhole`, `CollectedShardsAreOneSet`: what the prompts end with is what the
  planner accepts. `InspectionAgrees`: ready if and only if it can be planned.
  `OnlyVouchedIsWritten`: what is written was reviewed and vouched for, across the second plan.
  `PatienceEndsPaste`: the prompt is satisfiable once the first frame is a right one.
* `RecoveredIsSecret`, `SetsStayOne` (`SameSlotSameDocument` and `SetsStayWhole`),
  `MintedByTheBackupsKey`, `OfferIsFaithful`: the custody of shards. The last lists the only
  three ways in which the capabilities offered differ from what minting does.
* `CountsAlwaysPaired`: in every file, after any race, failure or kill. `SettingsKept`,
  `OutcomeIsTrue` (`SavedMeansSaved` and `FailedMeansUnchanged`): of a command that no other
  overlaps, from whatever earlier ones left behind. `ParsedStaysParsed`: fails for one style of
  text (section 5).
* `EventsTellTheStory`: `started` first and once, phases in the documented order, none skipped,
  progress in its phase, one terminal event that agrees with the exit code, with three exceptions
  written into it (section 5): a configuration that cannot be refreshed, Ctrl-C before the command
  begins, Ctrl-C after the result. `ResultTellsTheTruth`: the result names the files published, and
  the artifacts right before it are these files in order. `BackupRecoverable`,
  `SecretsWherePlanned`, `AskedIsMade`: whatever
  mixture of options, saved settings and answers led to it, a published backup can be opened
  with a quorum that can be met, shows no secret that was split or sealed, and is what the
  review or the options said. `MintedWithinReach`: minted shards fit the set they complete.
  `LeavesNoTrace`: help, inspection and reading settings publish nothing and create no configuration.
* `SizesAreBest`: the loop over chunk sizes ends with frames that all fit, no larger ones would
  have fitted with a byte to spare, and it refuses only if none do; a kit's chunks are as
  long as they can be. `TextRunsOn`, `CodesAndTextFit`: all tokens and all codes are on
  paper once, in order, with running titles and line numbers, above the lower margin.
  `ReadsBackOrRefuses`: no reading of any pieces gives anything but the whole of one document,
  and scanning all codes, or typing all text as it is printed, gives it. `PaperIsPrinted`: the loops end.

**Fairness.** `FairSpec` of the kit has weak fairness on the second half of every waiting
handler: the browser settles each promise, and a WebCrypto call, scrypt and a decompression end.
The user owes nothing. `PatientSpec` of the wizard has weak fairness on pasting each frame of
the genuine backup; that is a user who goes on trying the pages at hand, and the property is
only about that user. `PatientSpec` of the scanner has it on `Sighting`: the timer fires, and
somebody holds up a code until it is seen. `Spec` of `PaperBackup` has it on the program's own
steps, which wait for nobody, and not on the reader's. `PatientSpec` of the kit is a
restriction, no fairness. All else is safety.

Deadlock is not checked in the kit, output, custody, configuration, command and paper runs:
there the program may come to rest (nothing waits; every run has ended; every draw or start is
used; a program has exited; a document is refused or read). In the wizard it is checked, with
`Stopped` for the ends, and in the scanner, whose page can always be rendered or turned.

## 4. The proofs

| theorem | of | says |
|---|---|---|
| `TypeCorrect`, `VerifiedIsAlwaysEarned`, `CacheAlwaysCoherent`, `SecretAlwaysMatches`, `BusyAlwaysOwned`, `AcceptedWorkIsCurrent`, `InputsAlwaysKept` | `KitRecovery_proofs` | the kit's invariants, and that nothing collected or typed is lost, for all frames, shards, passphrases, browsers and any number of waiting handlers |
| `ClearedAlwaysShowsNothing`, `CollectedIsAlwaysEnough`, `ForgedSharesNeverUsed` | `KitRecovery_proofs` | under `PatientSpec`: what page, tests and format promise a user who lets one operation end before the next |
| `ScannerInvariant`, `StopIsAlwaysFinal`, `TextAlwaysSurvives` | `KitScanner_proofs` | the camera session, for any number of starts, panels and overlaps |
| `TypeCorrect`, `DestinationAlwaysWhole`, `PreparedNeverReplaces`, `EndsAlwaysClean`, `Refinement` | `OutputPublishing_proofs` | the destination is whole, backup and mint never replace anything, a run that fails has put back what was there, and the runs implement `AtomicDestination`, for any number of runs, files, failures and interrupts |
| `WizardInvariant`, `PastedBackupIsAlwaysWhole`, `CollectedShardsAreAlwaysOneSet`, `InspectionAlwaysAgrees`, `OnlyVouchedIsEverWritten` | `RecoverWizard_proofs` | the guided recovery, for any frames, files, thresholds and passphrases |
| `TypeCorrect`, `RecoveredIsAlwaysSecret`, `SlotsAlwaysAgree`, `SetsAlwaysWhole`, `SetsAlwaysOne`, `MintedIsAlwaysSigned`, `OffersAreFaithful` | `ShardCustody_proofs` | the custody of shards, for any field, limits, thresholds and number of mintings |
| `ConfigTypes`, `CountsStayPaired`, `OutcomesAreTrue`, `SettingsAreKept` | `UserConfig_proofs` | the configuration, for any number of processes, faults, kills and edits by hand |
| `BackupsCanBeRecovered`, `SecretsStayWherePlanned`, `WhatWasAskedIsMade`, `MintingStaysWithinReach`, `ReadingLeavesNoTrace`, `EventsAlwaysTellTheStory`, `ResultsAlwaysTellTheTruth` | `CommandLine_proofs` | every safety property of the program, for every invocation, limit on shares, review, failure and Ctrl-C |
| `SizesAlwaysBest`, `CodesAndTextAlwaysFit`, `TextAlwaysRunsOn`, `AlwaysReadsBackOrRefuses` | `PaperBackup_proofs` | every safety property of paper, for every ciphertext, code capacity, sheet, template and reader: chunk sizes are the best, no code and no token is lost, repeated or off the page, and what is read is one whole document or refused |

**Kit.** Assumed: `KitConstants`, `KitInputs` and `InterpolateType` (types of the constants and
of what is pasted, `NONE` apart from the rest), `NoneIsNoTask` (`NONE` is neither a waiting
handler nor a snapshot). `VerifiedIsEarned` is not inductive: a waiting handler may be about to commit
`verified`. The invariant
`IInv == TypeOK /\ WorkIsCurrent /\ BusyHasOwner /\ CacheCoherent /\ VerifiedIsEarned /\ SecretMatchesBackup`
adds that any snapshot still acceptable was taken from the present store, so that committing it
is a step from the present store. Each handler's commit is reduced to lemmas about the
synchronous functions of `KitState` (what taking a frame, deriving the ciphertext or
reconstructing preserves). `InputsAlwaysKept` follows from it: a commit from a current snapshot
keeps what the handler did not touch. For a patient user
`PInv == IInv /\ Calm /\ Cleared /\ Vouched /\ Concluded` adds that one handler waits at most and
nothing overtakes it (`Calm`), that after a reset only handlers wait which bring nothing back
(`Cleared`), that shares no check is pending for have passed it (`Vouched`), and that what the
pieces allow has been concluded unless its check is pending (`Concluded`).

**Scanner.** Assumed: `ScannerConstants` (types, and that text codes, binary codes and lines
differ). `SInv` says whose each thing is: the starts of a panel have sessions of their own
(`Sessions`), the stream is one of this panel's (`Current`), and without overlaps the one camera
that runs is the present session's (`Accounted`). That a late answer of the camera finds its
session over is what makes a stop final; `Seen` ties the box to what the click's closure saw.

**Outputs.** Assumed: `OutputConstants`. `DestinationWhole` needs to know what every staging
and set-aside tree holds at every step of every run, whatever the others do:
`IInv == TypeOK /\ DestinationWhole /\ \A r : Holds(r)`. The refinement needs one fact more,
which relates runs to each other: when nothing is at the destination but something was set
aside, some run is still bound to bring it back or replace it, or has crashed holding it
(`Held`). `PreparedNeverReplaces` needs no invariant: whatever happens between the look at the
destination and the rename, rename(2) itself puts a directory only where nothing or an empty
directory is. `EndsAlwaysClean` counts: in `EndInv == Held /\ OldKept /\ Counted /\ Explained`
the first two say that as long as the promise holds the first tree can be found, and `Counted`
maps every run that leaves a directory behind to a failure of its own, so that there are no more
of them than failures. `Explained` is about files set aside: where a recovery that saw a directory
finds none, or a file, another has taken it away and is at its promotion, has failed or died
(`Overtaken`); and once a file is set aside there is such a run, two of them while nothing is at
the destination, since one of them may succeed (`FileExplained`). The refinement mapping uses that
trees once set aside are complete until their owner begins to delete them, and `Broken` is where
the promise ends.

**Wizard.** Assumed: `FramesAssumption` (files and pastes hold frames that decode),
`TextAssumption`, and the constants of `ShardSets`. `WInv` says what the collectors hold while
they collect: the frames pasted never clash (`Pasted`), the shards are one set short of its
threshold (`OneSet`), and once agreed to, every later plan has the ciphertext reviewed, though
the files may change. That an inspection agrees with planning is proved check by check over
any input, without an invariant: both are functions of the same pieces.

**Custody.** Assumed: `ShardConstants`; `LagrangeExact`, the one fact about Shamir's scheme;
`BackupAssumption` (the backup is one the program made; no two seeds have one public key);
`IssuedAssumption` (documents that carry this backup's key and a set id were made by
splitting); `PayloadAssumption`. `RecoveredIsSecret` alone is not inductive, since minting
interpolates from what it recovered. The invariant `IInv == TypeOK /\ PapersFaithful` says that
every version 2 document of this backup, however minted, is exactly the document that
splitting would have made under its header and index. The step rests on `OneSplitting`: the
points that `validate_shard_set_consistency` picks (the lowest indices) are as many as the
threshold (`LowestCount`, by ranking the indices), so `LagrangeExact` applies to them; and on
`AuthorityIsSeed`: whatever a mixture of legacy signing-key shards gives, it is compared with
the AUTH payload's key before anything is signed. `OffersAreFaithful` needs `TypeOK` and
`ArgsAssumption` (the requests are those that `_validate_mint_args` lets pass) only: the offer and the
minting are compared check by check.

**Configuration.** Assumed: `SettingsAssumption`, `RequestsAssumption` and `RunsAssumption` (types;
finitely many processes; an inode left free), and `HandTextsAssumption`: what users write pairs the
two shard counts, as a loader would otherwise refuse it, and dotted keys set both or neither;
a patch of one would otherwise complete an unpaired text. `TInv` says that every
file, named or still open, holds a paired text, and with it `CountsStayPaired`. The two theorems
about outcomes have the hypothesis `PlainHands`: users write `[defaults.backup]` under its own
header or not at all. For inline tables and dotted keys the properties are open to the faults
of section 5. `AInv == TInv /\ Distinct /\ Courses /\ AloneInv` adds that names share no
file, which command reaches which step, and for a run nobody overlaps, step by step, what it
has read, saved and still has to undo, from whatever earlier runs left.

**Commands.** Assumed: `UnsetAssumption`, `MaxShardsAssumption`, `ReviewsAssumption` and
`InvocationsAssumption` (the types of the options and saved settings as their parsers leave
them, shards in hand with a quorum of at most the limit; the API has no `kit` command). Four
invariants are proved one on top of the other.
`Path`: which command is at which step, and that it is over when it has an exit code.
`BackupMade == Chosen /\ Planned /\ Rendered`: the options are those given over those
saved until the wizard changes them; the plan is valid and is what they ask for, or is what
the wizard showed; papers, then outputs, are a prefix, then all, of the documents of the plan.
What a published backup shows or withholds is then a question about `Documents(plan)` alone.
`MintMade` is the same for mint; that replacements fit needs the indices in hand and
the missing ones to add up, by ranking (`Ranks`).
`Narrated`: at each step the stream is empty, open in a phase that the step belongs to
(`Open`, `Telling`), or closed by the terminal event that agrees with the exit code (`Closed`, `Ending`);
each action then only has to extend a stream within its phase or by the next phase. `Reported`:
until files are published no artifact was announced, then all of them were, at the end
of the stream, and the result comes right after. For this proof the two properties are stated
by positions in the stream (`InPhase`, `Announced`) and not by filtering it.

**Paper.** Assumed: `BackupsAssumption` (a document's numbers are what `Printable` says: none
negative, a code and a line of some height, a group of some tokens, text wherever a document has
any; a ciphertext that passes the check of its size; strays of a backup's codes are damaged ones,
AUTH and KEY frames, and frames that `chunk_payload` makes of ciphertexts with ids of their own),
`NoiseAssumption` (nothing printed is damaged), `KitAssumption` and `FrameConstants` (types). Not
assumed are a loader's limits: a sheet may be too small for anything and a code too small for
one byte. `IsChunk` stands for the document id, a digest of the ciphertext: no two are alike.

*Pages.* `PagesInv == TextInv /\ CodesInv /\ RowsInv`. `TextRunsOn` relates neighbouring blocks;
that the next block will fit behind the last needs the invariant to tie the cursor and the
line counts to the last block (`StandsAfter`, `FreshLines`), and the pages begun to the page of
that block (`PagesGrow`). A block is never empty, because what room there is is a whole number of
lines and each takes at least one token (`GroupsType`). On the way, `GridType` shows that
the loop which gives up rows until the text has its least number of lines (`layout.py`) never
gives up any. That each code is on one page is arithmetic of where pages start
(`EveryCodeHasAPage`), and that `FinishPages` trims none of them is `PagesInOrder`. No line is
below the margin because the lines printed on the current page and those `left` never exceed what
the page holds (`RowsFit`); a template that claims bonus lines, for a layout of its own, is excepted
from that part of the property.

*Sizes.* `ProgramInv` follows the loop of `choose_frame_chunk_size`. Its refusals mean something
only with `NoneLonger(size)`: whatever size works with a byte to spare gives no longer chunks than
the size tried now, because every step down goes to the best of a binary search. For the
kit, `CutWell` says of the pieces cut so far that each is as long as it can be and begins behind the
one before. What a binary search returns is a statement about a recursive function, which the
theorems of the library cannot give here, since they take an operator as parameter.
`EveryNatural` is the same principle about a set; from it `LoopDefined` and `LoopYields` show once
for all that a loop whose `Descends` rank falls has a value and keeps an invariant (`Stays`), and `Partial` does the same for
sums. Each search is then an instance with the width of its window as rank.

*Reading.* `ReadInv` says that what was read was printed or lay about, and that an outcome is
`Right`. Frames that neither clash nor leave a gap are of one document and one total; so all are
chunks of one size, and the ranges of chunks of one size join to the whole
(`RecoveredIsWhole`, `ChunksMakeWhole`). That all codes suffice is `AllRecover`. That all of
the text suffices needs the pages again: blocks typed in order have their sections in order
(`SectionsInOrder`), stand under a title of their own (`UnderItsTitle`), and since the text runs on
give each section every token (`SectionsSpelled`).

**Only model-checked.** Liveness (`ControlsReleased`, `ScanEnds`, `PatienceEndsPaste`,
`PaperIsPrinted`): the prover has no rule for fairness here. That `ShamirField` satisfies
`LagrangeExact` is checked by TLC for the field of five, as an assumption of each run that uses it;
for every prime it would need the algebra of polynomials. `ParsedStaysParsed` and the property of
`outputs_interrupt` fail (section 5).

## 5. Where the code and its documents disagree

Each has a run whose one property states what the document, comment or test says, and TLC finds
it violated by what the code does. The quotations and steps are in `PROJECT.json`.

| run | what happens |
|---|---|
| `outputs_interrupt` | Ctrl-C between the two renames of a directory recovery: the rollback is in `except Exception`, the `finally` blocks delete both trees. |
| `config_migration` | A configuration with `defaults.backup.x = ...` keys above other tables and without a payload codec: each load appends the codec at the end, where TOML gives it to the last table, until the key is there twice and nothing parses. |

Noticed while reading, and in the modules, but without a run of their own:

*Kit*

* *Start over* while a backup is being decompressed: the late answer writes its files into the
  page that says "State cleared." (`actions_recover.js:64`, `initial.js:70`). A keystroke during
  the signature check of a shard: the removal of a wrongly signed shard is dropped with the
  stale commit, and a later paste combines it (`actions_collect.js:232`; `docs/format.md:455`).
  Shards first, then the backup, a keystroke during its signature check: everything is
  collected, nothing is recovered, nothing tries again (`actions_collect.js:57`;
  `v1_frozen_e2e.test.mjs:93`). Each is a behaviour of `Spec` with three waiting handlers that
  violates a property of `kit_patient`; under `PatientSpec` there is none.
* A start of the scanner that overlaps another leaves the first camera on
  (`useQrScannerRuntime_jsqr.js:122`); `overlapped` excepts it. A scanned text replaces what was
  typed during the scan (`FrameCollector.jsx:75`); `edited` excepts it.
* A kit's loader checks how many chunks were pasted, not their order, so a kit pasted out of
  order starts a broken page; `OpenKit` has it.
* The kit accepts shard payloads of version 1 only (`kit/app/constants.js:27`), the command
  line writes version 2, as `docs/format.md` has it.

*Recovery and minting*

* The inspection of a recovery reads the shards a second time outside its `try`
  (`planning.py:548`): mixed legacy shards make it raise. `InspectionRaises` has it.
* `_inspect_mint_replacement_blockers` calls `_replacement_payloads_from_frames` outside its
  `try` (`workflow.py:894`). `ReplacementRaises` has it.
* The three gaps in `OfferIsFaithful`: a passphrase set of a sealed backup is reported as
  mintable without signing-key shards (`workflow.py:937`) and refused (`workflow.py:1416`),
  while `docs/cli_api.md:297` says the capabilities are per output type and reflect readiness;
  replacements are offered when fewer shards are missing than asked for; legacy signing-key
  shards that yield a wrong seed count as ready.
* The first frame pasted and the first shard offered pin the collector for good; a wrong one can
  only be undone by interrupting (`input_collection.py:269`, `recovery_prompts.py:373`).
* The status printed after a guided recovery is that of the second plan (`wizard.py:382`).
* Mixed version 1 shards of exact quorum are not told apart; `docs/format.md:472` says so.
* The check that a passphrase replacement has its shards ignores scanned ones, while that of the
  signing key counts them (`mint/workflow.py:999`). `MintValid` has it.

*Publishing*

* A set-aside file stays. Two recoveries see the old directory; the first sets it aside; a third,
  of a single file, finds nothing there and renames its file into place; the first fails; the
  second sets the file aside, publishes, and `shutil.rmtree(backup_dir, ignore_errors=True)`
  (`outputs.py:349`) removes nothing, since the path is a file. What the third recovered stays
  beside the destination as `.<name>.bak-*`. `DropBackup` has it, `NoCopyLeft` excepts it.

*Configuration*

* An inline `backup = {...}` table: a patch declares `[defaults.backup]` again and leaves a text
  that does not parse (`_toml_support.py:83`); the next patch then starts over from the packaged
  text without a word. `Written` has it.
* Dotted keys of which some are missing: a patch appends those below another table's header and
  reports success, but the loader does not find them (`_toml_support.py:79`). `Written` has it.
* An error on the second read of a patch counts as a text that does not parse, and every setting
  of the user is replaced by the packaged one (`api_patch.py:171`). `SettingsKept` excepts it.
* The marker is restored before the configuration; if restoring it fails, the configuration
  stays changed (`api_patch.py:129`). `UndoFault` has it.
* A rejected patch has installed the configuration by then (`api_patch.py:91`).
  `tests/unit/test_config_api.py:323` (`..._do_not_initialize_user_config`) says otherwise, but
  asserts it (line 340) after its temporary directory is gone.
* A first copy or a `.bak` cut short by a kill is kept for good, since it exists
  (`install.py:576`, `install.py:698`).

*Commands*

* An `api` command whose refresh of an existing configuration fails ends with exit code 1 and
  without an `error` event (`bootstrap/app.py:303`, `install.py:237`), which `docs/cli_api.md:160`
  does not foresee. `DefaultsPath` has it.
* Ctrl-C during the start-up of an `api` command ends with exit code 130 and no event at all:
  typer (0.24.1 or later) makes it an `Exit(130)`, which `app(standalone_mode=False)` returns and
  `main` passes on (`bootstrap/app.py:632-640`); only `click.Abort` gets its `error` event (line
  633). `docs/cli_api.md:160` has an `error` on every failure. `Interrupt` and `Boot` have it.
* Ctrl-C after the `result` event writes a second terminal event, `CANCELLED`. `Interrupt` has it.
* `api config set` announces the phase `write` after the write (`config/api_handlers.py:71`).
* The guided backup validates its options after the review (`orchestrator.py:765`), and drops
  `--shard-*` and `--signing-key-mode` unless in quick mode (`orchestrator.py:645`).
  `EffectiveArgs` and `PromptRecovery` have it.
* `--signing-key-mode embedded` does not override a saved quorum for signing-key shards: the
  combination is refused (`plan.py:39`). `BackupArgs` has it.
* The mode `sharded` leaves the signing key in the encrypted manifest as well, while the review
  speaks of separate documents. `Stored` has it.
* A failure between the making of the staging directory and the `try` that removes it leaves it
  behind (`backup/execution.py:773`, `mint/workflow.py:1282`); so does Ctrl-C at any later step.
  `Staged` and `Interrupt` have it.
* A branch of the guided backup that would use the quorum given on the command line is never
  reached (`backup/wizard.py:93`).

*Paper*

* The bonus tokens of a template for recovery pages are added twice (`Groups`).
* The bonus lines `style.json` may give to a first page of shards sit in a branch that shard
  documents never take; the first page of their text is limited by an estimate that assumes
  a full grid of codes (`LineCapacity`).
* The search for a chunk size probes the longest chunk under the last index, so it may settle
  for a byte less than would fit (`Probe`).
* The typed text of a backup (one frame of one) and its QR codes (several) are refused together,
  as conflicting frames (`Clash`).
* `MAX_QR_PAYLOAD_CHARS` never binds, and the guards of the page loop against empty sections and
  lines without room are never met.

## 6. What is not modelled

* *Durability.* No `fsync` is issued before the renames; a crash here keeps what was renamed.
  Windows' rename semantics and file systems where rename is not atomic are left out, as is
  output to stdout, which keeps no state.
* *Cryptography.* age, scrypt, BLAKE2b, Ed25519 and GF(2^128) are constants with assumptions.
* *Byte formats.* CBOR, z-base-32, ZIP, gzip and the envelope with its manifest are pure. Of a
  frame, `PaperFrames` has the lengths, not the bytes; which frames a text yields is an input of
  the models, except for text this program printed itself.
* *The templates beside the configuration*, overwritten one by one with the version recorded last
  (`install.py:510`): only that their copying succeeds or fails is in `UserConfig`.
* *Presentation.* Prompts' wording, positions and fonts on a page, the templates' HTML, the
  browser that prints it, DOCX, the pixels of a QR code. Of the kit's rendering only what happens
  to a mounted panel and its `<video>`.
* *Options* that choose no branch of a command (titles, colours, debugging output), and the
  parser of the command line itself, which ends before any effect.
* *Developer tooling*, the document inspector, packaging and CI.

## 7. Plan

Done: the kit with its scanner, publishing, planning, collecting, custody, configuration, the
commands, paper; proofs of every safety property that holds. Open: `TemplateSync`, the templates beside
the configuration, by programs of two versions. One undisturbed run leaves every file as its
version has it; a torn copy is repaired at the next upgrade.
