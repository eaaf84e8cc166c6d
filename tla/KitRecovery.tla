---------------------------- MODULE KitRecovery ----------------------------
(***************************************************************************)
(* The browser recovery kit as a concurrent program: one store that every  *)
(* handler updates optimistically (state/reducer.js), and handlers that    *)
(* start, change the store, wait for the browser (WebCrypto, a             *)
(* decompression stream, the clipboard) and come back to a store that may  *)
(* have moved on (actions_collect.js, actions_recover.js,                  *)
(* actions_export.js).                                                     *)
(*                                                                         *)
(* A handler runs without interruption between two real waits.  Promises   *)
(* that are already settled resume before the next event, after the view   *)
(* has been brought up to date, so only waits on the browser split a       *)
(* handler into a start and a finish.                                      *)
(*                                                                         *)
(* The reducer drops a change whose baseRevision is not the store's        *)
(* revision.  Revisions only grow and are only compared for equality, so   *)
(* instead of revisions the model keeps the outcome of that comparison: a  *)
(* waiting handler holds the working copy it will commit until any change  *)
(* is applied to the store, and NONE from then on.                         *)
(***************************************************************************)
EXTENDS KitState

CONSTANTS
    Pastes,         \* readable contents of one paste or scan, for the backup box
    ShardPastes,    \* likewise for the shard box
    TypedPassphrases, \* what the user may type into the passphrase box
    Content(_),     \* what a ciphertext holds: [key, codec]
    MaxInFlight,    \* bound on handlers waiting at the same time
    CryptoModes     \* the browsers considered

ASSUME KitInputs ==
    /\ Pastes \subseteq UNION {[1..n -> FrameSet] : n \in 0..2}
    /\ ShardPastes \subseteq UNION {[1..n -> FrameSet] : n \in 0..2}
    /\ TypedPassphrases \subseteq Option(Passphrases)
    /\ \A c \in Ciphertexts :
         Content(c) \in [key : Option(Passphrases),
                         codec : {"raw", "gzip", "broken gzip", "malformed"}]
    /\ MaxInFlight \in Nat
    /\ CryptoModes \subseteq {"absent", "rejects", "works"}

VARIABLES
    store,          \* the state the reducer holds and the view shows
    inflight,       \* the waiting handlers, by slot
    crypto          \* this browser's WebCrypto: no Ed25519 API, one that throws, one that works

vars == <<store, inflight, crypto>>

Slots == 1..MaxInFlight

Tasks ==
    [kind : {"verify", "shards", "extract"}, work : Option(States)]
    \cup [kind : {"decrypt"}, bytes : Ciphertexts, typed : Passphrases]
    \cup [kind : {"copy"}]

ASSUME NoneIsNoTask == NONE \notin Tasks /\ NONE \notin States

TypeOK ==
    /\ store \in States /\ FramesFit(store)
    /\ inflight \in [Slots -> Option(Tasks)]
    /\ crypto \in CryptoModes

Init ==
    /\ store = CreateInitialState
    /\ inflight = [k \in Slots |-> NONE]
    /\ crypto \in CryptoModes

-----------------------------------------------------------------------------
(* The store and the waiting handlers. *)

\* [mutant] The reducer accepts a change whatever its baseRevision.
SupersededNever == inflight

\* A change was applied: the revision moved, and no waiting handler's working copy
\* will be accepted any more.  Unlocking and copying hold none: they read the
\* state again when they come back.
Superseded ==
    [k \in Slots |-> IF inflight[k] # NONE /\ "work" \in DOMAIN inflight[k]
                     THEN [inflight[k] EXCEPT !.work = NONE] ELSE inflight[k]]

Commit(s) == store' = s /\ inflight' = Superseded

FreeSlot(k) == inflight[k] = NONE /\ \A j \in Slots : j < k => inflight[j] # NONE

\* The handler applied the change s and now waits as t.
CommitAndWait(s, t) ==
    \E k \in Slots : /\ FreeSlot(k)
                     /\ store' = s
                     /\ inflight' = [Superseded EXCEPT ![k] = t]

Waiting(k, kind) == inflight[k] # NONE /\ inflight[k].kind = kind

\* auth.js keeps authStatusPending while a signature is being checked.
AuthStatusPending == \E k \in Slots : Waiting(k, "verify")

-----------------------------------------------------------------------------
(* Collecting backup frames. *)

\* [mutant] The hash is carried over without its ciphertext.
CopyShardHashOnly(target, source) ==
    [target EXCEPT !.shardFrames = source.shardFrames,
                   !.recoveredShardSecret = source.recoveredShardSecret,
                   !.agePassphrase = source.agePassphrase,
                   !.cipherDocHashHex = source.cipherDocHashHex]

CopyShardAsyncFields(target, source) ==
    [target EXCEPT !.shardFrames = source.shardFrames,
                   !.recoveredShardSecret = source.recoveredShardSecret,
                   !.agePassphrase = source.agePassphrase,
                   !.ciphertext = source.ciphertext,
                   !.cipherDocHashHex = source.cipherDocHashHex]
CopyAuthAndCipherFields(target, source) ==
    [target EXCEPT !.authStatus = source.authStatus,
                   !.ciphertext = source.ciphertext,
                   !.cipherDocHashHex = source.cipherDocHashHex]

\* [mutant] Only the shard box reconstructs the secret.
MainFollowupsNoShards(work, status) ==
    SyncCollectedCiphertext([work EXCEPT !.authStatus = status])

\* runMainAsyncFollowups after updateAuthStatus left `status` in its working copy.
MainFollowups(work, status) ==
    LET s == SyncCollectedCiphertext([work EXCEPT !.authStatus = status])
    IN IF s.recoveredShardSecret = NONE THEN AutoRecoverShardSecret(s) ELSE s

\* The MUTATE_STATE of the follow-ups, then `finally`.
LandMain(s, work) ==
    [CopyShardAsyncFields(CopyAuthAndCipherFields(s, work), work)
        EXCEPT !.isAddingFrames = FALSE]

NotVerified == "doc_hash matches; signature not verified"

\* addPayloads and addScannedPayload.  Only a signature check by the browser
\* suspends them; while one is pending, updateAuthStatus returns at once.
AddPayloads(p) ==
    LET base == [AddPaste(store, p) EXCEPT !.isAddingFrames = TRUE, !.cleared = FALSE]
        outcome == IF AuthStatusPending THEN base.authStatus ELSE AuthOutcome(base)
        work == IF AuthStatusPending THEN base ELSE AuthWork(base)
        status == IF outcome = "verify" THEN NotVerified ELSE outcome
    IN /\ ~store.isAddingFrames
       /\ IF outcome = "verify" /\ crypto # "absent"
          THEN CommitAndWait(base, [kind |-> "verify", work |-> work])
          ELSE Commit(LandMain(base, MainFollowups(work, status)))
       /\ UNCHANGED crypto

\* [mutant] A result that comes too late skips the `finally` block.
FinishPayloadsNoFinally(k) ==
    LET t == inflight[k]
    IN /\ Waiting(k, "verify")
       /\ store' = IF t.work = NONE THEN store
                   ELSE LandMain(store, MainFollowups(t.work, NotVerified))
       /\ inflight' = [Superseded EXCEPT ![k] = NONE]
       /\ UNCHANGED crypto

FinishPayloads(k) ==
    LET t == inflight[k]
        status == CASE crypto = "rejects" -> NotVerified
                    [] t.work.authPayload.genuine -> "verified"
                    [] OTHER -> "invalid signature"
    IN /\ Waiting(k, "verify")
       /\ store' = IF t.work = NONE THEN [store EXCEPT !.isAddingFrames = FALSE]
                   ELSE LandMain(store, MainFollowups(t.work, status))
       /\ inflight' = [Superseded EXCEPT ![k] = NONE]
       /\ UNCHANGED crypto

-----------------------------------------------------------------------------
(* Collecting shards. *)

\* [mutant] A wrong shard is only counted.
VerifyCollectedCounting(s) == s

\* verifyCollectedShardSignatures: a shard whose signature is known to be wrong goes.
VerifyCollected(s) ==
    IF crypto # "works" THEN s
    ELSE LET kept == {i \in DOMAIN s.shardFrames : s.shardFrames[i].genuine}
         IN [s EXCEPT !.shardFrames = [i \in kept |-> s.shardFrames[i]]]

LandShards(s, work) ==
    [CopyShardAsyncFields(s, work) EXCEPT !.isAddingShards = FALSE]

\* addShardPayloads and addScannedShardPayload.
AddShardPayloads(p) ==
    LET parsed == [AddShardPaste(store, p) EXCEPT !.isAddingShards = TRUE]
    IN /\ ~store.isAddingShards
       /\ IF DOMAIN parsed.shardFrames # {} /\ crypto # "absent"
          THEN CommitAndWait(parsed, [kind |-> "shards", work |-> parsed])
          ELSE Commit(LandShards(parsed, AutoRecoverShardSecret(parsed)))
       /\ UNCHANGED crypto

FinishShardPayloads(k) ==
    LET t == inflight[k]
    IN /\ Waiting(k, "shards")
       /\ store' = IF t.work = NONE THEN [store EXCEPT !.isAddingShards = FALSE]
                   ELSE LandShards(store, AutoRecoverShardSecret(VerifyCollected(t.work)))
       /\ inflight' = [Superseded EXCEPT ![k] = NONE]
       /\ UNCHANGED crypto

-----------------------------------------------------------------------------
(* Unlocking, extracting, and the small actions. *)

CanDecrypt == /\ store.agePassphrase # NONE /\ ~store.conflicts
              /\ store.ciphertext # NONE \/ AllFrames(store)
              /\ ~store.isDecrypting

\* [mutant] Unlocking always empties the passphrase box.
RecoveredForgetting(s, bytes, typed) ==
    [s EXCEPT !.decryptedEnvelope = bytes, !.extractedFiles = bytes,
              !.isDecrypting = FALSE, !.recoveryComplete = TRUE,
              !.agePassphrase = NONE]

Recovered(s, bytes, typed) ==
    [s EXCEPT !.decryptedEnvelope = bytes, !.extractedFiles = bytes,
              !.isDecrypting = FALSE, !.recoveryComplete = TRUE,
              !.agePassphrase = IF @ = typed THEN NONE ELSE @]

\* decryptCiphertext.  The decryption itself blocks; only inflating a
\* gzip-coded payload waits.  A failure before that ends the handler.
DecryptCiphertext ==
    LET prep == [store EXCEPT !.extractedFiles = NONE, !.decryptedEnvelope = NONE,
                              !.ciphertext = IF @ = NONE THEN Reassembled(store) ELSE @]
        bytes == prep.ciphertext
        started == [prep EXCEPT !.isDecrypting = TRUE]
    IN /\ CanDecrypt
       /\ IF AssemblyFails(store)
          THEN Commit([store EXCEPT !.extractedFiles = NONE, !.decryptedEnvelope = NONE])
          ELSE IF Content(bytes).key # store.agePassphrase \/ Content(bytes).codec = "malformed"
          THEN Commit(prep)
          ELSE IF Content(bytes).codec = "raw"
          THEN Commit(Recovered(started, bytes, store.agePassphrase))
          ELSE CommitAndWait(started, [kind |-> "decrypt", bytes |-> bytes,
                                       typed |-> store.agePassphrase])
       /\ UNCHANGED crypto

\* It writes onto the latest state, whatever happened while it waited.
FinishDecrypt(k) ==
    LET t == inflight[k]
    IN /\ Waiting(k, "decrypt")
       /\ store' = IF Content(t.bytes).codec = "gzip" THEN Recovered(store, t.bytes, t.typed)
                   ELSE [store EXCEPT !.isDecrypting = FALSE]
       /\ inflight' = [Superseded EXCEPT ![k] = NONE]
       /\ UNCHANGED crypto

\* extractEnvelope changes nothing before it waits, and commits its snapshot.
ExtractEnvelope ==
    LET work == [store EXCEPT !.extractedFiles = store.decryptedEnvelope]
    IN /\ store.decryptedEnvelope # NONE
       /\ IF Content(store.decryptedEnvelope).codec = "raw" THEN Commit(work)
          ELSE \E k \in Slots :
                 /\ FreeSlot(k)
                 /\ inflight' = [inflight EXCEPT
                      ![k] = [kind |-> "extract", work |-> work]]
                 /\ UNCHANGED store
       /\ UNCHANGED crypto

FinishExtract(k) ==
    LET t == inflight[k]
    IN /\ Waiting(k, "extract")
       /\ IF t.work # NONE
          THEN store' = t.work /\ inflight' = [Superseded EXCEPT ![k] = NONE]
          ELSE UNCHANGED store /\ inflight' = [inflight EXCEPT ![k] = NONE]
       /\ UNCHANGED crypto

ClearOutput ==
    /\ store.extractedFiles # NONE
    /\ Commit([store EXCEPT !.extractedFiles = NONE])
    /\ UNCHANGED crypto

DownloadCipher ==
    /\ AllFrames(store) /\ ~store.conflicts
    /\ Commit([SyncCollectedCiphertext(store) EXCEPT !.cleared = FALSE])
    /\ UNCHANGED crypto

\* downloadZip only rewrites a status line, which still moves the revision.
DownloadZip ==
    /\ store.extractedFiles # NONE
    /\ Commit(store)
    /\ UNCHANGED crypto

CopyRecoveredSecret ==
    /\ store.recoveredShardSecret # NONE
    /\ \E k \in Slots : FreeSlot(k) /\ inflight' = [inflight EXCEPT
                                                     ![k] = [kind |-> "copy"]]
    /\ UNCHANGED <<store, crypto>>

FinishCopy(k) ==
    /\ Waiting(k, "copy")
    /\ inflight' = [Superseded EXCEPT ![k] = NONE]
    /\ UNCHANGED <<store, crypto>>

\* updateField on the passphrase box, and on one of the two text boxes.
TypePassphrase(v) ==
    /\ v # store.agePassphrase
    /\ Commit([store EXCEPT !.agePassphrase = v])
    /\ UNCHANGED crypto
TypeText == Commit(store) /\ UNCHANGED crypto

\* [mutant] A field added to the state but not to its initial value.
ResetAllForgetting ==
    /\ Commit([CreateInitialState EXCEPT !.recoveryComplete = store.recoveryComplete])
    /\ UNCHANGED crypto

ResetAll == Commit(CreateInitialState) /\ UNCHANGED crypto

-----------------------------------------------------------------------------

User ==
    \/ \E p \in Pastes : AddPayloads(p)
    \/ \E p \in ShardPastes : AddShardPayloads(p)
    \/ \E v \in TypedPassphrases : TypePassphrase(v)
    \/ TypeText
    \/ ResetAll
    \/ DecryptCiphertext
    \/ ExtractEnvelope
    \/ ClearOutput
    \/ DownloadCipher
    \/ DownloadZip
    \/ CopyRecoveredSecret

Finish(k) == \/ FinishPayloads(k) \/ FinishShardPayloads(k) \/ FinishDecrypt(k)
             \/ FinishExtract(k) \/ FinishCopy(k)

Next == User \/ \E k \in Slots : Finish(k)

Spec == Init /\ [][Next]_vars

\* The browser settles every promise it was given; the user need do nothing.
FairSpec == Spec /\ \A k \in Slots : WF_vars(Finish(k))

\* A user who waits for one operation to end before starting the next.
Idle == \A k \in Slots : inflight[k] = NONE
PatientNext == (Idle /\ User) \/ \E k \in Slots : Finish(k)
PatientSpec == Init /\ [][PatientNext]_vars
-----------------------------------------------------------------------------
(* Properties. *)

\* "verified" is shown only for a complete backup whose hash the AUTH payload
\* names, with a genuine signature and one document id.  auth.js decides it on a
\* working copy, across a wait, and a late answer must not reach another backup.
VerifiedIsEarned ==
    store.authStatus = "verified" =>
        /\ store.authPayload # NONE /\ store.authPayload.genuine
        /\ AllFrames(store)
        /\ Digest(Reassembled(store)) = store.authPayload.hash
        /\ store.docIdHex = store.authDocIdHex

\* The cached ciphertext and hash are those of the collected frames, although
\* they are computed on working copies and copied back later.
CacheCoherent ==
    /\ store.ciphertext # NONE =>
         AllFrames(store) /\ store.ciphertext = Reassembled(store)
    /\ store.cipherDocHashHex # NONE =>
         store.ciphertext # NONE /\ store.cipherDocHashHex = Digest(store.ciphertext)

\* A busy control always belongs to a waiting handler that will release it: no
\* late snapshot brings a busy flag back.
BusyHasOwner ==
    /\ store.isAddingFrames => \E k \in Slots : Waiting(k, "verify")
    /\ store.isAddingShards => \E k \in Slots : Waiting(k, "shards")
    /\ store.isDecrypting => \E k \in Slots : Waiting(k, "decrypt")

\* A working copy that the reducer would still accept was computed from the state
\* it will be merged into: the comparison of revisions is all that keeps answers
\* about an earlier collection out (actions_collect.js:51-64, 199-238).
WorkIsCurrent ==
    \A k \in Slots :
        /\ (Waiting(k, "verify") /\ inflight[k].work # NONE) =>
             AuthOutcome(store) = "verify" /\ inflight[k].work = AuthWork(store)
        /\ (Waiting(k, "shards") /\ inflight[k].work # NONE) => inflight[k].work = store
        /\ (Waiting(k, "extract") /\ inflight[k].work # NONE) =>
             inflight[k].work = [store EXCEPT !.extractedFiles = store.decryptedEnvelope]

\* A reconstructed secret is shown only beside the complete backup that its
\* shards name: format.md requires mismatched KEY payloads to be rejected.
SecretMatchesBackup ==
    store.recoveredShardSecret # NONE =>
        /\ AllFrames(store) /\ store.shardHeader # NONE
        /\ Digest(Reassembled(store)) = store.shardHeader.docHash

\* Between two resets collected evidence is only added to: frames and the AUTH
\* payload stay, and a share goes only when its signature was found wrong.
CollectedIsKept ==
    [][\/ ResetAll
       \/ /\ \A i \in DOMAIN store.mainFrames :
               i \in DOMAIN store'.mainFrames /\ store'.mainFrames[i] = store.mainFrames[i]
          /\ store.authPayload \in {NONE, store'.authPayload}
          /\ \A i \in DOMAIN store.shardFrames :
               \/ i \in DOMAIN store'.shardFrames
                  /\ store'.shardFrames[i].share = store.shardFrames[i].share
               \/ ~store.shardFrames[i].genuine /\ crypto = "works"]_vars

\* What the user typed as passphrase is replaced only by typing, by a reset, or
\* once it has unlocked a backup; shard recovery fills the box only when empty.
TypedPassphraseKept ==
    [][\/ store'.agePassphrase = store.agePassphrase \/ store.agePassphrase = NONE
       \/ ResetAll \/ \E v \in TypedPassphrases : TypePassphrase(v)
       \/ /\ store'.agePassphrase = NONE /\ store'.recoveryComplete
          /\ store'.extractedFiles # NONE
          /\ Content(store'.extractedFiles).key = store.agePassphrase]_vars

\* Nothing that was collected or typed is lost by the steps of any handler, its own or
\* one that was waiting: actions_collect.js:231-239 and actions_recover.js:63-80 write on
\* states that they did not start from.
InputsKept == CollectedIsKept /\ TypedPassphraseKept

\* Every busy control is released again.
ControlsReleased ==
    /\ store.isAddingFrames ~> ~store.isAddingFrames
    /\ store.isAddingShards ~> ~store.isAddingShards
    /\ store.isDecrypting ~> ~store.isDecrypting

\* While the view says "State cleared." nothing of an earlier recovery is shown.
ClearedShowsNothing ==
    store.cleared => /\ store.extractedFiles = NONE /\ store.decryptedEnvelope = NONE
                     /\ ~store.recoveryComplete /\ store.authStatus = "missing"

\* Where the browser can check signatures, no secret is reconstructed from a
\* share whose signature is wrong.
ForgedShareNeverUsed ==
    [][(/\ crypto = "works"
        /\ store'.recoveredShardSecret \notin {NONE, store.recoveredShardSecret})
       => \A i \in UsedShares(store') : store'.shardFrames[i].genuine]_vars

\* Once the frames and enough matching shares are collected and nothing is
\* waiting, the secret has been recovered, whichever was collected first.
ReadySharesRecover ==
    (/\ Idle /\ EnoughShards(store) /\ AllFrames(store)
     /\ ~Oversized(Reassembled(store))
     /\ store.shardHeader.docHash = Digest(Reassembled(store)))
    => store.recoveredShardSecret # NONE

\* Once a complete backup and its genuine AUTH payload are collected without a
\* conflict and nothing is waiting, the view says so.
GenuineBackupVerified ==
    (/\ Idle /\ crypto = "works" /\ store.authPayload # NONE /\ store.authPayload.genuine
     /\ AllFrames(store) /\ ~Oversized(Reassembled(store)) /\ ~store.authConflicts
     /\ store.docIdHex = store.authDocIdHex
     /\ store.authPayload.hash = Digest(Reassembled(store)))
    => store.authStatus \in {"verified", "invalid payload"}

\* When nothing is waiting, all that the collected pieces allow has been concluded from
\* them, in whichever order they came: the backup is verified and the secret recovered
\* (actions_collect.js:49-65, 197-239; the shard-first test of v1_frozen_e2e.test.mjs).
CollectedIsEnough == ReadySharesRecover /\ GenuineBackupVerified
=============================================================================
