------------------------------ MODULE KitState ------------------------------
(***************************************************************************)
(* The collected state of the browser recovery kit (kit/app) and the       *)
(* synchronous functions that transform it: taking a decoded MAIN, AUTH or *)
(* KEY frame into the state (frames_apply.js), deriving the ciphertext and *)
(* its hash (frames_cipher.js), deciding what the authentication status is *)
(* before any signature is checked (auth.js) and reconstructing a split    *)
(* secret (shards.js).                                                     *)
(*                                                                         *)
(* Display counters (duplicates, ignored, errors), status wording and the  *)
(* two text boxes are abstracted away; a counter that the code only        *)
(* compares with zero (conflicts, authConflicts) is a Boolean.             *)
(*                                                                         *)
(* Operators marked [mutant] are plausible bugs, used only to confirm that *)
(* the properties would notice them.                                       *)
(***************************************************************************)
EXTENDS Naturals, FiniteSets, Sequences

CONSTANTS
    NONE,           \* null, and an empty text box
    Docs,           \* doc_id values found in frame headers
    MaxTotal,       \* bound on a document's frame count
    Chunks,         \* MAIN frame data
    Hashes,         \* BLAKE2b-256 values
    Signatures,     \* signature bytes
    Passphrases,    \* non-blank passphrase texts and recovered secrets
    Shares,         \* share bytes
    MaxShares,      \* bound on a share index
    Headers,        \* shard set headers: [threshold, keyType, docHash]
    Digest(_),      \* BLAKE2b-256 of a ciphertext
    Oversized(_),   \* is a ciphertext longer than MAX_CIPHERTEXT_BYTES
    Interpolate(_)  \* Shamir combination of a map from index to share

Option(S) == S \cup {NONE}

Ciphertexts == UNION {[0..(n - 1) -> Chunks] : n \in 1..MaxTotal}

AuthPayloads == [hash : Hashes, signature : Signatures, genuine : BOOLEAN]
ShardPayloads == [header : Headers, index : 1..MaxShares, share : Shares,
                  signature : Signatures, genuine : BOOLEAN]

\* What decodeFrame and the payload decoders accept.  An AUTH or KEY frame whose
\* CBOR payload does not decode carries NONE.
MainFrameSet ==
    {f \in [type : {"main"}, doc : Docs, total : 1..MaxTotal,
            index : 0..(MaxTotal - 1), data : Chunks] : f.index < f.total}
AuthFrameSet == [type : {"auth"}, doc : Docs, payload : Option(AuthPayloads)]
KeyFrameSet == [type : {"key"}, doc : Docs, payload : Option(ShardPayloads)]
FrameSet == MainFrameSet \cup AuthFrameSet \cup KeyFrameSet

ASSUME KitConstants ==
    /\ MaxTotal \in Nat /\ MaxShares \in Nat
    /\ NONE \notin Docs /\ NONE \notin 1..MaxTotal /\ NONE \notin Hashes
    /\ NONE \notin Ciphertexts /\ NONE \notin Headers
    /\ NONE \notin AuthPayloads /\ NONE \notin ShardPayloads
    /\ NONE \notin Passphrases
    /\ Headers \subseteq [threshold : Nat \ {0}, keyType : {"passphrase", "signing-seed"},
                          docHash : Hashes]
    /\ \A c \in Ciphertexts : Digest(c) \in Hashes /\ Oversized(c) \in BOOLEAN
ASSUME InterpolateType ==
    \A D \in SUBSET (1..MaxShares) : \A f \in [D -> Shares] : Interpolate(f) \in Passphrases

AuthStatuses ==
    {"missing", "pending", "conflict", "conflicting auth payloads", "invalid payload",
     "doc_id mismatch", "ciphertext error", "waiting for main frames", "doc_hash mismatch",
     "verified", "invalid signature", "doc_hash matches; signature not verified"}

MainMaps == UNION {[D -> Chunks] : D \in SUBSET (0..(MaxTotal - 1))}
ShardMaps == UNION {[D -> ShardPayloads] : D \in SUBSET (1..MaxShares)}

States ==
    [mainFrames : MainMaps,
     docIdHex : Option(Docs),
     total : Option(1..MaxTotal),
     conflicts : BOOLEAN,
     shardFrames : ShardMaps,
     shardDocIdHex : Option(Docs),
     shardHeader : Option(Headers),
     recoveredShardSecret : Option(Passphrases),
     authPayload : Option(AuthPayloads),
     authDocIdHex : Option(Docs),
     authStatus : AuthStatuses,
     authConflicts : BOOLEAN,
     ciphertext : Option(Ciphertexts),
     cipherDocHashHex : Option(Hashes),
     decryptedEnvelope : Option(Ciphertexts),   \* named by the ciphertext it came from
     extractedFiles : Option(Ciphertexts),      \* likewise; NONE is no files
     agePassphrase : Option(Passphrases),
     isDecrypting : BOOLEAN,
     isAddingFrames : BOOLEAN,
     isAddingShards : BOOLEAN,
     recoveryComplete : BOOLEAN,
     cleared : BOOLEAN]              \* frameStatus reads "State cleared."

\* Frame numbers stay below the document's frame count, and both are pinned together
\* with the document id.
FramesFit(s) ==
    /\ DOMAIN s.mainFrames \subseteq (IF s.total = NONE THEN {} ELSE 0..(s.total - 1))
    /\ s.total # NONE => s.docIdHex # NONE

Empty == [x \in {} |-> NONE]

CreateInitialState ==
    [mainFrames |-> Empty, docIdHex |-> NONE, total |-> NONE, conflicts |-> FALSE,
     shardFrames |-> Empty, shardDocIdHex |-> NONE, shardHeader |-> NONE,
     recoveredShardSecret |-> NONE, authPayload |-> NONE, authDocIdHex |-> NONE,
     authStatus |-> "missing", authConflicts |-> FALSE, ciphertext |-> NONE,
     cipherDocHashHex |-> NONE, decryptedEnvelope |-> NONE, extractedFiles |-> NONE,
     agePassphrase |-> NONE, isDecrypting |-> FALSE, isAddingFrames |-> FALSE,
     isAddingShards |-> FALSE, recoveryComplete |-> FALSE, cleared |-> TRUE]

-----------------------------------------------------------------------------
(* Taking frames in. *)

Put(m, k, v) == [i \in DOMAIN m \cup {k} |-> IF i = k THEN v ELSE m[i]]

\* [mutant] A frame that contradicts a collected one replaces it.
AddMainFrameReplacing(s, f) ==
    IF s.docIdHex \notin {NONE, f.doc} THEN s
    ELSE IF s.total \notin {NONE, f.total} THEN [s EXCEPT !.conflicts = TRUE]
    ELSE [s EXCEPT !.docIdHex = f.doc, !.total = f.total,
                   !.mainFrames = Put(@, f.index, f.data),
                   !.ciphertext = NONE, !.cipherDocHashHex = NONE]

AddMainFrame(s, f) ==
    IF s.docIdHex \notin {NONE, f.doc} THEN s
    ELSE IF s.total \notin {NONE, f.total} THEN [s EXCEPT !.conflicts = TRUE]
    ELSE IF f.index \in DOMAIN s.mainFrames
         THEN IF s.mainFrames[f.index] = f.data THEN s ELSE [s EXCEPT !.conflicts = TRUE]
    ELSE [s EXCEPT !.docIdHex = f.doc, !.total = f.total,
                   !.mainFrames = Put(@, f.index, f.data),
                   !.ciphertext = NONE, !.cipherDocHashHex = NONE]

AddAuthFrame(s, f) ==
    IF s.authDocIdHex \notin {NONE, f.doc} \/ s.docIdHex \notin {NONE, f.doc}
    THEN [s EXCEPT !.authConflicts = TRUE]
    ELSE IF f.payload = NONE THEN [s EXCEPT !.authStatus = "invalid payload"]
    ELSE IF s.authPayload = NONE
         THEN [s EXCEPT !.authPayload = f.payload, !.authDocIdHex = f.doc,
                        !.authStatus = "pending"]
    ELSE IF s.authPayload.signature # f.payload.signature
         THEN [s EXCEPT !.authConflicts = TRUE, !.authStatus = "conflicting auth payloads"]
    ELSE s

\* addFrame: KEY frames pasted into the backup box are ignored.
AddFrame(s, f) ==
    CASE f.type = "auth" -> AddAuthFrame(s, f)
      [] f.type = "main" -> AddMainFrame(s, f)
      [] OTHER -> s

\* The document id is pinned before the payload is decoded; the first payload
\* that decodes pins the set header, and a repeated share is replaced when only
\* its signature differs.
AddShardFrame(s, f) ==
    IF f.type # "key" \/ s.docIdHex \notin {NONE, f.doc}
       \/ s.shardDocIdHex \notin {NONE, f.doc}
    THEN s
    ELSE LET p == [s EXCEPT !.shardDocIdHex = f.doc]
             q == [p EXCEPT !.shardHeader = f.payload.header]
         IN IF f.payload = NONE THEN p
            ELSE IF s.shardHeader \notin {NONE, f.payload.header} THEN p
            ELSE IF /\ f.payload.index \in DOMAIN s.shardFrames
                    /\ \/ s.shardFrames[f.payload.index].share # f.payload.share
                       \/ s.shardFrames[f.payload.index].signature = f.payload.signature
                 THEN q
            ELSE [q EXCEPT !.shardFrames = Put(@, f.payload.index, f.payload)]

\* A paste or scan holds at most two decodable frames; <<>> is unreadable input.
AddPaste(s, p) ==
    CASE Len(p) = 0 -> s
      [] Len(p) = 1 -> AddFrame(s, p[1])
      [] OTHER -> AddFrame(AddFrame(s, p[1]), p[2])
AddShardPaste(s, p) ==
    CASE Len(p) = 0 -> s
      [] Len(p) = 1 -> AddShardFrame(s, p[1])
      [] OTHER -> AddShardFrame(AddShardFrame(s, p[1]), p[2])

-----------------------------------------------------------------------------
(* The ciphertext and its hash. *)

AllFrames(s) == s.total # NONE /\ Cardinality(DOMAIN s.mainFrames) = s.total

Reassembled(s) == [i \in 0..(s.total - 1) |-> s.mainFrames[i]]

\* reassembleCiphertext throws: the chunks together exceed MAX_CIPHERTEXT_BYTES.
AssemblyFails(s) == AllFrames(s) /\ s.ciphertext = NONE /\ Oversized(Reassembled(s))

EnsureCiphertextAndHash(s) ==
    IF ~AllFrames(s) \/ AssemblyFails(s) THEN s
    ELSE LET c == IF s.ciphertext = NONE THEN Reassembled(s) ELSE s.ciphertext
         IN [s EXCEPT !.ciphertext = c,
                      !.cipherDocHashHex = IF @ = NONE THEN Digest(c) ELSE @]

SyncCollectedCiphertext(s) ==
    IF AllFrames(s) /\ ~Oversized(Reassembled(s))
    THEN [s EXCEPT !.ciphertext = Reassembled(s)] ELSE s

-----------------------------------------------------------------------------
(* Authentication up to the signature check, and secret reconstruction. *)

\* What updateAuthStatus decides before it awaits: a final status, or "verify".
AuthOutcome(s) ==
    IF s.authPayload = NONE THEN "missing"
    ELSE IF s.authConflicts THEN "conflict"
    ELSE IF s.authStatus = "invalid payload" THEN "invalid payload"
    ELSE IF s.docIdHex \notin {NONE, s.authDocIdHex} THEN "doc_id mismatch"
    ELSE IF AssemblyFails(s) THEN "ciphertext error"
    ELSE IF ~AllFrames(s) THEN "waiting for main frames"
    ELSE IF EnsureCiphertextAndHash(s).cipherDocHashHex # s.authPayload.hash
         THEN "doc_hash mismatch"
    ELSE "verify"

\* The state updateAuthStatus works on once it has asked for the hash.
AuthWork(s) ==
    IF AuthOutcome(s) \in {"doc_hash mismatch", "verify"} THEN EnsureCiphertextAndHash(s) ELSE s

\* recoverSecretFromShards combines the `threshold` lowest indices.
UsedShares(s) ==
    {i \in DOMAIN s.shardFrames :
        Cardinality({j \in DOMAIN s.shardFrames : j < i}) < s.shardHeader.threshold}
RecoverSecret(s) == Interpolate([i \in UsedShares(s) |-> s.shardFrames[i].share])

EnoughShards(s) ==
    s.shardHeader # NONE /\ Cardinality(DOMAIN s.shardFrames) >= s.shardHeader.threshold

\* [mutants] The hash is compared only if there is one; the box is always filled.
AutoRecoverUnbound(s) ==
    LET e == EnsureCiphertextAndHash(s)
    IN IF ~EnoughShards(s) \/ AssemblyFails(s) THEN s
       ELSE IF e.cipherDocHashHex \notin {NONE, s.shardHeader.docHash} THEN e
       ELSE [e EXCEPT !.recoveredShardSecret = RecoverSecret(s),
                      !.agePassphrase = IF @ = NONE THEN RecoverSecret(s) ELSE @]
AutoRecoverOverwriting(s) ==
    LET e == EnsureCiphertextAndHash(s)
    IN IF ~EnoughShards(s) \/ AssemblyFails(s) \/ ~AllFrames(s) THEN s
       ELSE IF e.cipherDocHashHex # s.shardHeader.docHash THEN e
       ELSE [e EXCEPT !.recoveredShardSecret = RecoverSecret(s),
                      !.agePassphrase = RecoverSecret(s)]

AutoRecoverShardSecret(s) ==
    LET e == EnsureCiphertextAndHash(s)
    IN IF ~EnoughShards(s) \/ AssemblyFails(s) \/ ~AllFrames(s) THEN s
       ELSE IF e.cipherDocHashHex # s.shardHeader.docHash THEN e
       ELSE [e EXCEPT !.recoveredShardSecret = RecoverSecret(s),
                      !.agePassphrase = IF s.shardHeader.keyType = "passphrase" /\ @ = NONE
                                        THEN RecoverSecret(s) ELSE @]
=============================================================================
