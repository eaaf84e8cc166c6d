------------------------- MODULE KitRecovery_proofs -------------------------
(***************************************************************************)
(* Proofs about KitRecovery, for every value of its constants.             *)
(***************************************************************************)
EXTENDS KitRecovery, FiniteSetTheorems, TLAPS

-----------------------------------------------------------------------------
(* Facts about the constants. *)

\* The bounds are natural numbers.
LEMMA Bounds == /\ MaxTotal \in Nat /\ MaxShares \in Nat /\ MaxInFlight \in Nat
                /\ NONE \notin 1..MaxTotal /\ NONE \notin Docs
BY KitConstants, KitInputs

\* What Option adds to a set.
LEMMA OptionFacts == \A S : NONE \in Option(S) /\ \A x \in S : x \in Option(S)
BY DEF Option

\* A set of n numbers below n holds all of them.
LEMMA FirstNumbers ==
    ASSUME NEW n \in 1..MaxTotal
    PROVE  IsFiniteSet(0..(n - 1)) /\ Cardinality(0..(n - 1)) = n
<1>1. n - 1 \in Int /\ 0 \in Int /\ ~(0 > n - 1) /\ (n - 1) - 0 + 1 = n
  BY Bounds
<1>2. QED
  BY <1>1, FS_Interval

-----------------------------------------------------------------------------
(* The collected state: each function of KitState keeps its type. *)

\* A collected state: of the right type, with frame numbers in range.
Good(s) == s \in States /\ FramesFit(s)

\* A complete collection is exactly the frames 0 .. total-1, so reassembly is defined
\* (frames_cipher.js:22-45 throws on a missing frame only when one is missing).
LEMMA ReassembledType ==
    ASSUME NEW s, Good(s), AllFrames(s)
    PROVE  /\ s.total \in 1..MaxTotal
           /\ DOMAIN s.mainFrames = 0..(s.total - 1)
           /\ Reassembled(s) \in Ciphertexts
<1>1. s.total \in 1..MaxTotal
  BY DEF Good, States, AllFrames, Option
<1>2. DOMAIN s.mainFrames \in SUBSET (0..(s.total - 1))
  BY <1>1, Bounds DEF Good, FramesFit
<1>3. /\ IsFiniteSet(0..(s.total - 1))
      /\ Cardinality(0..(s.total - 1)) = s.total
  BY <1>1, FirstNumbers
<1>4. DOMAIN s.mainFrames = 0..(s.total - 1)
  BY <1>2, <1>3, FS_Subset DEF AllFrames
<1>5. s.mainFrames \in MainMaps
  BY DEF Good, States
<1>6. \A i \in 0..(s.total - 1) : s.mainFrames[i] \in Chunks
  BY <1>4, <1>5 DEF MainMaps
<1>7. Reassembled(s) \in [0..(s.total - 1) -> Chunks]
  BY <1>6 DEF Reassembled
<1>8. QED
  BY <1>1, <1>4, <1>7 DEF Ciphertexts

\* Adding a chunk keeps a map of chunks.
LEMMA PutType ==
    ASSUME NEW m \in MainMaps, NEW k \in 0..(MaxTotal - 1), NEW v \in Chunks
    PROVE  /\ Put(m, k, v) \in MainMaps
           /\ DOMAIN Put(m, k, v) = DOMAIN m \cup {k}
<1>1. PICK D \in SUBSET (0..(MaxTotal - 1)) : m \in [D -> Chunks]
  BY DEF MainMaps
<1>2. Put(m, k, v) \in [D \cup {k} -> Chunks]
  BY <1>1 DEF Put
<1>3. D \cup {k} \in SUBSET (0..(MaxTotal - 1))
  BY <1>1
<1>4. QED
  BY <1>1, <1>2, <1>3 DEF MainMaps

\* Taking a MAIN frame gives a state with fitting frame numbers (addFrame).
LEMMA AddMainFrameType ==
    ASSUME NEW s, Good(s), NEW f \in MainFrameSet
    PROVE  Good(AddMainFrame(s, f))
<1> DEFINE m == Put(s.mainFrames, f.index, f.data)
           new == [s EXCEPT !.docIdHex = f.doc, !.total = f.total, !.mainFrames = m,
                            !.ciphertext = NONE, !.cipherDocHashHex = NONE]
<1>1. /\ s \in States /\ FramesFit(s) /\ f.doc \in Docs /\ f.total \in 1..MaxTotal
      /\ f.index \in 0..(MaxTotal - 1) /\ f.index < f.total /\ f.data \in Chunks
  BY DEF Good, MainFrameSet
<1>2. m \in MainMaps /\ DOMAIN m = DOMAIN s.mainFrames \cup {f.index}
  BY <1>1, PutType DEF States
<1>3. Good([s EXCEPT !.conflicts = TRUE])
  <2>1. [s EXCEPT !.conflicts = TRUE] \in States
    BY <1>1, Zenon DEF States
  <2>2. FramesFit([s EXCEPT !.conflicts = TRUE])
    BY <1>1 DEF States, FramesFit
  <2>3. QED
    BY <2>1, <2>2 DEF Good
<1>4. s.total \in {NONE, f.total} => Good(new)
  <2>1. new \in States
    <3>1. f.doc \in Option(Docs) /\ f.total \in Option(1..MaxTotal)
          /\ NONE \in Option(Ciphertexts) /\ NONE \in Option(Hashes)
      BY <1>1, OptionFacts
    <3>2. QED
      BY <1>1, <1>2, <3>1, Zenon DEF States
  <2>2. s.total \in {NONE, f.total} => FramesFit(new)
    <3>1. new.total = f.total /\ new.docIdHex = f.doc /\ new.mainFrames = m
      BY <1>1 DEF States
    <3>2. QED
      BY <1>1, <1>2, <3>1, Bounds DEF FramesFit
  <2>3. QED
    BY <2>1, <2>2 DEF Good
<1>5. QED
  BY <1>3, <1>4 DEF AddMainFrame

\* A change that leaves the main frames, their count and document id alone.
LEMMA SameFrames ==
    ASSUME NEW s, FramesFit(s), NEW t,
           t.mainFrames = s.mainFrames, t.total = s.total, t.docIdHex = s.docIdHex
    PROVE  FramesFit(t)
BY Zenon DEF FramesFit

\* Taking an AUTH frame gives a state and leaves the frames alone (addAuthFrame).
LEMMA AddAuthFrameType ==
    ASSUME NEW s, Good(s), NEW f \in AuthFrameSet
    PROVE  Good(AddAuthFrame(s, f))
<1> DEFINE conflict == [s EXCEPT !.authConflicts = TRUE]
           invalid == [s EXCEPT !.authStatus = "invalid payload"]
           first == [s EXCEPT !.authPayload = f.payload, !.authDocIdHex = f.doc,
                              !.authStatus = "pending"]
           second == [s EXCEPT !.authConflicts = TRUE,
                               !.authStatus = "conflicting auth payloads"]
<1>1. /\ s \in States /\ FramesFit(s) /\ f.doc \in Option(Docs)
      /\ f.payload \in Option(AuthPayloads)
      /\ "invalid payload" \in AuthStatuses /\ "pending" \in AuthStatuses
      /\ "conflicting auth payloads" \in AuthStatuses
  BY OptionFacts DEF Good, AuthFrameSet, AuthStatuses
<1>2. conflict \in States /\ invalid \in States /\ second \in States
  BY <1>1, Zenon DEF States
<1>3. first \in States
  BY <1>1, Zenon DEF States
<1>4. FramesFit(conflict) /\ FramesFit(invalid) /\ FramesFit(first) /\ FramesFit(second)
  BY <1>1, SameFrames, Zenon DEF States
<1>5. QED
  BY <1>1, <1>2, <1>3, <1>4, Zenon DEF Good, AddAuthFrame

\* Adding a share keeps a map of shares.
LEMMA PutShardType ==
    ASSUME NEW m \in ShardMaps, NEW v \in ShardPayloads
    PROVE  Put(m, v.index, v) \in ShardMaps
<1>1. PICK D \in SUBSET (1..MaxShares) : m \in [D -> ShardPayloads]
  BY DEF ShardMaps
<1>2. v.index \in 1..MaxShares
  BY DEF ShardPayloads
<1>3. Put(m, v.index, v) \in [D \cup {v.index} -> ShardPayloads]
  BY <1>1, <1>2 DEF Put
<1>4. D \cup {v.index} \in SUBSET (1..MaxShares)
  BY <1>1, <1>2
<1>5. QED
  BY <1>3, <1>4 DEF ShardMaps

\* Taking a KEY frame gives a state and leaves the frames alone (addShardFrame).
LEMMA AddShardFrameType ==
    ASSUME NEW s, Good(s), NEW f \in FrameSet
    PROVE  Good(AddShardFrame(s, f))
<1> DEFINE p == [s EXCEPT !.shardDocIdHex = f.doc]
           q == [p EXCEPT !.shardHeader = f.payload.header]
           r == [q EXCEPT !.shardFrames = Put(@, f.payload.index, f.payload)]
<1>1. s \in States /\ FramesFit(s)
  BY DEF Good
<1>2. SUFFICES ASSUME f.type = "key" PROVE Good(AddShardFrame(s, f))
  BY Zenon DEF AddShardFrame
<1>3. f.doc \in Option(Docs) /\ f.payload \in Option(ShardPayloads)
  BY <1>2, OptionFacts DEF FrameSet, MainFrameSet, AuthFrameSet, KeyFrameSet
<1>4. p \in States /\ FramesFit(p)
  <2>1. p \in States
    BY <1>1, <1>3, Zenon DEF States
  <2>2. QED
    BY <1>1, <2>1, SameFrames, Zenon DEF States
<1>5. ASSUME f.payload # NONE PROVE Good(q) /\ Good(r)
  <2>1. f.payload \in ShardPayloads /\ f.payload.header \in Option(Headers)
    BY <1>3, <1>5, OptionFacts DEF Option, ShardPayloads
  <2>2. q \in States
    BY <1>4, <2>1, Zenon DEF States
  <2>3. FramesFit(q)
    BY <1>4, SameFrames, Zenon DEF States
  <2>4. Put(q.shardFrames, f.payload.index, f.payload) \in ShardMaps
    BY <2>1, <2>2, PutShardType DEF States
  <2>5. r \in States
    BY <2>2, <2>4, Zenon DEF States
  <2>6. FramesFit(r)
    BY <2>2, <2>3, SameFrames, Zenon DEF States
  <2>7. QED
    BY <2>2, <2>3, <2>5, <2>6 DEF Good
<1>6. QED
  BY <1>1, <1>2, <1>4, <1>5, Zenon DEF AddShardFrame, Good

\* Either kind of frame in the backup box gives a state (addFrame).
LEMMA AddFrameType ==
    ASSUME NEW s, Good(s), NEW f \in FrameSet
    PROVE  Good(AddFrame(s, f))
<1>1. CASE f.type = "auth"
  <2>1. f \in AuthFrameSet
    BY <1>1 DEF FrameSet, MainFrameSet, AuthFrameSet, KeyFrameSet
  <2>2. QED
    BY <1>1, <2>1, AddAuthFrameType DEF AddFrame
<1>2. CASE f.type = "main"
  <2>1. f \in MainFrameSet
    BY <1>2 DEF FrameSet, MainFrameSet, AuthFrameSet, KeyFrameSet
  <2>2. QED
    BY <1>2, <2>1, AddMainFrameType DEF AddFrame
<1>3. CASE f.type \notin {"auth", "main"}
  BY <1>3 DEF AddFrame
<1>4. QED
  BY <1>1, <1>2, <1>3

\* What a paste may hold (KitInputs).
PasteSet == UNION {[1..n -> FrameSet] : n \in 0..2}

\* So does a whole paste, in either box.
LEMMA AddPasteType ==
    ASSUME NEW s, Good(s), NEW p \in PasteSet
    PROVE  Good(AddPaste(s, p)) /\ Good(AddShardPaste(s, p))
<1>1. PICK n \in 0..2 : p \in [1..n -> FrameSet]
  BY DEF PasteSet
<1>2. Len(p) = n
  BY <1>1
<1>3. CASE n = 0
  BY <1>2, <1>3 DEF AddPaste, AddShardPaste
<1>4. CASE n = 1
  <2>1. p[1] \in FrameSet
    BY <1>1, <1>4
  <2>2. QED
    BY <1>2, <1>4, <2>1, AddFrameType, AddShardFrameType DEF AddPaste, AddShardPaste
<1>5. CASE n = 2
  <2>1. p[1] \in FrameSet /\ p[2] \in FrameSet
    BY <1>1, <1>5
  <2>2. QED
    BY <1>2, <1>5, <2>1, AddFrameType, AddShardFrameType DEF AddPaste, AddShardPaste
<1>6. QED
  BY <1>3, <1>4, <1>5

-----------------------------------------------------------------------------
(* The derived state: ciphertext, hash, authentication status and secret. *)

\* The fields that hold what was collected, and the shards' set header.
SameCollected(t, s) ==
    /\ t.mainFrames = s.mainFrames /\ t.total = s.total /\ t.docIdHex = s.docIdHex
    /\ t.shardHeader = s.shardHeader
    /\ t.authPayload = s.authPayload /\ t.authDocIdHex = s.authDocIdHex

\* CacheCoherent, VerifiedIsEarned and SecretMatchesBackup, of any state.
Coherent(s) ==
    /\ s.ciphertext # NONE => AllFrames(s) /\ s.ciphertext = Reassembled(s)
    /\ s.cipherDocHashHex # NONE =>
         s.ciphertext # NONE /\ s.cipherDocHashHex = Digest(s.ciphertext)
Authentic(s) ==
    /\ s.authPayload # NONE /\ s.authPayload.genuine
    /\ AllFrames(s)
    /\ Digest(Reassembled(s)) = s.authPayload.hash
    /\ s.docIdHex = s.authDocIdHex
Earned(s) == s.authStatus = "verified" => Authentic(s)
Matching(s) == /\ AllFrames(s) /\ s.shardHeader # NONE
               /\ Digest(Reassembled(s)) = s.shardHeader.docHash
Bound(s) == s.recoveredShardSecret # NONE => Matching(s)

\* What those three say depends only on the collected fields.
LEMMA SameEvidence ==
    ASSUME NEW s, NEW t, SameCollected(t, s)
    PROVE  /\ AllFrames(t) = AllFrames(s) /\ Reassembled(t) = Reassembled(s)
           /\ FramesFit(t) = FramesFit(s)
           /\ Authentic(t) = Authentic(s) /\ Matching(t) = Matching(s)
<1>1. AllFrames(t) = AllFrames(s) /\ Reassembled(t) = Reassembled(s)
  BY Zenon DEF SameCollected, AllFrames, Reassembled
<1>2. FramesFit(t) = FramesFit(s)
  BY Zenon DEF SameCollected, FramesFit
<1>3. Authentic(t) = Authentic(s) /\ Matching(t) = Matching(s)
  BY <1>1, Zenon DEF SameCollected, Authentic, Matching
<1>4. QED
  BY <1>1, <1>2, <1>3

\* Deriving ciphertext and hash gives a state (ensureCiphertextAndHash).
LEMMA EnsureType ==
    ASSUME NEW s, Good(s)
    PROVE  LET e == EnsureCiphertextAndHash(s)
           IN /\ Good(e) /\ SameCollected(e, s)
              /\ e.authStatus = s.authStatus /\ e.shardFrames = s.shardFrames
              /\ e.recoveredShardSecret = s.recoveredShardSecret
              /\ e.agePassphrase = s.agePassphrase
<1> DEFINE c == IF s.ciphertext = NONE THEN Reassembled(s) ELSE s.ciphertext
           h == IF s.cipherDocHashHex = NONE THEN Digest(c) ELSE s.cipherDocHashHex
           e == [s EXCEPT !.ciphertext = c, !.cipherDocHashHex = h]
<1>1. CASE ~AllFrames(s) \/ AssemblyFails(s)
  BY <1>1, Zenon DEF EnsureCiphertextAndHash, SameCollected
<1>2. CASE AllFrames(s) /\ ~AssemblyFails(s)
  <2>1. s \in States /\ s.ciphertext \in Option(Ciphertexts)
        /\ s.cipherDocHashHex \in Option(Hashes)
    BY DEF Good, States
  <2>2. c \in Ciphertexts
    BY <1>2, <2>1, ReassembledType DEF Option
  <2>3. Digest(c) \in Hashes
    BY <2>2, KitConstants
  <2>4. c \in Option(Ciphertexts) /\ h \in Option(Hashes)
    BY <2>1, <2>2, <2>3, OptionFacts
  <2> HIDE DEF c, h
  <2>5. e \in States /\ SameCollected(e, s)
        /\ e.authStatus = s.authStatus /\ e.shardFrames = s.shardFrames
        /\ e.recoveredShardSecret = s.recoveredShardSecret
        /\ e.agePassphrase = s.agePassphrase
    BY <2>1, <2>4, Zenon DEF States, SameCollected
  <2>6. Good(e)
    BY <2>5, SameEvidence, Zenon DEF Good
  <2>7. EnsureCiphertextAndHash(s) = e
    BY <1>2, <2>1, Zenon DEF EnsureCiphertextAndHash, c, h, States
  <2>8. QED
    BY <2>5, <2>6, <2>7
<1>3. QED
  BY <1>1, <1>2

\* ensureCiphertextAndHash leaves a coherent pair, and for a complete collection that
\* fits the bound, the hash of that collection.
LEMMA EnsureCoherent ==
    ASSUME NEW s, Good(s), Coherent(s)
    PROVE  LET e == EnsureCiphertextAndHash(s)
           IN /\ Coherent(e)
              /\ (AllFrames(s) /\ ~AssemblyFails(s)) =>
                   e.cipherDocHashHex = Digest(Reassembled(s))
<1> DEFINE c == IF s.ciphertext = NONE THEN Reassembled(s) ELSE s.ciphertext
           h == IF s.cipherDocHashHex = NONE THEN Digest(c) ELSE s.cipherDocHashHex
           e == [s EXCEPT !.ciphertext = c, !.cipherDocHashHex = h]
<1>1. CASE ~AllFrames(s) \/ AssemblyFails(s)
  BY <1>1, Zenon DEF EnsureCiphertextAndHash
<1>2. CASE AllFrames(s) /\ ~AssemblyFails(s)
  <2>1. c = Reassembled(s)
    BY <1>2, Zenon DEF Coherent
  <2>2. h = Digest(Reassembled(s))
    BY <2>1, Zenon DEF Coherent
  <2> HIDE DEF c, h
  <2>3. s \in States
    BY DEF Good
  <2>4. EnsureCiphertextAndHash(s) = e
    BY <1>2, <2>3, Zenon DEF EnsureCiphertextAndHash, c, h, States
  <2>5. e.ciphertext = c /\ e.cipherDocHashHex = h /\ SameCollected(e, s)
    BY <2>3, Zenon DEF States, SameCollected
  <2>6. AllFrames(e) /\ Reassembled(e) = Reassembled(s)
    BY <1>2, <2>5, SameEvidence, Zenon
  <2>7. Reassembled(s) # NONE
    BY <1>2, ReassembledType, KitConstants
  <2>8. QED
    BY <1>2, <2>1, <2>2, <2>4, <2>5, <2>6, <2>7, Zenon DEF Coherent
<1>3. QED
  BY <1>1, <1>2

\* Refreshing the cached ciphertext gives a state (syncCollectedCiphertext).
LEMMA SyncType ==
    ASSUME NEW s, Good(s)
    PROVE  LET t == SyncCollectedCiphertext(s)
           IN /\ Good(t) /\ SameCollected(t, s) /\ (Coherent(s) => Coherent(t))
              /\ t.authStatus = s.authStatus /\ t.shardFrames = s.shardFrames
              /\ t.recoveredShardSecret = s.recoveredShardSecret
              /\ t.agePassphrase = s.agePassphrase
<1> DEFINE c == Reassembled(s)
           t == [s EXCEPT !.ciphertext = c]
<1>1. CASE ~(AllFrames(s) /\ ~Oversized(c))
  BY <1>1, Zenon DEF SyncCollectedCiphertext, SameCollected
<1>2. CASE AllFrames(s) /\ ~Oversized(c)
  <2>1. s \in States
    BY DEF Good
  <2>2. c \in Option(Ciphertexts)
    BY <1>2, ReassembledType, OptionFacts
  <2>3. SyncCollectedCiphertext(s) = t
    BY <1>2, Zenon DEF SyncCollectedCiphertext
  <2> HIDE DEF c
  <2>4. /\ t \in States /\ SameCollected(t, s)
        /\ t.authStatus = s.authStatus /\ t.shardFrames = s.shardFrames
        /\ t.recoveredShardSecret = s.recoveredShardSecret
        /\ t.agePassphrase = s.agePassphrase
        /\ t.ciphertext = c /\ t.cipherDocHashHex = s.cipherDocHashHex
    BY <2>1, <2>2, Zenon DEF States, SameCollected
  <2>5. Good(t) /\ AllFrames(t) /\ Reassembled(t) = Reassembled(s)
    BY <1>2, <2>4, SameEvidence, Zenon DEF Good
  <2>6. ASSUME Coherent(s) PROVE Coherent(t)
    <3>1. ASSUME s.cipherDocHashHex # NONE PROVE s.cipherDocHashHex = Digest(c)
      BY <2>6, <3>1, Zenon DEF Coherent, c
    <3>2. c \in Ciphertexts /\ NONE \notin Ciphertexts
      BY <1>2, ReassembledType, KitConstants DEF c
    <3>3. QED
      BY <2>4, <2>5, <3>1, <3>2, Zenon DEF Coherent, c
  <2>7. QED
    BY <2>3, <2>4, <2>5, <2>6
<1>3. QED
  BY <1>1, <1>2

\* recoverSecretFromShards is given shares only.
LEMMA RecoverSecretType ==
    ASSUME NEW s \in States
    PROVE  RecoverSecret(s) \in Passphrases
<1>1. PICK D \in SUBSET (1..MaxShares) : s.shardFrames \in [D -> ShardPayloads]
  BY DEF States, ShardMaps
<1>2. UsedShares(s) \in SUBSET (1..MaxShares) /\ UsedShares(s) \in SUBSET D
  BY <1>1 DEF UsedShares
<1>3. [i \in UsedShares(s) |-> s.shardFrames[i].share] \in [UsedShares(s) -> Shares]
  BY <1>1, <1>2 DEF ShardPayloads
<1>4. QED
  BY <1>2, <1>3, InterpolateType DEF RecoverSecret

\* autoRecoverShardSecret: a secret it reconstructs belongs to the collected backup.
LEMMA AutoRecoverType ==
    ASSUME NEW s, Good(s)
    PROVE  LET t == AutoRecoverShardSecret(s)
           IN /\ Good(t) /\ SameCollected(t, s)
              /\ t.authStatus = s.authStatus /\ t.shardFrames = s.shardFrames
              /\ Coherent(s) => /\ Coherent(t)
                                /\ Bound(s) => Bound(t)
<1> DEFINE e == EnsureCiphertextAndHash(s)
           t == AutoRecoverShardSecret(s)
           r == RecoverSecret(s)
           a == IF s.shardHeader.keyType = "passphrase" /\ e.agePassphrase = NONE
                THEN r ELSE e.agePassphrase
           u == [e EXCEPT !.recoveredShardSecret = r, !.agePassphrase = a]
<1>1. /\ Good(e) /\ SameCollected(e, s)
      /\ e.authStatus = s.authStatus /\ e.shardFrames = s.shardFrames
      /\ e.recoveredShardSecret = s.recoveredShardSecret
  BY EnsureType
<1>2. CASE ~EnoughShards(s) \/ AssemblyFails(s) \/ ~AllFrames(s)
  <2>1. t = s
    BY <1>2, Zenon DEF AutoRecoverShardSecret
  <2>2. QED
    BY <2>1, Zenon DEF SameCollected
<1>3. CASE /\ ~(~EnoughShards(s) \/ AssemblyFails(s) \/ ~AllFrames(s))
           /\ e.cipherDocHashHex # s.shardHeader.docHash
  <2>1. t = e
    BY <1>3, Zenon DEF AutoRecoverShardSecret
  <2>2. Matching(e) = Matching(s)
    BY <1>1, SameEvidence, Zenon
  <2>3. QED
    BY <1>1, <2>1, <2>2, EnsureCoherent, Zenon DEF Bound
<1>4. CASE /\ ~(~EnoughShards(s) \/ AssemblyFails(s) \/ ~AllFrames(s))
           /\ e.cipherDocHashHex = s.shardHeader.docHash
  <2>1. s \in States /\ e \in States /\ r \in Passphrases
        /\ e.agePassphrase \in Option(Passphrases)
    BY <1>1, RecoverSecretType DEF Good, States
  <2>2. r \in Option(Passphrases) /\ a \in Option(Passphrases)
    BY <2>1, OptionFacts
  <2>3. t = u
    BY <1>4, <2>1, Zenon DEF AutoRecoverShardSecret, States
  <2> HIDE DEF e, r, a
  <2>4. /\ u \in States /\ SameCollected(u, e)
        /\ u.authStatus = e.authStatus /\ u.shardFrames = e.shardFrames
        /\ u.ciphertext = e.ciphertext /\ u.cipherDocHashHex = e.cipherDocHashHex
    BY <2>1, <2>2, Zenon DEF States, SameCollected
  <2>5. SameCollected(u, s)
    BY <1>1, <2>4, Zenon DEF SameCollected
  <2>6. Good(u)
    BY <1>1, <2>4, SameEvidence, Zenon DEF Good
  <2>7. ASSUME Coherent(s) PROVE Coherent(u) /\ Bound(u)
    <3>1. Coherent(e) /\ e.cipherDocHashHex = Digest(Reassembled(s))
      BY <1>4, <2>7, EnsureCoherent DEF e
    <3>2. Coherent(u)
      BY <2>4, <3>1, SameEvidence, Zenon DEF Coherent
    <3>3. Matching(s)
      BY <1>4, <3>1, Zenon DEF Matching, EnoughShards
    <3>4. QED
      BY <2>5, <3>2, <3>3, SameEvidence, Zenon DEF Bound
  <2>8. QED
    BY <1>1, <2>3, <2>4, <2>5, <2>6, <2>7
<1>5. QED
  BY <1>2, <1>3, <1>4

\* What updateAuthStatus decides before it waits is a status or "verify".
LEMMA AuthOutcomeType ==
    ASSUME NEW s, Good(s)
    PROVE  AuthOutcome(s) \in AuthStatuses \cup {"verify"}
BY DEF AuthOutcome, AuthStatuses

\* updateAuthStatus asks the browser about a signature only for a complete backup whose
\* hash and document id the AUTH payload names.
LEMMA AuthOutcomeSound ==
    ASSUME NEW s, Good(s), Coherent(s), AuthOutcome(s) = "verify",
           s.authPayload.genuine
    PROVE  Authentic(s)
<1>1. /\ s.authPayload # NONE /\ AllFrames(s) /\ ~AssemblyFails(s)
      /\ s.docIdHex \in {NONE, s.authDocIdHex}
      /\ EnsureCiphertextAndHash(s).cipherDocHashHex = s.authPayload.hash
  BY DEF AuthOutcome
<1>2. s.docIdHex # NONE
  BY <1>1, Zenon DEF Good, FramesFit, AllFrames
<1>3. EnsureCiphertextAndHash(s).cipherDocHashHex = Digest(Reassembled(s))
  BY <1>1, EnsureCoherent
<1>4. QED
  BY <1>1, <1>2, <1>3, Zenon DEF Authentic

\* The working copy updateAuthStatus waits with is a state.
LEMMA AuthWorkType ==
    ASSUME NEW s, Good(s)
    PROVE  LET w == AuthWork(s)
           IN /\ Good(w) /\ SameCollected(w, s) /\ (Coherent(s) => Coherent(w))
              /\ w.authStatus = s.authStatus /\ w.shardFrames = s.shardFrames
              /\ w.recoveredShardSecret = s.recoveredShardSecret
<1>1. CASE AuthOutcome(s) \in {"doc_hash mismatch", "verify"}
  BY <1>1, EnsureType, EnsureCoherent, Zenon DEF AuthWork
<1>2. CASE AuthOutcome(s) \notin {"doc_hash mismatch", "verify"}
  BY <1>2, Zenon DEF AuthWork, SameCollected
<1>3. QED
  BY <1>1, <1>2

\* The working copy of runMainAsyncFollowups stays a state.
LEMMA MainFollowupsType ==
    ASSUME NEW s, Good(s), NEW status \in AuthStatuses
    PROVE  LET w == MainFollowups(s, status)
           IN /\ Good(w) /\ SameCollected(w, s)
              /\ w.authStatus = status /\ w.shardFrames = s.shardFrames
              /\ Coherent(s) => /\ Coherent(w)
                                /\ Bound(s) => Bound(w)
<1> DEFINE a == [s EXCEPT !.authStatus = status]
           b == SyncCollectedCiphertext(a)
           w == MainFollowups(s, status)
<1>1. /\ a \in States /\ SameCollected(a, s) /\ a.authStatus = status
      /\ a.shardFrames = s.shardFrames /\ a.recoveredShardSecret = s.recoveredShardSecret
      /\ a.ciphertext = s.ciphertext /\ a.cipherDocHashHex = s.cipherDocHashHex
  BY Zenon DEF Good, States, SameCollected
<1>2. Good(a) /\ (Coherent(s) => Coherent(a)) /\ (Bound(s) => Bound(a))
  BY <1>1, SameEvidence, Zenon DEF Good, Coherent, Bound
<1> HIDE DEF a
<1>3. /\ Good(b) /\ SameCollected(b, a) /\ (Coherent(a) => Coherent(b))
      /\ b.authStatus = status /\ b.shardFrames = s.shardFrames
      /\ b.recoveredShardSecret = s.recoveredShardSecret
  BY <1>1, <1>2, SyncType
<1>4. SameCollected(b, s) /\ (Bound(s) => Bound(b))
  BY <1>1, <1>3, SameEvidence, Zenon DEF SameCollected, Bound
<1>5. w = b \/ w = AutoRecoverShardSecret(b)
  BY Zenon DEF MainFollowups, a
<1>6. CASE w = b
  BY <1>2, <1>3, <1>4, <1>6, Zenon
<1>7. CASE w = AutoRecoverShardSecret(b)
  <2>1. /\ Good(w) /\ SameCollected(w, b)
        /\ w.authStatus = b.authStatus /\ w.shardFrames = b.shardFrames
        /\ Coherent(b) => /\ Coherent(w)
                          /\ Bound(b) => Bound(w)
    BY <1>3, <1>7, AutoRecoverType
  <2>2. SameCollected(w, s)
    BY <1>4, <2>1, Zenon DEF SameCollected
  <2>3. QED
    BY <1>2, <1>3, <1>4, <2>1, <2>2, Zenon
<1>8. QED
  BY <1>5, <1>6, <1>7

\* Merging a working copy back: the store then holds what the copy holds.
LEMMA LandMainType ==
    ASSUME NEW s, Good(s), NEW w, Good(w), SameCollected(w, s)
    PROVE  LET t == LandMain(s, w)
           IN /\ Good(t) /\ SameCollected(t, w)
              /\ t.authStatus = w.authStatus /\ t.shardFrames = w.shardFrames
              /\ (Coherent(w) => Coherent(t)) /\ (Bound(w) => Bound(t))
              /\ t.isAddingFrames = FALSE /\ t.isAddingShards = s.isAddingShards
              /\ t.isDecrypting = s.isDecrypting
<1> DEFINE a == CopyAuthAndCipherFields(s, w)
           b == CopyShardAsyncFields(a, w)
           t == [b EXCEPT !.isAddingFrames = FALSE]
<1>1. s \in States /\ w \in States
  BY DEF Good
<1>2. /\ w.authStatus \in AuthStatuses /\ w.ciphertext \in Option(Ciphertexts)
      /\ w.cipherDocHashHex \in Option(Hashes) /\ w.shardFrames \in ShardMaps
      /\ w.recoveredShardSecret \in Option(Passphrases)
      /\ w.agePassphrase \in Option(Passphrases)
  BY <1>1, Zenon DEF States
<1>3. /\ a \in States /\ SameCollected(a, s) /\ a.authStatus = w.authStatus
      /\ a.isAddingShards = s.isAddingShards /\ a.isDecrypting = s.isDecrypting
  BY <1>1, <1>2, Zenon DEF CopyAuthAndCipherFields, States, SameCollected
<1> HIDE DEF a
<1>4. /\ b \in States /\ SameCollected(b, a) /\ b.authStatus = a.authStatus
      /\ b.isAddingShards = a.isAddingShards /\ b.isDecrypting = a.isDecrypting
      /\ b.shardFrames = w.shardFrames /\ b.recoveredShardSecret = w.recoveredShardSecret
      /\ b.ciphertext = w.ciphertext /\ b.cipherDocHashHex = w.cipherDocHashHex
  BY <1>2, <1>3, Zenon DEF CopyShardAsyncFields, States, SameCollected
<1> HIDE DEF b
<1>5. /\ t \in States /\ SameCollected(t, b) /\ t.authStatus = b.authStatus
      /\ t.isAddingFrames = FALSE
      /\ t.isAddingShards = b.isAddingShards /\ t.isDecrypting = b.isDecrypting
      /\ t.shardFrames = b.shardFrames /\ t.recoveredShardSecret = b.recoveredShardSecret
      /\ t.ciphertext = b.ciphertext /\ t.cipherDocHashHex = b.cipherDocHashHex
  BY <1>4, Zenon DEF States, SameCollected
<1>6. LandMain(s, w) = t
  BY Zenon DEF LandMain, a, b
<1> HIDE DEF t
<1>7. SameCollected(t, w)
  BY <1>3, <1>4, <1>5, Zenon DEF SameCollected
<1>8. FramesFit(t) /\ (Coherent(w) => Coherent(t)) /\ (Bound(w) => Bound(t))
  BY <1>4, <1>5, <1>7, SameEvidence, Zenon DEF Good, Coherent, Bound
<1>9. QED
  BY <1>3, <1>4, <1>5, <1>6, <1>7, <1>8, Zenon DEF Good

\* Merging a shard working copy gives a state.
LEMMA LandShardsType ==
    ASSUME NEW s, Good(s), NEW w, Good(w), SameCollected(w, s)
    PROVE  LET t == LandShards(s, w)
           IN /\ Good(t) /\ SameCollected(t, w)
              /\ t.authStatus = s.authStatus /\ t.shardFrames = w.shardFrames
              /\ (Coherent(w) => Coherent(t)) /\ (Bound(w) => Bound(t))
              /\ t.isAddingShards = FALSE /\ t.isAddingFrames = s.isAddingFrames
              /\ t.isDecrypting = s.isDecrypting
<1> DEFINE b == CopyShardAsyncFields(s, w)
           t == [b EXCEPT !.isAddingShards = FALSE]
<1>1. s \in States /\ w \in States
  BY DEF Good
<1>2. /\ w.ciphertext \in Option(Ciphertexts)
      /\ w.cipherDocHashHex \in Option(Hashes) /\ w.shardFrames \in ShardMaps
      /\ w.recoveredShardSecret \in Option(Passphrases)
      /\ w.agePassphrase \in Option(Passphrases)
  BY <1>1, Zenon DEF States
<1>3. /\ b \in States /\ SameCollected(b, s) /\ b.authStatus = s.authStatus
      /\ b.isAddingFrames = s.isAddingFrames /\ b.isDecrypting = s.isDecrypting
      /\ b.shardFrames = w.shardFrames /\ b.recoveredShardSecret = w.recoveredShardSecret
      /\ b.ciphertext = w.ciphertext /\ b.cipherDocHashHex = w.cipherDocHashHex
  BY <1>1, <1>2, Zenon DEF CopyShardAsyncFields, States, SameCollected
<1> HIDE DEF b
<1>4. /\ t \in States /\ SameCollected(t, b) /\ t.authStatus = b.authStatus
      /\ t.isAddingShards = FALSE
      /\ t.isAddingFrames = b.isAddingFrames /\ t.isDecrypting = b.isDecrypting
      /\ t.shardFrames = b.shardFrames /\ t.recoveredShardSecret = b.recoveredShardSecret
      /\ t.ciphertext = b.ciphertext /\ t.cipherDocHashHex = b.cipherDocHashHex
  BY <1>3, Zenon DEF States, SameCollected
<1>5. LandShards(s, w) = t
  BY Zenon DEF LandShards, b
<1> HIDE DEF t
<1>6. SameCollected(t, w)
  BY <1>3, <1>4, Zenon DEF SameCollected
<1>7. FramesFit(t) /\ (Coherent(w) => Coherent(t)) /\ (Bound(w) => Bound(t))
  BY <1>3, <1>4, <1>6, SameEvidence, Zenon DEF Good, Coherent, Bound
<1>8. QED
  BY <1>3, <1>4, <1>5, <1>6, <1>7, Zenon DEF Good

\* Removing badly signed shares leaves a map of shares.
LEMMA VerifyCollectedType ==
    ASSUME NEW s, Good(s)
    PROVE  LET t == VerifyCollected(s)
           IN /\ Good(t) /\ SameCollected(t, s) /\ t.authStatus = s.authStatus
              /\ (Coherent(s) => Coherent(t)) /\ (Bound(s) => Bound(t))
<1> DEFINE kept == {i \in DOMAIN s.shardFrames : s.shardFrames[i].genuine}
           m == [i \in kept |-> s.shardFrames[i]]
           t == [s EXCEPT !.shardFrames = m]
<1>1. CASE crypto # "works"
  BY <1>1, Zenon DEF VerifyCollected, SameCollected
<1>2. CASE crypto = "works"
  <2>1. PICK D \in SUBSET (1..MaxShares) : s.shardFrames \in [D -> ShardPayloads]
    BY DEF Good, States, ShardMaps
  <2>2. m \in [kept -> ShardPayloads] /\ kept \in SUBSET (1..MaxShares)
    BY <2>1
  <2>3. m \in ShardMaps
    BY <2>2 DEF ShardMaps
  <2>4. VerifyCollected(s) = t
    BY <1>2, Zenon DEF VerifyCollected
  <2> HIDE DEF m
  <2>5. /\ t \in States /\ SameCollected(t, s) /\ t.authStatus = s.authStatus
        /\ t.ciphertext = s.ciphertext /\ t.cipherDocHashHex = s.cipherDocHashHex
        /\ t.recoveredShardSecret = s.recoveredShardSecret
    BY <2>3, Zenon DEF Good, States, SameCollected
  <2>6. FramesFit(t) /\ (Coherent(s) => Coherent(t)) /\ (Bound(s) => Bound(t))
    BY <2>5, SameEvidence, Zenon DEF Good, Coherent, Bound
  <2>7. QED
    BY <2>4, <2>5, <2>6, Zenon DEF Good
<1>3. QED
  BY <1>1, <1>2

-----------------------------------------------------------------------------
(* Taking frames in keeps what the view claims. *)

SameBusy(t, s) ==
    /\ t.isAddingFrames = s.isAddingFrames /\ t.isAddingShards = s.isAddingShards
    /\ t.isDecrypting = s.isDecrypting

\* A state the view may show.
Sound(s) == Good(s) /\ Coherent(s) /\ Earned(s) /\ Bound(s)

\* The fields that Coherent, Earned and Bound read.
LEMMA SameClaims ==
    ASSUME NEW s, Coherent(s), Earned(s), Bound(s), NEW t, SameCollected(t, s),
           t.authStatus \in {s.authStatus, "pending", "missing", "invalid payload",
                             "conflicting auth payloads"},
           t.ciphertext = s.ciphertext, t.cipherDocHashHex = s.cipherDocHashHex,
           t.recoveredShardSecret = s.recoveredShardSecret
    PROVE  Coherent(t) /\ Earned(t) /\ Bound(t)
<1>1. Coherent(t)
  BY SameEvidence, Zenon DEF Coherent
<1>2. t.authStatus = "verified" => s.authStatus = "verified"
  OBVIOUS
<1>3. Earned(t) /\ Bound(t)
  BY <1>2, SameEvidence, Zenon DEF Earned, Bound
<1>4. QED
  BY <1>1, <1>3

\* A complete collection takes no further frame.
LEMMA AddMainFrameSound ==
    ASSUME NEW s, Sound(s), NEW f \in MainFrameSet
    PROVE  Sound(AddMainFrame(s, f)) /\ SameBusy(AddMainFrame(s, f), s)
<1> DEFINE t == AddMainFrame(s, f)
           conflict == [s EXCEPT !.conflicts = TRUE]
           m == Put(s.mainFrames, f.index, f.data)
           new == [s EXCEPT !.docIdHex = f.doc, !.total = f.total, !.mainFrames = m,
                            !.ciphertext = NONE, !.cipherDocHashHex = NONE]
<1>1. s \in States /\ Good(t)
  BY AddMainFrameType DEF Sound, Good
<1>2. \/ t = s \/ t = conflict
      \/ t = new /\ s.total \in {NONE, f.total} /\ f.index \notin DOMAIN s.mainFrames
  BY Zenon DEF AddMainFrame
<1>3. CASE t = s
  BY <1>3 DEF SameBusy
<1>4. CASE t = conflict
  <2>1. /\ SameCollected(conflict, s) /\ SameBusy(conflict, s)
        /\ conflict.authStatus = s.authStatus /\ conflict.ciphertext = s.ciphertext
        /\ conflict.cipherDocHashHex = s.cipherDocHashHex
        /\ conflict.recoveredShardSecret = s.recoveredShardSecret
    BY <1>1, Zenon DEF States, SameCollected, SameBusy
  <2> HIDE DEF conflict
  <2>2. Coherent(conflict) /\ Earned(conflict) /\ Bound(conflict)
    BY <2>1, SameClaims DEF Sound
  <2>3. QED
    BY <1>1, <1>4, <2>1, <2>2 DEF Sound
<1>5. CASE /\ t = new /\ s.total \in {NONE, f.total}
           /\ f.index \notin DOMAIN s.mainFrames
  <2>1. ~AllFrames(s)
    <3>1. SUFFICES ASSUME AllFrames(s) PROVE FALSE
      OBVIOUS
    <3>2. DOMAIN s.mainFrames = 0..(f.total - 1)
      BY <1>5, <3>1, ReassembledType DEF AllFrames, Sound
    <3>3. f.index \in 0..(f.total - 1)
      BY Bounds DEF MainFrameSet
    <3>4. QED
      BY <1>5, <3>2, <3>3
  <2>2. s.authStatus # "verified" /\ s.recoveredShardSecret = NONE
    BY <2>1, Zenon DEF Sound, Earned, Bound, Authentic, Matching
  <2>3. /\ SameBusy(new, s) /\ new.ciphertext = NONE /\ new.cipherDocHashHex = NONE
        /\ new.authStatus = s.authStatus
        /\ new.recoveredShardSecret = s.recoveredShardSecret
    BY <1>1, Zenon DEF States, SameBusy
  <2> HIDE DEF new
  <2>4. QED
    BY <1>1, <1>5, <2>2, <2>3, Zenon DEF Sound, Coherent, Earned, Bound
<1>6. QED
  BY <1>2, <1>3, <1>4, <1>5, Zenon

\* An AUTH frame keeps a sound state sound, and is "verified" for no new payload.
LEMMA AddAuthFrameSound ==
    ASSUME NEW s, Sound(s), NEW f \in AuthFrameSet
    PROVE  Sound(AddAuthFrame(s, f)) /\ SameBusy(AddAuthFrame(s, f), s)
<1> DEFINE t == AddAuthFrame(s, f)
           conflict == [s EXCEPT !.authConflicts = TRUE]
           invalid == [s EXCEPT !.authStatus = "invalid payload"]
           first == [s EXCEPT !.authPayload = f.payload, !.authDocIdHex = f.doc,
                              !.authStatus = "pending"]
           second == [s EXCEPT !.authConflicts = TRUE,
                               !.authStatus = "conflicting auth payloads"]
<1>1. s \in States /\ Good(t)
  BY AddAuthFrameType DEF Sound, Good
<1>2. t \in {s, conflict, invalid, first, second}
  BY Zenon DEF AddAuthFrame
<1>3. CASE t = s
  BY <1>3 DEF SameBusy
<1>4. CASE t \in {conflict, invalid, second}
  <2>1. ASSUME NEW u \in {conflict, invalid, second}
        PROVE  /\ SameCollected(u, s) /\ SameBusy(u, s)
               /\ u.authStatus \in {s.authStatus, "invalid payload",
                                    "conflicting auth payloads"}
               /\ u.ciphertext = s.ciphertext /\ u.cipherDocHashHex = s.cipherDocHashHex
               /\ u.recoveredShardSecret = s.recoveredShardSecret
    BY <1>1, <2>1, Zenon DEF States, SameCollected, SameBusy
  <2>2. Coherent(t) /\ Earned(t) /\ Bound(t) /\ SameBusy(t, s)
    <3> HIDE DEF t, conflict, invalid, second
    <3>1. QED
      BY <1>4, <2>1, SameClaims DEF Sound
  <2>3. QED
    BY <1>1, <2>2 DEF Sound
<1>5. CASE t = first
  <2>1. /\ SameBusy(first, s) /\ first.authStatus = "pending"
        /\ first.ciphertext = s.ciphertext /\ first.cipherDocHashHex = s.cipherDocHashHex
        /\ first.recoveredShardSecret = s.recoveredShardSecret
        /\ first.mainFrames = s.mainFrames /\ first.total = s.total
        /\ first.shardHeader = s.shardHeader
    BY <1>1, Zenon DEF States, SameBusy
  <2> HIDE DEF first
  <2>2. AllFrames(first) = AllFrames(s) /\ Reassembled(first) = Reassembled(s)
    BY <2>1, Zenon DEF AllFrames, Reassembled
  <2>3. first.authStatus # "verified"
    BY <2>1
  <2>4. Coherent(first) /\ Earned(first) /\ Bound(first)
    BY <2>1, <2>2, <2>3, Zenon DEF Sound, Coherent, Earned, Bound, Matching
  <2>5. QED
    BY <1>1, <1>5, <2>1, <2>4 DEF Sound
<1>6. QED
  BY <1>2, <1>3, <1>4, <1>5, Zenon

\* A KEY frame keeps a sound state sound: a pinned header is not replaced.
LEMMA AddShardFrameSound ==
    ASSUME NEW s, Sound(s), NEW f \in FrameSet
    PROVE  Sound(AddShardFrame(s, f)) /\ SameBusy(AddShardFrame(s, f), s)
<1> DEFINE t == AddShardFrame(s, f)
           p == [s EXCEPT !.shardDocIdHex = f.doc]
           q == [p EXCEPT !.shardHeader = f.payload.header]
           r == [q EXCEPT !.shardFrames = Put(@, f.payload.index, f.payload)]
           Claims(u) == /\ SameBusy(u, s) /\ u.authStatus = s.authStatus
                        /\ u.ciphertext = s.ciphertext
                        /\ u.cipherDocHashHex = s.cipherDocHashHex
                        /\ u.recoveredShardSecret = s.recoveredShardSecret
                        /\ u.mainFrames = s.mainFrames /\ u.total = s.total
                        /\ u.docIdHex = s.docIdHex /\ u.authPayload = s.authPayload
                        /\ u.authDocIdHex = s.authDocIdHex
                        /\ u.shardHeader = s.shardHeader \/ s.shardHeader = NONE
<1>1. s \in States /\ Good(t)
  BY AddShardFrameType DEF Sound, Good
<1>2. \/ t = s \/ t = p
      \/ t \in {q, r} /\ s.shardHeader \in {NONE, f.payload.header}
  BY Zenon DEF AddShardFrame
<1>3. Claims(s) /\ Claims(p)
  BY <1>1, Zenon DEF States, SameBusy
<1>4. ASSUME s.shardHeader \in {NONE, f.payload.header} PROVE Claims(q) /\ Claims(r)
  BY <1>1, <1>4, Zenon DEF States, SameBusy
<1>5. Claims(t)
  BY <1>2, <1>3, <1>4, Zenon
<1> HIDE DEF t
<1>6. AllFrames(t) = AllFrames(s) /\ Reassembled(t) = Reassembled(s)
  BY <1>5, Zenon DEF AllFrames, Reassembled
<1>7. Coherent(t)
  BY <1>5, <1>6, Zenon DEF Sound, Coherent
<1>8. Earned(t)
  BY <1>5, <1>6, Zenon DEF Sound, Earned, Authentic
<1>9. Bound(t)
  BY <1>5, <1>6, Zenon DEF Sound, Bound, Matching
<1>10. QED
  BY <1>1, <1>5, <1>7, <1>8, <1>9 DEF Sound, t

\* A whole paste keeps a sound state sound.
LEMMA AddPasteSound ==
    ASSUME NEW s, Sound(s), NEW p \in PasteSet
    PROVE  /\ Sound(AddPaste(s, p)) /\ SameBusy(AddPaste(s, p), s)
           /\ Sound(AddShardPaste(s, p)) /\ SameBusy(AddShardPaste(s, p), s)
<1>1. ASSUME NEW u, Sound(u), NEW f \in FrameSet
      PROVE  Sound(AddFrame(u, f)) /\ SameBusy(AddFrame(u, f), u)
  <2>1. CASE f.type = "auth"
    <3>1. f \in AuthFrameSet
      BY <2>1 DEF FrameSet, MainFrameSet, AuthFrameSet, KeyFrameSet
    <3>2. QED
      BY <1>1, <2>1, <3>1, AddAuthFrameSound DEF AddFrame
  <2>2. CASE f.type = "main"
    <3>1. f \in MainFrameSet
      BY <2>2 DEF FrameSet, MainFrameSet, AuthFrameSet, KeyFrameSet
    <3>2. QED
      BY <1>1, <2>2, <3>1, AddMainFrameSound DEF AddFrame
  <2>3. CASE f.type \notin {"auth", "main"}
    BY <1>1, <2>3 DEF AddFrame, SameBusy
  <2>4. QED
    BY <2>1, <2>2, <2>3
<1>2. PICK n \in 0..2 : p \in [1..n -> FrameSet]
  BY DEF PasteSet
<1>3. Len(p) = n
  BY <1>2
<1>4. CASE n = 0
  BY <1>3, <1>4 DEF AddPaste, AddShardPaste, SameBusy
<1>5. CASE n = 1
  <2>1. p[1] \in FrameSet
    BY <1>2, <1>5
  <2>2. QED
    BY <1>1, <1>3, <1>5, <2>1, AddShardFrameSound DEF AddPaste, AddShardPaste
<1>6. CASE n = 2
  <2>1. p[1] \in FrameSet /\ p[2] \in FrameSet
    BY <1>2, <1>6
  <2>2. /\ AddPaste(s, p) = AddFrame(AddFrame(s, p[1]), p[2])
        /\ AddShardPaste(s, p) = AddShardFrame(AddShardFrame(s, p[1]), p[2])
    BY <1>3, <1>6 DEF AddPaste, AddShardPaste
  <2> DEFINE a == AddFrame(s, p[1])
             b == AddShardFrame(s, p[1])
  <2>3. Sound(a) /\ SameBusy(a, s) /\ Sound(b) /\ SameBusy(b, s)
    BY <1>1, <2>1, AddShardFrameSound
  <2> HIDE DEF a, b
  <2>4. /\ Sound(AddFrame(a, p[2])) /\ SameBusy(AddFrame(a, p[2]), a)
        /\ Sound(AddShardFrame(b, p[2])) /\ SameBusy(AddShardFrame(b, p[2]), b)
    BY <1>1, <2>1, <2>3, AddShardFrameSound
  <2>5. SameBusy(AddFrame(a, p[2]), s) /\ SameBusy(AddShardFrame(b, p[2]), s)
    BY <2>3, <2>4 DEF SameBusy
  <2>6. QED
    BY <2>2, <2>4, <2>5 DEF a, b
<1>7. QED
  BY <1>4, <1>5, <1>6

-----------------------------------------------------------------------------
(* The waiting handlers. *)

\* WorkIsCurrent, of one handler: its working copy is the one it computed from s.
Current(t, s) ==
    /\ (t # NONE /\ t.kind = "verify" /\ t.work # NONE) =>
         AuthOutcome(s) = "verify" /\ t.work = AuthWork(s)
    /\ (t # NONE /\ t.kind = "shards" /\ t.work # NONE) => t.work = s
    /\ (t # NONE /\ t.kind = "extract" /\ t.work # NONE) =>
         t.work = [s EXCEPT !.extractedFiles = s.decryptedEnvelope]

\* WorkIsCurrent, restated slot by slot.
LEMMA CurrentIsWorkIsCurrent == WorkIsCurrent <=> \A k \in Slots : Current(inflight[k], store)
BY Zenon DEF WorkIsCurrent, Current, Waiting

\* Which fields a waiting handler of each kind holds.
LEMMA TaskShape ==
    ASSUME NEW t \in Tasks
    PROVE  /\ t # NONE
           /\ "work" \in DOMAIN t <=> t.kind \in {"verify", "shards", "extract"}
           /\ "work" \in DOMAIN t =>
                /\ [t EXCEPT !.work = NONE] \in Tasks
                /\ [t EXCEPT !.work = NONE].kind = t.kind
                /\ [t EXCEPT !.work = NONE].work = NONE
<1>1. CASE t \in [kind : {"verify", "shards", "extract"}, work : Option(States)]
  <2>1. DOMAIN t = {"kind", "work"} /\ t.kind \in {"verify", "shards", "extract"}
    BY <1>1
  <2>2. /\ [t EXCEPT !.work = NONE]
             \in [kind : {"verify", "shards", "extract"}, work : Option(States)]
        /\ [t EXCEPT !.work = NONE].kind = t.kind
        /\ [t EXCEPT !.work = NONE].work = NONE
    BY <1>1, OptionFacts
  <2>3. QED
    BY <2>1, <2>2, NoneIsNoTask DEF Tasks
<1>2. CASE t \in [kind : {"decrypt"}, bytes : Ciphertexts, typed : Passphrases]
  <2>1. DOMAIN t = {"kind", "bytes", "typed"} /\ t.kind = "decrypt"
    BY <1>2
  <2>2. QED
    BY <2>1, NoneIsNoTask
<1>3. CASE t \in [kind : {"copy"}]
  <2>1. DOMAIN t = {"kind"} /\ t.kind = "copy"
    BY <1>3
  <2>2. QED
    BY <2>1, NoneIsNoTask
<1>4. QED
  BY <1>1, <1>2, <1>3 DEF Tasks

\* Whatever the store becomes, an overtaken handler has nothing to say about it.
LEMMA SupersededType ==
    ASSUME inflight \in [Slots -> Option(Tasks)], NEW k \in Slots
    PROVE  /\ Superseded \in [Slots -> Option(Tasks)]
           /\ inflight[k] = NONE => Superseded[k] = NONE
           /\ inflight[k] # NONE =>
                Superseded[k] # NONE /\ Superseded[k].kind = inflight[k].kind
           /\ \A s : Current(Superseded[k], s)
<1>1. ASSUME NEW j \in Slots
      PROVE  /\ Superseded[j] \in Option(Tasks)
             /\ inflight[j] = NONE => Superseded[j] = NONE
             /\ inflight[j] # NONE =>
                  Superseded[j] # NONE /\ Superseded[j].kind = inflight[j].kind
             /\ \A s : Current(Superseded[j], s)
  <2>1. CASE inflight[j] = NONE
    <3>1. Superseded[j] = NONE
      BY <2>1, Zenon DEF Superseded
    <3>2. QED
      BY <2>1, <3>1, OptionFacts, Zenon DEF Current
  <2>2. CASE inflight[j] # NONE
    <3>1. inflight[j] \in Tasks
      BY <2>2 DEF Option
    <3>2. CASE "work" \in DOMAIN inflight[j]
      <4>1. Superseded[j] = [inflight[j] EXCEPT !.work = NONE]
        BY <2>2, <3>2, Zenon DEF Superseded
      <4>2. Superseded[j] \in Tasks /\ Superseded[j] # NONE /\ Superseded[j].work = NONE
            /\ Superseded[j].kind = inflight[j].kind
        BY <3>1, <3>2, <4>1, TaskShape, NoneIsNoTask
      <4>3. QED
        BY <2>2, <4>2, OptionFacts, Zenon DEF Current
    <3>3. CASE "work" \notin DOMAIN inflight[j]
      <4>1. Superseded[j] = inflight[j]
        BY <2>2, <3>3, Zenon DEF Superseded
      <4>2. inflight[j].kind \notin {"verify", "shards", "extract"}
        BY <3>1, <3>3, TaskShape
      <4>3. QED
        BY <2>2, <4>1, <4>2, Zenon DEF Current
    <3>4. QED
      BY <3>2, <3>3
  <2>3. QED
    BY <2>1, <2>2
<1>2. QED
  BY <1>1, Zenon DEF Superseded

-----------------------------------------------------------------------------
(* The inductive invariant. *)

\* The claims of the view are kept because a working copy that still counts was
\* computed from the current store (WorkIsCurrent); the busy flags are not part of what
\* is merged, so each stays with its handler.
IInv == /\ TypeOK /\ WorkIsCurrent /\ BusyHasOwner
        /\ CacheCoherent /\ VerifiedIsEarned /\ SecretMatchesBackup

Parts == /\ Sound(store)
         /\ inflight \in [Slots -> Option(Tasks)] /\ crypto \in CryptoModes
         /\ BusyHasOwner
         /\ \A k \in Slots : Current(inflight[k], store)

\* The invariant as the conjuncts the step lemmas preserve one by one.
LEMMA IInvParts == IInv <=> Parts
BY CurrentIsWorkIsCurrent, Zenon
   DEF IInv, Parts, TypeOK, CacheCoherent, VerifiedIsEarned, SecretMatchesBackup,
       Sound, Good, Coherent, Earned, Bound, Authentic, Matching

\* An applied change that starts and ends no handler.
LEMMA CommitKeeps ==
    ASSUME IInv, Sound(store'), inflight' = Superseded, crypto' = crypto,
           store'.isAddingFrames => store.isAddingFrames,
           store'.isAddingShards => store.isAddingShards,
           store'.isDecrypting => store.isDecrypting
    PROVE  IInv'
<1>1. inflight \in [Slots -> Option(Tasks)] /\ crypto \in CryptoModes /\ BusyHasOwner
  BY IInvParts DEF Parts
<1>2. inflight' \in [Slots -> Option(Tasks)]
  <2>1. CASE Slots = {}
    BY <1>1, <2>1 DEF Superseded
  <2>2. CASE Slots # {}
    BY <1>1, <2>2, SupersededType
  <2>3. QED
    BY <2>1, <2>2
<1>3. \A k \in Slots : Current(inflight'[k], store')
  BY <1>1, SupersededType
<1>4. \A k \in Slots : \A kind : Waiting(k, kind) => Waiting(k, kind)'
  BY <1>1, SupersededType, Zenon DEF Waiting
<1>5. BusyHasOwner'
  BY <1>1, <1>4, Zenon DEF BusyHasOwner
<1>6. Parts'
  BY <1>1, <1>2, <1>3, <1>5 DEF Parts
<1>7. QED
  BY <1>6, IInvParts, PTL

\* A handler applies a change and waits in slot k as t.
LEMMA WaitKeeps ==
    ASSUME IInv, Sound(store'), crypto' = crypto,
           NEW k \in Slots, NEW t \in Tasks, inflight[k] = NONE,
           inflight' = [Superseded EXCEPT ![k] = t],
           store'.isAddingFrames => store.isAddingFrames \/ t.kind = "verify",
           store'.isAddingShards => store.isAddingShards \/ t.kind = "shards",
           store'.isDecrypting => store.isDecrypting \/ t.kind = "decrypt",
           Current(t, store')
    PROVE  IInv'
<1>1. inflight \in [Slots -> Option(Tasks)] /\ crypto \in CryptoModes /\ BusyHasOwner
  BY IInvParts DEF Parts
<1>2. Superseded \in [Slots -> Option(Tasks)] /\ t \in Option(Tasks) /\ t # NONE
  BY <1>1, SupersededType, OptionFacts, NoneIsNoTask
<1>3. inflight' \in [Slots -> Option(Tasks)]
  BY <1>2
<1>4. inflight'[k] = t /\ \A j \in Slots : j # k => inflight'[j] = Superseded[j]
  BY <1>2
<1>5. \A j \in Slots : Current(inflight'[j], store')
  BY <1>1, <1>4, SupersededType
<1>6. \A j \in Slots : \A kind : Waiting(j, kind) => Waiting(j, kind)'
  BY <1>1, <1>4, SupersededType, Zenon DEF Waiting
<1>7. Waiting(k, t.kind)'
  BY <1>2, <1>4, Zenon DEF Waiting
<1>8. BusyHasOwner'
  BY <1>1, <1>6, <1>7, Zenon DEF BusyHasOwner
<1>9. Parts'
  BY <1>1, <1>3, <1>5, <1>8 DEF Parts
<1>10. QED
  BY <1>9, IInvParts, PTL

\* The handler in slot k applies its change and ends; it clears the flag it owns.
LEMMA FinishKeeps ==
    ASSUME IInv, Sound(store'), crypto' = crypto,
           NEW k \in Slots, inflight[k] # NONE,
           inflight' = [Superseded EXCEPT ![k] = NONE],
           store'.isAddingFrames => store.isAddingFrames /\ inflight[k].kind # "verify",
           store'.isAddingShards => store.isAddingShards /\ inflight[k].kind # "shards",
           store'.isDecrypting => store.isDecrypting /\ inflight[k].kind # "decrypt"
    PROVE  IInv'
<1>1. inflight \in [Slots -> Option(Tasks)] /\ crypto \in CryptoModes /\ BusyHasOwner
  BY IInvParts DEF Parts
<1>2. Superseded \in [Slots -> Option(Tasks)] /\ NONE \in Option(Tasks)
  BY <1>1, SupersededType, OptionFacts
<1>3. inflight' \in [Slots -> Option(Tasks)]
  BY <1>2
<1>4. inflight'[k] = NONE /\ \A j \in Slots : j # k => inflight'[j] = Superseded[j]
  BY <1>2
<1>5. Current(inflight'[k], store')
  BY <1>4, Zenon DEF Current
<1>6. \A j \in Slots : Current(inflight'[j], store')
  BY <1>1, <1>4, <1>5, SupersededType
<1>7. \A j \in Slots : \A kind :
          Waiting(j, kind) /\ inflight[k].kind # kind => Waiting(j, kind)'
  BY <1>1, <1>4, SupersededType, Zenon DEF Waiting
<1>8. BusyHasOwner'
  BY <1>1, <1>7, Zenon DEF BusyHasOwner
<1>9. Parts'
  BY <1>1, <1>3, <1>6, <1>8 DEF Parts
<1>10. QED
  BY <1>9, IInvParts, PTL

\* A handler that leaves the store alone starts (v is its task) or ends (v is NONE).
LEMMA SlotKeeps ==
    ASSUME IInv, UNCHANGED <<store, crypto>>,
           NEW k \in Slots, NEW v \in Option(Tasks),
           inflight' = [inflight EXCEPT ![k] = v],
           inflight[k] = NONE \/ inflight[k].kind \in {"extract", "copy"},
           Current(v, store)
    PROVE  IInv'
<1>1. /\ inflight \in [Slots -> Option(Tasks)] /\ crypto \in CryptoModes /\ BusyHasOwner
      /\ Sound(store) /\ \A j \in Slots : Current(inflight[j], store)
  BY IInvParts DEF Parts
<1>2. inflight' \in [Slots -> Option(Tasks)]
  BY <1>1
<1>3. inflight'[k] = v /\ \A j \in Slots : j # k => inflight'[j] = inflight[j]
  BY <1>1
<1>4. \A j \in Slots : Current(inflight'[j], store)
  BY <1>1, <1>3
<1>5. \A j \in Slots : \A kind \in {"verify", "shards", "decrypt"} :
          Waiting(j, kind) => Waiting(j, kind)'
  <2>1. SUFFICES ASSUME NEW j \in Slots, NEW kind \in {"verify", "shards", "decrypt"},
                        Waiting(j, kind)
                 PROVE  Waiting(j, kind)'
    BY Zenon
  <2>2. j # k
    BY <2>1 DEF Waiting
  <2>3. QED
    BY <1>3, <2>1, <2>2 DEF Waiting
<1>6. BusyHasOwner'
  BY <1>1, <1>5 DEF BusyHasOwner
<1>7. Parts'
  BY <1>1, <1>2, <1>4, <1>6 DEF Parts
<1>8. QED
  BY <1>7, IInvParts, PTL

-----------------------------------------------------------------------------
(* Each action keeps the invariant. *)

\* Everything Sound reads.
SameSound(t, s) ==
    /\ SameCollected(t, s) /\ t.authStatus = s.authStatus
    /\ t.ciphertext = s.ciphertext /\ t.cipherDocHashHex = s.cipherDocHashHex
    /\ t.recoveredShardSecret = s.recoveredShardSecret

\* Soundness reads only the fields that a merge copies or leaves alone.
LEMMA SoundCopy ==
    ASSUME NEW s, Sound(s), NEW t \in States, SameSound(t, s)
    PROVE  Sound(t)
<1>1. FramesFit(t)
  BY SameEvidence DEF SameSound, Sound, Good
<1>2. Coherent(t) /\ Earned(t) /\ Bound(t)
  BY SameClaims DEF SameSound, Sound
<1>3. QED
  BY <1>1, <1>2 DEF Sound, Good

\* A status is merged with the follow-ups; "verified" only if it was earned.
LEMMA LandedSound ==
    ASSUME NEW s, Sound(s), NEW v, Good(v), Coherent(v), Bound(v), SameCollected(v, s),
           NEW status \in AuthStatuses, status = "verified" => Authentic(s)
    PROVE  LET t == LandMain(s, MainFollowups(v, status))
           IN /\ Sound(t) /\ t.isAddingFrames = FALSE
              /\ t.isAddingShards = s.isAddingShards /\ t.isDecrypting = s.isDecrypting
<1> DEFINE w == MainFollowups(v, status)
           t == LandMain(s, w)
<1>1. /\ Good(w) /\ SameCollected(w, v) /\ w.authStatus = status
      /\ Coherent(w) /\ Bound(w)
  BY MainFollowupsType
<1>2. SameCollected(w, s)
  BY <1>1, Zenon DEF SameCollected
<1> HIDE DEF w
<1>3. /\ Good(t) /\ SameCollected(t, w) /\ t.authStatus = status
      /\ Coherent(t) /\ Bound(t)
      /\ t.isAddingFrames = FALSE /\ t.isAddingShards = s.isAddingShards
      /\ t.isDecrypting = s.isDecrypting
  BY <1>1, <1>2, LandMainType DEF Sound
<1> HIDE DEF t
<1>4. SameCollected(t, s)
  BY <1>2, <1>3, Zenon DEF SameCollected
<1>5. Earned(t)
  BY <1>3, <1>4, SameEvidence, Zenon DEF Earned
<1>6. QED
  BY <1>3, <1>5 DEF Sound, t, w

\* The working copy updateAuthStatus waits with is sound.
LEMMA AuthWorkSound ==
    ASSUME NEW s, Sound(s)
    PROVE  LET w == AuthWork(s)
           IN Good(w) /\ Coherent(w) /\ Bound(w) /\ SameCollected(w, s)
<1>1. /\ Good(AuthWork(s)) /\ Coherent(AuthWork(s)) /\ SameCollected(AuthWork(s), s)
      /\ AuthWork(s).recoveredShardSecret = s.recoveredShardSecret
  BY AuthWorkType DEF Sound
<1>2. Bound(AuthWork(s))
  BY <1>1, SameEvidence, Zenon DEF Sound, Bound
<1>3. QED
  BY <1>1, <1>2

\* What the invariant says of the store alone.
LEMMA StoreSound == IInv => /\ Sound(store) /\ store \in States
                            /\ inflight \in [Slots -> Option(Tasks)]
BY IInvParts DEF Parts, Sound, Good

\* Inputs are pastes of at most two frames.
LEMMA PasteType == Pastes \subseteq PasteSet /\ ShardPastes \subseteq PasteSet
BY KitInputs DEF PasteSet

\* Adding backup frames preserves the invariant (addPayloads, addScannedPayload).
LEMMA AddPayloadsKeeps ==
    ASSUME IInv, NEW p \in Pastes, AddPayloads(p)
    PROVE  IInv'
<1> DEFINE read == AddPaste(store, p)
           base == [read EXCEPT !.isAddingFrames = TRUE, !.cleared = FALSE]
           outcome == IF AuthStatusPending THEN base.authStatus ELSE AuthOutcome(base)
           work == IF AuthStatusPending THEN base ELSE AuthWork(base)
           status == IF outcome = "verify" THEN NotVerified ELSE outcome
           landed == LandMain(base, MainFollowups(work, status))
           task == [kind |-> "verify", work |-> work]
<1>1. Sound(store) /\ inflight \in [Slots -> Option(Tasks)] /\ crypto' = crypto
  BY StoreSound DEF AddPayloads
<1>2. Sound(read) /\ SameBusy(read, store) /\ read \in States
  BY <1>1, PasteType, AddPasteSound DEF Sound, Good
<1> HIDE DEF read
<1>3. /\ base \in States /\ SameSound(base, read)
      /\ base.isAddingShards = read.isAddingShards /\ base.isDecrypting = read.isDecrypting
  BY <1>2, Zenon DEF States, SameSound, SameCollected
<1> HIDE DEF base
<1>4. Sound(base)
  BY <1>2, <1>3, SoundCopy
<1>5. /\ base.isAddingShards = store.isAddingShards
      /\ base.isDecrypting = store.isDecrypting
  BY <1>2, <1>3 DEF SameBusy
<1>6. Good(work) /\ Coherent(work) /\ Bound(work) /\ SameCollected(work, base)
  BY <1>4, AuthWorkSound DEF Sound, SameCollected
<1>7. base.authStatus \in AuthStatuses
  BY <1>3 DEF States
<1>8. AuthOutcome(base) # "verified" /\ "verify" \notin AuthStatuses
  BY DEF AuthOutcome, AuthStatuses
<1>9. CASE outcome = "verify" /\ crypto # "absent"
  <2>1. ~AuthStatusPending /\ AuthOutcome(base) = "verify" /\ work = AuthWork(base)
    BY <1>7, <1>8, <1>9
  <2>2. PICK k \in Slots : /\ inflight[k] = NONE /\ store' = base
                           /\ inflight' = [Superseded EXCEPT ![k] = task]
    BY <1>9, Zenon DEF AddPayloads, CommitAndWait, FreeSlot, base, read
  <2>3. task \in Tasks
    BY <1>6, OptionFacts DEF Tasks, Good
  <2>4. Current(task, base)
    BY <2>1 DEF Current
  <2>5. task.kind = "verify"
    OBVIOUS
  <2> HIDE DEF task
  <2>6. QED
    BY <1>1, <1>4, <1>5, <2>2, <2>3, <2>4, <2>5, WaitKeeps
<1>10. CASE ~(outcome = "verify" /\ crypto # "absent")
  <2>1. Commit(landed)
    BY <1>10, Zenon DEF AddPayloads, base, read
  <2>2. status \in AuthStatuses
    <3>1. NotVerified \in AuthStatuses
      BY DEF NotVerified, AuthStatuses
    <3>2. AuthOutcome(base) \in AuthStatuses \cup {"verify"}
      BY <1>4, AuthOutcomeType DEF Sound
    <3>3. QED
      BY <1>7, <3>1, <3>2
  <2>3. status = "verified" => Authentic(base)
    <3>1. NotVerified # "verified"
      BY DEF NotVerified
    <3>2. base.authStatus = "verified" => Authentic(base)
      BY <1>4 DEF Sound, Earned
    <3>3. QED
      BY <1>8, <3>1, <3>2
  <2> HIDE DEF status, work
  <2>4. /\ Sound(landed) /\ landed.isAddingFrames = FALSE
        /\ landed.isAddingShards = base.isAddingShards
        /\ landed.isDecrypting = base.isDecrypting
    BY <1>4, <1>6, <2>2, <2>3, LandedSound
  <2> HIDE DEF landed
  <2>5. QED
    BY <1>1, <1>5, <2>1, <2>4, CommitKeeps DEF Commit
<1>11. QED
  BY <1>9, <1>10

\* One field of the store changes that no claim reads.
LEMMA FlagSound ==
    ASSUME NEW s, Sound(s)
    PROVE  /\ LET t == [s EXCEPT !.isAddingFrames = FALSE]
              IN /\ Sound(t) /\ t.isAddingFrames = FALSE
                 /\ t.isAddingShards = s.isAddingShards /\ t.isDecrypting = s.isDecrypting
           /\ LET t == [s EXCEPT !.isAddingShards = FALSE]
              IN /\ Sound(t) /\ t.isAddingShards = FALSE
                 /\ t.isAddingFrames = s.isAddingFrames /\ t.isDecrypting = s.isDecrypting
           /\ LET t == [s EXCEPT !.isDecrypting = FALSE]
              IN /\ Sound(t) /\ t.isDecrypting = FALSE
                 /\ t.isAddingFrames = s.isAddingFrames
                 /\ t.isAddingShards = s.isAddingShards
<1> DEFINE a == [s EXCEPT !.isAddingFrames = FALSE]
           b == [s EXCEPT !.isAddingShards = FALSE]
           c == [s EXCEPT !.isDecrypting = FALSE]
<1>1. s \in States
  BY DEF Sound, Good
<1>2. /\ a \in States /\ SameSound(a, s) /\ a.isAddingFrames = FALSE
      /\ a.isAddingShards = s.isAddingShards /\ a.isDecrypting = s.isDecrypting
  BY <1>1, Zenon DEF States, SameSound, SameCollected
<1>3. /\ b \in States /\ SameSound(b, s) /\ b.isAddingShards = FALSE
      /\ b.isAddingFrames = s.isAddingFrames /\ b.isDecrypting = s.isDecrypting
  BY <1>1, Zenon DEF States, SameSound, SameCollected
<1>4. /\ c \in States /\ SameSound(c, s) /\ c.isDecrypting = FALSE
      /\ c.isAddingFrames = s.isAddingFrames /\ c.isAddingShards = s.isAddingShards
  BY <1>1, Zenon DEF States, SameSound, SameCollected
<1> HIDE DEF a, b, c
<1>5. Sound(a) /\ Sound(b) /\ Sound(c)
  BY <1>2, <1>3, <1>4, SoundCopy
<1>6. QED
  BY <1>2, <1>3, <1>4, <1>5 DEF a, b, c

\* So does the end of its signature check, accepted or dropped.
LEMMA FinishPayloadsKeeps ==
    ASSUME IInv, NEW k \in Slots, FinishPayloads(k)
    PROVE  IInv'
<1> DEFINE t == inflight[k]
           status == CASE crypto = "rejects" -> NotVerified
                       [] t.work.authPayload.genuine -> "verified"
                       [] OTHER -> "invalid signature"
           landed == LandMain(store, MainFollowups(t.work, status))
<1>1. /\ Sound(store) /\ inflight \in [Slots -> Option(Tasks)] /\ crypto' = crypto
      /\ t # NONE /\ t.kind = "verify" /\ Current(t, store)
      /\ inflight' = [Superseded EXCEPT ![k] = NONE]
      /\ store' = IF t.work = NONE THEN [store EXCEPT !.isAddingFrames = FALSE] ELSE landed
  BY StoreSound, IInvParts DEF FinishPayloads, Waiting, Parts
<1>2. CASE t.work = NONE
  <2>1. /\ Sound(store') /\ store'.isAddingFrames = FALSE
        /\ store'.isAddingShards = store.isAddingShards
        /\ store'.isDecrypting = store.isDecrypting
    BY <1>1, <1>2, FlagSound
  <2>2. QED
    BY <1>1, <2>1, FinishKeeps
<1>3. CASE t.work # NONE
  <2>1. AuthOutcome(store) = "verify" /\ t.work = AuthWork(store)
    BY <1>1, <1>3 DEF Current
  <2>2. Good(t.work) /\ Coherent(t.work) /\ Bound(t.work) /\ SameCollected(t.work, store)
    BY <1>1, <2>1, AuthWorkSound
  <2>3. status \in AuthStatuses
    BY DEF NotVerified, AuthStatuses
  <2>4. status = "verified" => Authentic(store)
    <3>1. SUFFICES ASSUME t.work.authPayload.genuine PROVE Authentic(store)
      BY DEF NotVerified
    <3>2. store.authPayload.genuine
      BY <2>2, <3>1, Zenon DEF SameCollected
    <3>3. QED
      BY <1>1, <2>1, <3>2, AuthOutcomeSound DEF Sound
  <2> HIDE DEF status
  <2>5. /\ Sound(landed) /\ landed.isAddingFrames = FALSE
        /\ landed.isAddingShards = store.isAddingShards
        /\ landed.isDecrypting = store.isDecrypting
    BY <1>1, <2>2, <2>3, <2>4, LandedSound
  <2>6. store' = landed
    BY <1>1, <1>3
  <2> HIDE DEF landed
  <2>7. QED
    BY <1>1, <2>5, <2>6, FinishKeeps
<1>4. QED
  BY <1>2, <1>3

\* The shard follow-ups, merged into the state they were computed from.
LEMMA LandShardsSound ==
    ASSUME NEW s, Sound(s), NEW v, Good(v), Coherent(v), Bound(v), SameCollected(v, s)
    PROVE  LET t == LandShards(s, AutoRecoverShardSecret(v))
           IN /\ Sound(t) /\ t.isAddingShards = FALSE
              /\ t.isAddingFrames = s.isAddingFrames /\ t.isDecrypting = s.isDecrypting
<1> DEFINE w == AutoRecoverShardSecret(v)
           t == LandShards(s, w)
<1>1. Good(w) /\ SameCollected(w, v) /\ Coherent(w) /\ Bound(w)
  BY AutoRecoverType
<1>2. SameCollected(w, s)
  BY <1>1, Zenon DEF SameCollected
<1> HIDE DEF w
<1>3. /\ Good(t) /\ SameCollected(t, w) /\ t.authStatus = s.authStatus
      /\ Coherent(t) /\ Bound(t) /\ t.isAddingShards = FALSE
      /\ t.isAddingFrames = s.isAddingFrames /\ t.isDecrypting = s.isDecrypting
  BY <1>1, <1>2, LandShardsType DEF Sound
<1> HIDE DEF t
<1>4. SameCollected(t, s)
  BY <1>2, <1>3, Zenon DEF SameCollected
<1>5. Earned(t)
  BY <1>3, <1>4, SameEvidence, Zenon DEF Sound, Earned
<1>6. QED
  BY <1>3, <1>5 DEF Sound, t, w

\* Adding shards preserves the invariant (addShardPayloads, addScannedShardPayload).
LEMMA AddShardPayloadsKeeps ==
    ASSUME IInv, NEW p \in ShardPastes, AddShardPayloads(p)
    PROVE  IInv'
<1> DEFINE read == AddShardPaste(store, p)
           parsed == [read EXCEPT !.isAddingShards = TRUE]
           landed == LandShards(parsed, AutoRecoverShardSecret(parsed))
           task == [kind |-> "shards", work |-> parsed]
<1>1. Sound(store) /\ inflight \in [Slots -> Option(Tasks)] /\ crypto' = crypto
  BY StoreSound DEF AddShardPayloads
<1>2. Sound(read) /\ SameBusy(read, store) /\ read \in States
  BY <1>1, PasteType, AddPasteSound DEF Sound, Good
<1> HIDE DEF read
<1>3. /\ parsed \in States /\ SameSound(parsed, read)
      /\ parsed.isAddingFrames = read.isAddingFrames
      /\ parsed.isDecrypting = read.isDecrypting
  BY <1>2, Zenon DEF States, SameSound, SameCollected
<1> HIDE DEF parsed
<1>4. Sound(parsed)
  BY <1>2, <1>3, SoundCopy
<1>5. /\ parsed.isAddingFrames = store.isAddingFrames
      /\ parsed.isDecrypting = store.isDecrypting
  BY <1>2, <1>3 DEF SameBusy
<1>6. CASE DOMAIN parsed.shardFrames # {} /\ crypto # "absent"
  <2>1. PICK k \in Slots : /\ inflight[k] = NONE /\ store' = parsed
                           /\ inflight' = [Superseded EXCEPT ![k] = task]
    BY <1>6, Zenon DEF AddShardPayloads, CommitAndWait, FreeSlot, parsed, read
  <2>2. task \in Tasks
    BY <1>3, OptionFacts DEF Tasks
  <2>3. Current(task, parsed) /\ task.kind = "shards"
    BY DEF Current
  <2> HIDE DEF task
  <2>4. QED
    BY <1>1, <1>4, <1>5, <2>1, <2>2, <2>3, WaitKeeps
<1>7. CASE ~(DOMAIN parsed.shardFrames # {} /\ crypto # "absent")
  <2>1. Commit(landed)
    BY <1>7, Zenon DEF AddShardPayloads, parsed, read
  <2>2. /\ Sound(landed) /\ landed.isAddingShards = FALSE
        /\ landed.isAddingFrames = parsed.isAddingFrames
        /\ landed.isDecrypting = parsed.isDecrypting
    BY <1>4, LandShardsSound DEF Sound, SameCollected
  <2> HIDE DEF landed
  <2>3. QED
    BY <1>1, <1>5, <2>1, <2>2, CommitKeeps DEF Commit
<1>8. QED
  BY <1>6, <1>7

\* So does the end of their signature checks.
LEMMA FinishShardPayloadsKeeps ==
    ASSUME IInv, NEW k \in Slots, FinishShardPayloads(k)
    PROVE  IInv'
<1> DEFINE t == inflight[k]
           checked == VerifyCollected(t.work)
           landed == LandShards(store, AutoRecoverShardSecret(checked))
<1>1. /\ Sound(store) /\ crypto' = crypto
      /\ t # NONE /\ t.kind = "shards" /\ Current(t, store)
      /\ inflight' = [Superseded EXCEPT ![k] = NONE]
      /\ store' = IF t.work = NONE THEN [store EXCEPT !.isAddingShards = FALSE] ELSE landed
  BY StoreSound, IInvParts DEF FinishShardPayloads, Waiting, Parts
<1>2. CASE t.work = NONE
  <2>1. /\ Sound(store') /\ store'.isAddingShards = FALSE
        /\ store'.isAddingFrames = store.isAddingFrames
        /\ store'.isDecrypting = store.isDecrypting
    BY <1>1, <1>2, FlagSound
  <2>2. QED
    BY <1>1, <2>1, FinishKeeps
<1>3. CASE t.work # NONE
  <2>1. t.work = store
    BY <1>1, <1>3 DEF Current
  <2>2. /\ Good(checked) /\ Coherent(checked) /\ Bound(checked)
        /\ SameCollected(checked, store)
    BY <1>1, <2>1, VerifyCollectedType DEF Sound
  <2> HIDE DEF checked
  <2>3. /\ Sound(landed) /\ landed.isAddingShards = FALSE
        /\ landed.isAddingFrames = store.isAddingFrames
        /\ landed.isDecrypting = store.isDecrypting
    BY <1>1, <2>2, LandShardsSound
  <2>4. store' = landed
    BY <1>1, <1>3
  <2> HIDE DEF landed
  <2>5. QED
    BY <1>1, <2>3, <2>4, FinishKeeps
<1>4. QED
  BY <1>2, <1>3

\* Recovered files and a shown envelope are no part of the claims.
LEMMA RecoveredSound ==
    ASSUME NEW s, Sound(s), NEW bytes \in Ciphertexts, NEW typed \in Passphrases
    PROVE  LET t == Recovered(s, bytes, typed)
           IN /\ Sound(t) /\ t.isDecrypting = FALSE
              /\ t.isAddingFrames = s.isAddingFrames /\ t.isAddingShards = s.isAddingShards
<1> DEFINE a == IF s.agePassphrase = typed THEN NONE ELSE s.agePassphrase
           t == [s EXCEPT !.decryptedEnvelope = bytes, !.extractedFiles = bytes,
                          !.isDecrypting = FALSE, !.recoveryComplete = TRUE,
                          !.agePassphrase = a]
<1>1. /\ s \in States /\ bytes \in Option(Ciphertexts) /\ a \in Option(Passphrases)
  BY OptionFacts DEF Sound, Good, States
<1>2. Recovered(s, bytes, typed) = t
  BY <1>1, Zenon DEF Recovered, States
<1> HIDE DEF a
<1>3. /\ t \in States /\ SameSound(t, s) /\ t.isDecrypting = FALSE
      /\ t.isAddingFrames = s.isAddingFrames /\ t.isAddingShards = s.isAddingShards
  BY <1>1, Zenon DEF States, SameSound, SameCollected
<1> HIDE DEF t
<1>4. QED
  BY <1>2, <1>3, SoundCopy

\* Starting to unlock preserves the invariant (decryptCiphertext).
LEMMA DecryptCiphertextKeeps ==
    ASSUME IInv, DecryptCiphertext
    PROVE  IInv'
<1> DEFINE c == IF store.ciphertext = NONE THEN Reassembled(store) ELSE store.ciphertext
           bare == [store EXCEPT !.extractedFiles = NONE, !.decryptedEnvelope = NONE]
           prep == [store EXCEPT !.extractedFiles = NONE, !.decryptedEnvelope = NONE,
                                 !.ciphertext = c]
           bytes == prep.ciphertext
           started == [prep EXCEPT !.isDecrypting = TRUE]
           typed == store.agePassphrase
           done == Recovered(started, bytes, typed)
           task == [kind |-> "decrypt", bytes |-> bytes, typed |-> typed]
<1>1. /\ Sound(store) /\ store \in States /\ inflight \in [Slots -> Option(Tasks)]
      /\ crypto' = crypto /\ CanDecrypt
  BY StoreSound DEF DecryptCiphertext
<1>2. /\ store.agePassphrase # NONE
      /\ store.ciphertext # NONE \/ AllFrames(store)
  BY <1>1 DEF CanDecrypt
<1>3. typed \in Passphrases /\ NONE \in Option(Ciphertexts)
      /\ store.ciphertext \in Option(Ciphertexts)
  BY <1>1, <1>2, OptionFacts DEF States, Option
<1>4. c \in Ciphertexts /\ AllFrames(store) /\ c = Reassembled(store)
      /\ c \in Option(Ciphertexts)
  BY <1>1, <1>2, <1>3, ReassembledType, OptionFacts DEF Sound, Coherent, Option
<1>5. /\ \/ Commit(bare) \/ Commit(prep) \/ Commit(done)
         \/ CommitAndWait(started, task)
  BY <1>1, Zenon DEF DecryptCiphertext, States
<1>6. /\ bare \in States /\ SameSound(bare, store) /\ SameBusy(bare, store)
  BY <1>1, <1>3, Zenon DEF States, SameSound, SameCollected, SameBusy
<1>7. Sound(bare)
  BY <1>1, <1>6, SoundCopy
<1> HIDE DEF bare, c
<1>8. /\ prep \in States /\ SameCollected(prep, store) /\ SameBusy(prep, store)
      /\ prep.authStatus = store.authStatus /\ bytes = c
      /\ prep.cipherDocHashHex = store.cipherDocHashHex
      /\ prep.recoveredShardSecret = store.recoveredShardSecret
  BY <1>1, <1>3, <1>4, Zenon DEF States, SameCollected, SameBusy
<1>9. Sound(prep)
  <2> HIDE DEF prep
  <2>1. FramesFit(prep) /\ AllFrames(prep) /\ Reassembled(prep) = Reassembled(store)
    BY <1>1, <1>4, <1>8, SameEvidence, Zenon DEF Sound, Good
  <2>2. c # NONE
    BY <1>4, KitConstants
  <2>3. Coherent(prep)
    BY <1>1, <1>4, <1>8, <2>1, <2>2, Zenon DEF Sound, Coherent
  <2>4. Earned(prep) /\ Bound(prep)
    BY <1>1, <1>8, SameEvidence, Zenon DEF Sound, Earned, Bound
  <2>5. QED
    BY <1>8, <2>1, <2>3, <2>4 DEF Sound, Good
<1> HIDE DEF prep
<1>10. /\ started \in States /\ SameSound(started, prep)
       /\ started.isAddingFrames = prep.isAddingFrames
       /\ started.isAddingShards = prep.isAddingShards
  BY <1>8, Zenon DEF States, SameSound, SameCollected
<1> HIDE DEF started
<1>11. Sound(started)
  BY <1>9, <1>10, SoundCopy
<1>12. CASE Commit(bare)
  BY <1>1, <1>6, <1>7, <1>12, CommitKeeps DEF Commit, SameBusy
<1>13. CASE Commit(prep)
  BY <1>1, <1>8, <1>9, <1>13, CommitKeeps DEF Commit, SameBusy
<1>14. CASE Commit(done)
  <2>1. /\ Sound(done) /\ done.isDecrypting = FALSE
        /\ done.isAddingFrames = started.isAddingFrames
        /\ done.isAddingShards = started.isAddingShards
    BY <1>3, <1>4, <1>8, <1>11, RecoveredSound
  <2> HIDE DEF done
  <2>2. QED
    BY <1>1, <1>8, <1>10, <1>14, <2>1, CommitKeeps DEF Commit, SameBusy
<1>15. CASE CommitAndWait(started, task)
  <2>1. PICK k \in Slots : /\ inflight[k] = NONE /\ store' = started
                           /\ inflight' = [Superseded EXCEPT ![k] = task]
    BY <1>15, Zenon DEF CommitAndWait, FreeSlot
  <2>2. task \in Tasks
    BY <1>3, <1>4, <1>8 DEF Tasks
  <2>3. task.kind = "decrypt" /\ Current(task, started)
    BY DEF Current
  <2> HIDE DEF task
  <2>4. QED
    BY <1>1, <1>8, <1>10, <1>11, <2>1, <2>2, <2>3, WaitKeeps DEF SameBusy
<1>16. QED
  BY <1>5, <1>12, <1>13, <1>14, <1>15

\* So does its end, which writes onto whatever state is current.
LEMMA FinishDecryptKeeps ==
    ASSUME IInv, NEW k \in Slots, FinishDecrypt(k)
    PROVE  IInv'
<1> DEFINE t == inflight[k]
           done == Recovered(store, t.bytes, t.typed)
<1>1. /\ Sound(store) /\ inflight \in [Slots -> Option(Tasks)] /\ crypto' = crypto
      /\ t # NONE /\ t.kind = "decrypt"
      /\ inflight' = [Superseded EXCEPT ![k] = NONE]
      /\ store' = done \/ store' = [store EXCEPT !.isDecrypting = FALSE]
  BY StoreSound, Zenon DEF FinishDecrypt, Waiting
<1>2. t.bytes \in Ciphertexts /\ t.typed \in Passphrases
  <2>1. t \in Tasks
    BY <1>1 DEF Option
  <2>2. QED
    BY <1>1, <2>1 DEF Tasks
<1>3. /\ Sound(done) /\ done.isDecrypting = FALSE
      /\ done.isAddingFrames = store.isAddingFrames
      /\ done.isAddingShards = store.isAddingShards
  BY <1>1, <1>2, RecoveredSound
<1> HIDE DEF done
<1>4. /\ Sound(store') /\ store'.isDecrypting = FALSE
      /\ store'.isAddingFrames = store.isAddingFrames
      /\ store'.isAddingShards = store.isAddingShards
  BY <1>1, <1>3, FlagSound
<1>5. QED
  BY <1>1, <1>4, FinishKeeps

\* The copy extractEnvelope works on.
LEMMA ExtractSound ==
    ASSUME NEW s, Sound(s)
    PROVE  LET t == [s EXCEPT !.extractedFiles = s.decryptedEnvelope]
           IN Sound(t) /\ SameBusy(t, s)
<1> DEFINE t == [s EXCEPT !.extractedFiles = s.decryptedEnvelope]
<1>1. s \in States
  BY DEF Sound, Good
<1>2. t \in States /\ SameSound(t, s) /\ SameBusy(t, s)
  BY <1>1, Zenon DEF States, SameSound, SameCollected, SameBusy
<1> HIDE DEF t
<1>3. QED
  BY <1>2, SoundCopy DEF t

\* Extracting again preserves the invariant (extractEnvelope).
LEMMA ExtractEnvelopeKeeps ==
    ASSUME IInv, ExtractEnvelope
    PROVE  IInv'
<1> DEFINE work == [store EXCEPT !.extractedFiles = store.decryptedEnvelope]
           task == [kind |-> "extract", work |-> work]
<1>1. Sound(store) /\ Sound(work) /\ SameBusy(work, store) /\ crypto' = crypto
  BY StoreSound, ExtractSound DEF ExtractEnvelope
<1>2. CASE Commit(work)
  <2> HIDE DEF work
  <2>1. QED
    BY <1>1, <1>2, CommitKeeps DEF Commit, SameBusy
<1>3. CASE \E k \in Slots : /\ FreeSlot(k)
                            /\ inflight' = [inflight EXCEPT ![k] = task]
                            /\ UNCHANGED store
  <2>1. PICK k \in Slots : /\ inflight[k] = NONE /\ store' = store
                           /\ inflight' = [inflight EXCEPT ![k] = task]
    BY <1>3, Zenon DEF FreeSlot
  <2>2. task \in Option(Tasks)
    BY <1>1, OptionFacts DEF Tasks, Sound, Good
  <2>3. Current(task, store)
    BY DEF Current
  <2> HIDE DEF task
  <2>4. QED
    BY <1>1, <2>1, <2>2, <2>3, SlotKeeps
<1>4. QED
  BY <1>2, <1>3, Zenon DEF ExtractEnvelope

\* So does its end, which commits a snapshot: one still accepted is current.
LEMMA FinishExtractKeeps ==
    ASSUME IInv, NEW k \in Slots, FinishExtract(k)
    PROVE  IInv'
<1> DEFINE t == inflight[k]
           work == [store EXCEPT !.extractedFiles = store.decryptedEnvelope]
<1>1. /\ Sound(store) /\ crypto' = crypto
      /\ t # NONE /\ t.kind = "extract" /\ Current(t, store)
  BY StoreSound, IInvParts DEF FinishExtract, Waiting, Parts
<1>2. CASE t.work # NONE
  <2>1. store' = work /\ inflight' = [Superseded EXCEPT ![k] = NONE]
    BY <1>1, <1>2 DEF FinishExtract, Current
  <2>2. Sound(work) /\ SameBusy(work, store)
    BY <1>1, ExtractSound
  <2> HIDE DEF work
  <2>3. QED
    BY <1>1, <2>1, <2>2, FinishKeeps DEF SameBusy
<1>3. CASE t.work = NONE
  <2>1. UNCHANGED store /\ inflight' = [inflight EXCEPT ![k] = NONE]
    BY <1>3 DEF FinishExtract
  <2>2. NONE \in Option(Tasks) /\ Current(NONE, store)
    BY OptionFacts, Zenon DEF Current
  <2>3. QED
    BY <1>1, <2>1, <2>2, SlotKeeps
<1>4. QED
  BY <1>2, <1>3

\* The initial state is well typed and sound.
LEMMA InitialSound ==
    /\ Sound(CreateInitialState)
    /\ CreateInitialState.isAddingFrames = FALSE
    /\ CreateInitialState.isAddingShards = FALSE
    /\ CreateInitialState.isDecrypting = FALSE
<1> DEFINE s == CreateInitialState
<1>1. Empty \in MainMaps /\ Empty \in ShardMaps /\ DOMAIN Empty = {}
  <2>1. Empty \in [{} -> Chunks] /\ Empty \in [{} -> ShardPayloads]
    BY DEF Empty
  <2>2. QED
    BY <2>1 DEF MainMaps, ShardMaps
<1>2. \A S : NONE \in Option(S)
  BY OptionFacts
<1>3. "missing" \in AuthStatuses
  BY DEF AuthStatuses
<1>4. s \in States
  BY <1>1, <1>2, <1>3, Zenon DEF CreateInitialState, States
<1>5. /\ s.mainFrames = Empty /\ s.total = NONE /\ s.authStatus = "missing"
      /\ s.ciphertext = NONE /\ s.cipherDocHashHex = NONE
      /\ s.recoveredShardSecret = NONE
      /\ s.isAddingFrames = FALSE /\ s.isAddingShards = FALSE /\ s.isDecrypting = FALSE
  BY Zenon DEF CreateInitialState
<1> HIDE DEF s
<1>6. FramesFit(s)
  BY <1>1, <1>5 DEF FramesFit
<1>7. Coherent(s) /\ Bound(s)
  BY <1>5, Zenon DEF Coherent, Bound
<1>8. s.authStatus # "verified"
  BY <1>5
<1>9. QED
  BY <1>4, <1>5, <1>6, <1>7, <1>8 DEF Sound, Good, Earned, s

\* Typing, clearing, resetting and downloading preserve the invariant.
LEMMA SmallActionsKeep ==
    ASSUME IInv,
           \/ ClearOutput \/ DownloadCipher \/ DownloadZip \/ TypeText \/ ResetAll
           \/ \E v \in TypedPassphrases : TypePassphrase(v)
    PROVE  IInv'
<1>1. Sound(store) /\ store \in States /\ NONE \in Option(Ciphertexts)
  BY StoreSound, OptionFacts
<1>2. CASE ClearOutput
  <2> DEFINE t == [store EXCEPT !.extractedFiles = NONE]
  <2>1. t \in States /\ SameSound(t, store) /\ SameBusy(t, store)
    BY <1>1, Zenon DEF States, SameSound, SameCollected, SameBusy
  <2>2. Commit(t) /\ crypto' = crypto
    BY <1>2 DEF ClearOutput
  <2> HIDE DEF t
  <2>3. QED
    BY <1>1, <2>1, <2>2, SoundCopy, CommitKeeps DEF Commit, SameBusy
<1>3. CASE DownloadCipher
  <2> DEFINE s == SyncCollectedCiphertext(store)
             t == [s EXCEPT !.cleared = FALSE]
  <2>1. /\ Good(s) /\ SameCollected(s, store) /\ Coherent(s)
        /\ s.authStatus = store.authStatus
        /\ s.recoveredShardSecret = store.recoveredShardSecret
    BY <1>1, SyncType DEF Sound
  <2>2. SameBusy(s, store)
    BY <1>1, Zenon DEF SyncCollectedCiphertext, SameBusy, States
  <2>3. Commit(t) /\ crypto' = crypto
    BY <1>3 DEF DownloadCipher
  <2> HIDE DEF s
  <2>4. Sound(s)
    BY <1>1, <2>1, SameEvidence, Zenon DEF Sound, Earned, Bound
  <2>5. t \in States /\ SameSound(t, s) /\ SameBusy(t, s)
    BY <2>4, Zenon DEF Sound, Good, States, SameSound, SameCollected, SameBusy
  <2> HIDE DEF t
  <2>6. QED
    BY <2>2, <2>3, <2>4, <2>5, SoundCopy, CommitKeeps DEF Commit, SameBusy
<1>4. CASE DownloadZip \/ TypeText
  BY <1>1, <1>4, CommitKeeps DEF DownloadZip, TypeText, Commit
<1>5. CASE ResetAll
  <2>1. /\ Sound(CreateInitialState)
        /\ CreateInitialState.isAddingFrames = FALSE
        /\ CreateInitialState.isAddingShards = FALSE
        /\ CreateInitialState.isDecrypting = FALSE
    BY InitialSound
  <2>2. Commit(CreateInitialState) /\ crypto' = crypto
    BY <1>5 DEF ResetAll
  <2>3. QED
    BY <2>1, <2>2, CommitKeeps DEF Commit
<1>6. CASE \E v \in TypedPassphrases : TypePassphrase(v)
  <2>1. PICK v \in TypedPassphrases : TypePassphrase(v)
    BY <1>6
  <2> DEFINE t == [store EXCEPT !.agePassphrase = v]
  <2>2. v \in Option(Passphrases)
    BY KitInputs
  <2>3. t \in States /\ SameSound(t, store) /\ SameBusy(t, store)
    BY <1>1, <2>2, Zenon DEF States, SameSound, SameCollected, SameBusy
  <2>4. Commit(t) /\ crypto' = crypto
    BY <2>1 DEF TypePassphrase
  <2> HIDE DEF t
  <2>5. QED
    BY <1>1, <2>3, <2>4, SoundCopy, CommitKeeps DEF Commit, SameBusy
<1>7. QED
  BY <1>2, <1>3, <1>4, <1>5, <1>6

\* So does copying the secret to the clipboard.
LEMMA CopyKeeps ==
    ASSUME IInv, CopyRecoveredSecret \/ \E k \in Slots : FinishCopy(k)
    PROVE  IInv'
<1>1. Sound(store) /\ inflight \in [Slots -> Option(Tasks)]
  BY StoreSound
<1>2. CASE CopyRecoveredSecret
  <2> DEFINE task == [kind |-> "copy"]
  <2>1. PICK k \in Slots : FreeSlot(k) /\ inflight' = [inflight EXCEPT ![k] = task]
    BY <1>2 DEF CopyRecoveredSecret
  <2>2. task \in Option(Tasks) /\ Current(task, store)
    BY OptionFacts DEF Tasks, Current
  <2> HIDE DEF task
  <2>3. QED
    BY <1>2, <2>1, <2>2, SlotKeeps DEF FreeSlot, CopyRecoveredSecret
<1>3. CASE \E k \in Slots : FinishCopy(k)
  <2>1. PICK k \in Slots : FinishCopy(k)
    BY <1>3
  <2>2. QED
    BY <1>1, <2>1, FinishKeeps DEF FinishCopy, Waiting
<1>4. QED
  BY <1>2, <1>3

\* Every step preserves the invariant.
LEMMA StepKeeps ==
    ASSUME IInv, [Next]_vars
    PROVE  IInv'
<1>1. CASE User
  BY <1>1, AddPayloadsKeeps, AddShardPayloadsKeeps, DecryptCiphertextKeeps,
     ExtractEnvelopeKeeps, SmallActionsKeep, CopyKeeps DEF User
<1>2. CASE \E k \in Slots : Finish(k)
  BY <1>2, FinishPayloadsKeeps, FinishShardPayloadsKeeps, FinishDecryptKeeps,
     FinishExtractKeeps, CopyKeeps DEF Finish
<1>3. CASE UNCHANGED vars
  <2>1. Parts'
    BY <1>3, IInvParts DEF vars, Parts, BusyHasOwner, Waiting
  <2>2. QED
    BY <2>1, IInvParts, PTL
<1>4. QED
  BY <1>1, <1>2, <1>3 DEF Next

\* The invariant holds at the start.
LEMMA InitKeeps == Init => IInv
<1> SUFFICES ASSUME Init PROVE IInv
  OBVIOUS
<1>1. /\ Sound(store) /\ store.isAddingFrames = FALSE /\ store.isAddingShards = FALSE
      /\ store.isDecrypting = FALSE
  BY InitialSound DEF Init
<1>2. inflight \in [Slots -> Option(Tasks)]
  BY OptionFacts DEF Init
<1>3. \A k \in Slots : Current(inflight[k], store)
  BY Zenon DEF Init, Current
<1>4. BusyHasOwner
  BY <1>1, Zenon DEF BusyHasOwner
<1>5. crypto \in CryptoModes
  BY DEF Init
<1>6. QED
  BY <1>1, <1>2, <1>3, <1>4, <1>5, IInvParts DEF Parts

-----------------------------------------------------------------------------
(* Theorems. *)

\* The invariant holds in every state the kit can reach, whatever the frames,
\* shards, passphrases and browser, and however many handlers wait at once.
THEOREM Invariance == Spec => []IInv
BY InitKeeps, StepKeeps, PTL DEF Spec

\* Type correctness: in particular a collection that counts as complete always has each
\* of its frames, so reassembly (frames_cipher.js:22-45) never meets a gap.
THEOREM TypeCorrect == Spec => []TypeOK
BY Invariance, PTL DEF IInv

\* However handlers overlap, "verified" (auth.js:44-98) is only ever shown for the
\* complete backup whose hash a genuine AUTH payload signs.
THEOREM VerifiedIsAlwaysEarned == Spec => []VerifiedIsEarned
BY Invariance, PTL DEF IInv

\* The cached ciphertext and hash (frames_cipher.js:47-70), computed on working copies and
\* copied back after a wait, are always those of the collected frames.
THEOREM CacheAlwaysCoherent == Spec => []CacheCoherent
BY Invariance, PTL DEF IInv

\* A reconstructed secret (shards.js:29-92) is always shown beside the complete backup
\* that its shards name.
THEOREM SecretAlwaysMatches == Spec => []SecretMatchesBackup
BY Invariance, PTL DEF IInv

\* A busy flag (isAddingFrames, isAddingShards, isDecrypting) is never left behind or
\* brought back by a late snapshot: a waiting handler of its kind will clear it.
THEOREM BusyAlwaysOwned == Spec => []BusyHasOwner
BY Invariance, PTL DEF IInv

\* The reducer's revision check (reducer.js:24-52) lets a working copy through only
\* while it is still the one its handler computed from the present state.
THEOREM AcceptedWorkIsCurrent == Spec => []WorkIsCurrent
BY Invariance, PTL DEF IInv

-----------------------------------------------------------------------------
(* Nothing that was collected or typed is lost. *)

\* What t still holds of s: its frames, AUTH payload and shares, and the passphrase box.
Extends(t, s) ==
    /\ \A i \in DOMAIN s.mainFrames :
         i \in DOMAIN t.mainFrames /\ t.mainFrames[i] = s.mainFrames[i]
    /\ s.authPayload \in {NONE, t.authPayload}
    /\ \A i \in DOMAIN s.shardFrames :
         i \in DOMAIN t.shardFrames /\ t.shardFrames[i].share = s.shardFrames[i].share
    /\ t.agePassphrase = s.agePassphrase
    /\ t.recoveredShardSecret = s.recoveredShardSecret

\* The fields a paste into the shard box leaves alone.
SameBackup(t, s) ==
    /\ t.mainFrames = s.mainFrames /\ t.total = s.total /\ t.docIdHex = s.docIdHex
    /\ t.authPayload = s.authPayload /\ t.authDocIdHex = s.authDocIdHex
    /\ t.authStatus = s.authStatus /\ t.authConflicts = s.authConflicts
    /\ t.ciphertext = s.ciphertext

\* The fields that say what a recovery showed.
SameOutput(t, s) ==
    /\ t.extractedFiles = s.extractedFiles /\ t.decryptedEnvelope = s.decryptedEnvelope
    /\ t.recoveryComplete = s.recoveryComplete /\ t.cleared = s.cleared

\* A frame in the backup box is added to what is there (addFrame).
LEMMA AddFrameExtends ==
    ASSUME NEW s \in States, NEW f \in FrameSet
    PROVE  LET t == AddFrame(s, f)
           IN Extends(t, s) /\ t.shardFrames = s.shardFrames
<1> DEFINE m == Put(s.mainFrames, f.index, f.data)
           new == [s EXCEPT !.docIdHex = f.doc, !.total = f.total, !.mainFrames = m,
                            !.ciphertext = NONE, !.cipherDocHashHex = NONE]
           conflict == [s EXCEPT !.conflicts = TRUE]
           clash == [s EXCEPT !.authConflicts = TRUE]
           invalid == [s EXCEPT !.authStatus = "invalid payload"]
           first == [s EXCEPT !.authPayload = f.payload, !.authDocIdHex = f.doc,
                              !.authStatus = "pending"]
           second == [s EXCEPT !.authConflicts = TRUE,
                               !.authStatus = "conflicting auth payloads"]
<1>1. Extends(s, s)
  BY Zenon DEF Extends
<1>2. /\ Extends(conflict, s) /\ Extends(clash, s) /\ Extends(invalid, s) /\ Extends(second, s)
      /\ conflict.shardFrames = s.shardFrames /\ clash.shardFrames = s.shardFrames
      /\ invalid.shardFrames = s.shardFrames /\ second.shardFrames = s.shardFrames
  BY Zenon DEF States, Extends
<1>3. /\ first.shardFrames = s.shardFrames
      /\ s.authPayload = NONE => Extends(first, s)
  BY Zenon DEF States, Extends
<1>4. /\ new.shardFrames = s.shardFrames
      /\ f.index \notin DOMAIN s.mainFrames => Extends(new, s)
  <2>1. ASSUME f.index \notin DOMAIN s.mainFrames, NEW i \in DOMAIN s.mainFrames
        PROVE  i \in DOMAIN m /\ m[i] = s.mainFrames[i]
    BY <2>1 DEF Put
  <2> HIDE DEF m
  <2>2. /\ new.mainFrames = m /\ new.authPayload = s.authPayload
        /\ new.shardFrames = s.shardFrames /\ new.agePassphrase = s.agePassphrase
        /\ new.recoveredShardSecret = s.recoveredShardSecret
    BY Zenon DEF States
  <2>3. QED
    BY <2>1, <2>2, Zenon DEF Extends
<1>5. CASE f.type = "auth"
  BY <1>1, <1>2, <1>3, <1>5, Zenon DEF AddFrame, AddAuthFrame
<1>6. CASE f.type = "main"
  <2>1. f.type # "auth"
    BY <1>6
  <2>2. AddFrame(s, f) = AddMainFrame(s, f)
    BY <1>6, <2>1 DEF AddFrame
  <2>3. \/ AddMainFrame(s, f) = s \/ AddMainFrame(s, f) = conflict
        \/ AddMainFrame(s, f) = new /\ f.index \notin DOMAIN s.mainFrames
    BY Zenon DEF AddMainFrame
  <2>4. QED
    BY <1>1, <1>2, <1>4, <2>2, <2>3, Zenon
<1>7. CASE f.type \notin {"auth", "main"}
  BY <1>1, <1>7 DEF AddFrame
<1>8. QED
  BY <1>5, <1>6, <1>7

\* A share is only replaced by the same share under another signature (addShardFrame).
LEMMA AddShardFrameExtends ==
    ASSUME NEW s \in States, NEW f \in FrameSet
    PROVE  LET t == AddShardFrame(s, f)
           IN Extends(t, s) /\ SameBackup(t, s) /\ SameOutput(t, s)
<1> DEFINE p == [s EXCEPT !.shardDocIdHex = f.doc]
           q == [p EXCEPT !.shardHeader = f.payload.header]
           m == Put(q.shardFrames, f.payload.index, f.payload)
           r == [q EXCEPT !.shardFrames = m]
<1>1. Extends(s, s) /\ SameBackup(s, s) /\ SameOutput(s, s)
  BY Zenon DEF Extends, SameBackup, SameOutput
<1>2. /\ Extends(p, s) /\ SameBackup(p, s) /\ SameOutput(p, s)
      /\ Extends(q, s) /\ SameBackup(q, s) /\ SameOutput(q, s)
  BY Zenon DEF States, Extends, SameBackup, SameOutput
<1>3. q.shardFrames = s.shardFrames
  BY Zenon DEF States
<1>4. /\ r.shardFrames = m /\ SameBackup(r, s) /\ SameOutput(r, s)
      /\ r.agePassphrase = s.agePassphrase /\ r.recoveredShardSecret = s.recoveredShardSecret
  <2> HIDE DEF m
  <2>1. QED
    BY Zenon DEF States, SameBackup, SameOutput
<1>5. ASSUME ~(/\ f.payload.index \in DOMAIN s.shardFrames
               /\ s.shardFrames[f.payload.index].share # f.payload.share)
      PROVE  Extends(r, s)
  <2>1. ASSUME NEW i \in DOMAIN s.shardFrames
        PROVE  i \in DOMAIN m /\ m[i].share = s.shardFrames[i].share
    BY <1>3, <1>5, <2>1 DEF Put
  <2> HIDE DEF r, m
  <2>2. QED
    BY <1>4, <2>1, Zenon DEF Extends, SameBackup
<1>6. AddShardFrame(s, f) \in {s, p, q}
      \/ /\ AddShardFrame(s, f) = r
         /\ ~(/\ f.payload.index \in DOMAIN s.shardFrames
              /\ s.shardFrames[f.payload.index].share # f.payload.share)
  BY Zenon DEF AddShardFrame
<1> HIDE DEF p, q, r
<1>7. QED
  BY <1>1, <1>2, <1>4, <1>5, <1>6, Zenon

\* What is kept by two frames is kept by the paste.
LEMMA ExtendsTwice ==
    ASSUME NEW s, NEW t, NEW u, Extends(t, s), Extends(u, t)
    PROVE  Extends(u, s)
BY DEF Extends

\* So is a whole paste, into either box.
LEMMA AddPasteExtends ==
    ASSUME NEW s, Good(s), NEW p \in PasteSet
    PROVE  /\ Extends(AddPaste(s, p), s) /\ AddPaste(s, p).shardFrames = s.shardFrames
           /\ Extends(AddShardPaste(s, p), s)
           /\ SameBackup(AddShardPaste(s, p), s) /\ SameOutput(AddShardPaste(s, p), s)
<1>1. PICK n \in 0..2 : p \in [1..n -> FrameSet]
  BY DEF PasteSet
<1>2. Len(p) = n /\ s \in States
  BY <1>1 DEF Good
<1>3. CASE n = 0
  BY <1>2, <1>3 DEF AddPaste, AddShardPaste, Extends, SameBackup, SameOutput
<1>4. CASE n = 1
  <2>1. p[1] \in FrameSet
    BY <1>1, <1>4
  <2>2. QED
    BY <1>2, <1>4, <2>1, AddFrameExtends, AddShardFrameExtends DEF AddPaste, AddShardPaste
<1>5. CASE n = 2
  <2> DEFINE a == AddFrame(s, p[1])
             b == AddShardFrame(s, p[1])
  <2>1. p[1] \in FrameSet /\ p[2] \in FrameSet
    BY <1>1, <1>5
  <2>2. /\ AddPaste(s, p) = AddFrame(a, p[2])
        /\ AddShardPaste(s, p) = AddShardFrame(b, p[2])
    BY <1>2, <1>5 DEF AddPaste, AddShardPaste
  <2>3. a \in States /\ b \in States
    BY <2>1, AddFrameType, AddShardFrameType DEF Good
  <2>4. /\ Extends(a, s) /\ a.shardFrames = s.shardFrames
        /\ Extends(b, s) /\ SameBackup(b, s) /\ SameOutput(b, s)
    BY <1>2, <2>1, AddFrameExtends, AddShardFrameExtends
  <2> HIDE DEF a, b
  <2>5. /\ Extends(AddFrame(a, p[2]), a) /\ AddFrame(a, p[2]).shardFrames = a.shardFrames
        /\ Extends(AddShardFrame(b, p[2]), b)
        /\ SameBackup(AddShardFrame(b, p[2]), b) /\ SameOutput(AddShardFrame(b, p[2]), b)
    BY <2>1, <2>3, AddFrameExtends, AddShardFrameExtends
  <2>6. QED
    BY <2>2, <2>4, <2>5, ExtendsTwice, Zenon DEF SameBackup, SameOutput
<1>6. QED
  BY <1>3, <1>4, <1>5

-----------------------------------------------------------------------------
(* Merging follow-ups back. *)

\* syncCollectedCiphertext, ensureCiphertextAndHash and what is built on them touch
\* neither the AUTH flags nor what a recovery showed.
SameRest(t, s) == SameOutput(t, s) /\ t.authConflicts = s.authConflicts

\* Asking for the ciphertext and its hash changes nothing else the view shows.
LEMMA EnsureRest ==
    ASSUME NEW s \in States
    PROVE  /\ SameRest(EnsureCiphertextAndHash(s), s)
           /\ SameRest(SyncCollectedCiphertext(s), s)
           /\ SameRest(AuthWork(s), s)
<1> DEFINE c == IF s.ciphertext = NONE THEN Reassembled(s) ELSE s.ciphertext
           h == IF s.cipherDocHashHex = NONE THEN Digest(c) ELSE s.cipherDocHashHex
           e == [s EXCEPT !.ciphertext = c, !.cipherDocHashHex = h]
           t == [s EXCEPT !.ciphertext = Reassembled(s)]
<1>1. EnsureCiphertextAndHash(s) = s \/ EnsureCiphertextAndHash(s) = e
  BY Zenon DEF EnsureCiphertextAndHash, States
<1> HIDE DEF c, h
<1>2. SameRest(e, s) /\ SameRest(t, s) /\ SameRest(s, s)
  BY Zenon DEF States, SameRest, SameOutput
<1>3. SyncCollectedCiphertext(s) = s \/ SyncCollectedCiphertext(s) = t
  BY Zenon DEF SyncCollectedCiphertext
<1>4. AuthWork(s) = s \/ AuthWork(s) = EnsureCiphertextAndHash(s)
  BY Zenon DEF AuthWork
<1>5. QED
  BY <1>1, <1>2, <1>3, <1>4, Zenon

\* A reconstructed secret fills the passphrase box only when it is empty
\* (autoRecoverShardSecret), and once shares, frames and hash agree there is a secret.
LEMMA AutoRecoverEffect ==
    ASSUME NEW s, Good(s)
    PROVE  LET t == AutoRecoverShardSecret(s)
           IN /\ SameRest(t, s)
              /\ t.agePassphrase = s.agePassphrase \/ s.agePassphrase = NONE
              /\ ~AllFrames(s) => t = s
              /\ \/ t.recoveredShardSecret = s.recoveredShardSecret
                 \/ t.recoveredShardSecret \in Passphrases
              /\ (/\ Coherent(s) /\ EnoughShards(s) /\ AllFrames(s)
                  /\ ~Oversized(Reassembled(s))
                  /\ s.shardHeader.docHash = Digest(Reassembled(s)))
                 => t.recoveredShardSecret # NONE
<1> DEFINE e == EnsureCiphertextAndHash(s)
           t == AutoRecoverShardSecret(s)
           r == RecoverSecret(s)
           a == IF s.shardHeader.keyType = "passphrase" /\ e.agePassphrase = NONE
                THEN r ELSE e.agePassphrase
           u == [e EXCEPT !.recoveredShardSecret = r, !.agePassphrase = a]
<1>1. /\ s \in States /\ e \in States /\ r \in Passphrases /\ r # NONE
      /\ e.agePassphrase = s.agePassphrase /\ e.recoveredShardSecret = s.recoveredShardSecret
      /\ SameRest(e, s) /\ SameRest(s, s)
  BY EnsureType, EnsureRest, RecoverSecretType, KitConstants DEF Good, SameRest, SameOutput
<1>2. Coherent(s) /\ AllFrames(s) /\ ~Oversized(Reassembled(s)) =>
        ~AssemblyFails(s) /\ e.cipherDocHashHex = Digest(Reassembled(s))
  BY EnsureCoherent DEF AssemblyFails
<1>3. CASE ~EnoughShards(s) \/ AssemblyFails(s) \/ ~AllFrames(s)
  <2>1. t = s
    BY <1>3, Zenon DEF AutoRecoverShardSecret
  <2>2. QED
    BY <1>1, <1>2, <1>3, <2>1, Zenon
<1>4. CASE /\ ~(~EnoughShards(s) \/ AssemblyFails(s) \/ ~AllFrames(s))
           /\ e.cipherDocHashHex # s.shardHeader.docHash
  <2>1. t = e
    BY <1>4, Zenon DEF AutoRecoverShardSecret
  <2>2. QED
    BY <1>1, <1>2, <1>4, <2>1, Zenon
<1>5. CASE /\ ~(~EnoughShards(s) \/ AssemblyFails(s) \/ ~AllFrames(s))
           /\ e.cipherDocHashHex = s.shardHeader.docHash
  <2>1. t = u
    BY <1>1, <1>5, Zenon DEF AutoRecoverShardSecret, States
  <2>2. a = s.agePassphrase \/ s.agePassphrase = NONE
    BY <1>1
  <2> HIDE DEF e, r, a
  <2>3. /\ u.agePassphrase = a /\ u.recoveredShardSecret = r /\ SameRest(u, e)
    BY <1>1, Zenon DEF States, SameRest, SameOutput
  <2>4. SameRest(u, s)
    BY <1>1, <2>3 DEF SameRest, SameOutput
  <2>5. QED
    BY <1>1, <1>5, <2>1, <2>2, <2>3, <2>4, Zenon
<1>6. QED
  BY <1>3, <1>4, <1>5

\* When shares and backup agree a secret is known; stated of any state.
ReadyShares(s) ==
    (/\ EnoughShards(s) /\ AllFrames(s) /\ ~Oversized(Reassembled(s))
     /\ s.shardHeader.docHash = Digest(Reassembled(s)))
    => s.recoveredShardSecret # NONE

\* What the follow-ups of a paste into the backup box merge into the store.
LEMMA LandMainEffect ==
    ASSUME NEW s, Good(s), NEW v, Good(v), SameCollected(v, s),
           NEW status \in AuthStatuses
    PROVE  LET t == LandMain(s, MainFollowups(v, status))
           IN /\ SameRest(t, s) /\ SameCollected(t, s)
              /\ t.shardFrames = v.shardFrames /\ t.authStatus = status
              /\ t.agePassphrase = v.agePassphrase \/ v.agePassphrase = NONE
              /\ Coherent(v) => ReadyShares(t)
<1> DEFINE a == [v EXCEPT !.authStatus = status]
           b == SyncCollectedCiphertext(a)
           w == MainFollowups(v, status)
           t == LandMain(s, w)
<1>1. /\ a \in States /\ SameCollected(a, v) /\ a.agePassphrase = v.agePassphrase
      /\ a.ciphertext = v.ciphertext /\ a.cipherDocHashHex = v.cipherDocHashHex
      /\ a.shardFrames = v.shardFrames
  BY Zenon DEF Good, States, SameCollected
<1>2. w = IF b.recoveredShardSecret = NONE THEN AutoRecoverShardSecret(b) ELSE b
  BY Zenon DEF MainFollowups
<1> HIDE DEF a
<1>3. Good(a) /\ (Coherent(v) => Coherent(a))
  BY <1>1, SameEvidence, Zenon DEF Good, Coherent
<1>4. /\ Good(b) /\ SameCollected(b, a) /\ (Coherent(a) => Coherent(b))
      /\ b.agePassphrase = a.agePassphrase /\ b.shardFrames = a.shardFrames
  BY <1>3, SyncType
<1> HIDE DEF b
<1>5. /\ Good(w) /\ SameCollected(w, v) /\ w.authStatus = status
      /\ w.shardFrames = v.shardFrames
  BY MainFollowupsType
<1>6. w.agePassphrase = v.agePassphrase \/ v.agePassphrase = NONE
  BY <1>1, <1>2, <1>4, AutoRecoverEffect
<1>7. Coherent(v) => ReadyShares(w)
  <2>1. SUFFICES ASSUME Coherent(v), EnoughShards(w), AllFrames(w),
                        ~Oversized(Reassembled(w)),
                        w.shardHeader.docHash = Digest(Reassembled(w)),
                        b.recoveredShardSecret = NONE
                 PROVE  w.recoveredShardSecret # NONE
    BY <1>2 DEF ReadyShares
  <2>2. w = AutoRecoverShardSecret(b)
    BY <1>2, <2>1
  <2>3. SameCollected(w, b) /\ w.shardFrames = b.shardFrames
    BY <1>4, <2>2, AutoRecoverType
  <2>4. /\ AllFrames(b) /\ Reassembled(b) = Reassembled(w) /\ EnoughShards(b)
        /\ b.shardHeader = w.shardHeader
    BY <2>1, <2>3, SameEvidence, Zenon DEF EnoughShards, SameCollected
  <2>5. QED
    BY <1>3, <1>4, <2>1, <2>2, <2>4, AutoRecoverEffect
<1> HIDE DEF w
<1>8. /\ SameCollected(t, w) /\ t.authStatus = status /\ t.shardFrames = w.shardFrames
  <2>1. SameCollected(w, s)
    BY <1>5, Zenon DEF SameCollected
  <2>2. QED
    BY <1>5, <2>1, LandMainType
<1>9. /\ t.agePassphrase = w.agePassphrase /\ t.recoveredShardSecret = w.recoveredShardSecret
      /\ SameRest(t, s)
  BY Zenon DEF Good, States, LandMain, CopyAuthAndCipherFields, CopyShardAsyncFields,
     SameRest, SameOutput
<1>10. SameCollected(t, s)
  BY <1>5, <1>8, Zenon DEF SameCollected
<1>11. Coherent(v) => ReadyShares(t)
  BY <1>7, <1>8, <1>9, SameEvidence, Zenon DEF ReadyShares, EnoughShards, SameCollected
<1>12. QED
  BY <1>5, <1>6, <1>8, <1>9, <1>10, <1>11, Zenon DEF w

\* What the follow-ups of a paste into the shard box merge into the store.
LEMMA LandShardsEffect ==
    ASSUME NEW s, Good(s), NEW v, Good(v), SameCollected(v, s)
    PROVE  LET w == AutoRecoverShardSecret(v)
               t == LandShards(s, w)
           IN /\ SameRest(t, s) /\ SameCollected(t, s)
              /\ t.shardFrames = v.shardFrames /\ t.authStatus = s.authStatus
              /\ t.agePassphrase = v.agePassphrase \/ v.agePassphrase = NONE
              /\ t.ciphertext = w.ciphertext
              /\ Coherent(v) => ReadyShares(t)
<1> DEFINE w == AutoRecoverShardSecret(v)
           t == LandShards(s, w)
<1>1. /\ Good(w) /\ SameCollected(w, v) /\ w.shardFrames = v.shardFrames
  BY AutoRecoverType
<1>2. w.agePassphrase = v.agePassphrase \/ v.agePassphrase = NONE
  BY AutoRecoverEffect
<1>3. Coherent(v) => ReadyShares(w)
  <2>1. SUFFICES ASSUME Coherent(v), EnoughShards(w), AllFrames(w),
                        ~Oversized(Reassembled(w)),
                        w.shardHeader.docHash = Digest(Reassembled(w))
                 PROVE  w.recoveredShardSecret # NONE
    BY DEF ReadyShares
  <2>2. /\ AllFrames(v) /\ Reassembled(v) = Reassembled(w) /\ EnoughShards(v)
        /\ v.shardHeader = w.shardHeader
    BY <1>1, <2>1, SameEvidence, Zenon DEF EnoughShards, SameCollected
  <2>3. QED
    BY <2>1, <2>2, AutoRecoverEffect
<1>4. SameCollected(w, s)
  BY <1>1, Zenon DEF SameCollected
<1> HIDE DEF w
<1>5. SameCollected(t, w) /\ t.authStatus = s.authStatus /\ t.shardFrames = w.shardFrames
  BY <1>1, <1>4, LandShardsType
<1>6. /\ t.agePassphrase = w.agePassphrase /\ t.recoveredShardSecret = w.recoveredShardSecret
      /\ t.ciphertext = w.ciphertext /\ SameRest(t, s)
  BY Zenon DEF Good, States, LandShards, CopyShardAsyncFields, SameRest, SameOutput
<1>7. SameCollected(t, s)
  BY <1>4, <1>5, Zenon DEF SameCollected
<1>8. Coherent(v) => ReadyShares(t)
  BY <1>3, <1>5, <1>6, SameEvidence, Zenon DEF ReadyShares, EnoughShards, SameCollected
<1>9. QED
  BY <1>1, <1>2, <1>5, <1>6, <1>7, <1>8, Zenon DEF w

\* A signature check takes away only shares whose signature it found wrong.
LEMMA VerifyCollectedEffect ==
    ASSUME NEW s, Good(s)
    PROVE  LET t == VerifyCollected(s)
           IN /\ SameRest(t, s) /\ t.agePassphrase = s.agePassphrase
              /\ t.recoveredShardSecret = s.recoveredShardSecret
              /\ \A i \in DOMAIN s.shardFrames :
                   \/ i \in DOMAIN t.shardFrames /\ t.shardFrames[i] = s.shardFrames[i]
                   \/ crypto = "works" /\ ~s.shardFrames[i].genuine
              /\ crypto = "works" => \A i \in DOMAIN t.shardFrames : t.shardFrames[i].genuine
              /\ ~AllFrames(s) => ~AllFrames(t)
              /\ t.ciphertext = s.ciphertext
<1> DEFINE kept == {i \in DOMAIN s.shardFrames : s.shardFrames[i].genuine}
           m == [i \in kept |-> s.shardFrames[i]]
           t == [s EXCEPT !.shardFrames = m]
<1>1. /\ \A i \in DOMAIN s.shardFrames :
             (i \in DOMAIN m /\ m[i] = s.shardFrames[i]) \/ ~s.shardFrames[i].genuine
      /\ \A i \in DOMAIN m : m[i].genuine
  OBVIOUS
<1> HIDE DEF m
<1>2. /\ t.shardFrames = m /\ SameRest(t, s) /\ t.agePassphrase = s.agePassphrase
      /\ t.recoveredShardSecret = s.recoveredShardSecret /\ t.ciphertext = s.ciphertext
  BY Zenon DEF Good, States, SameRest, SameOutput
<1>3. SameCollected(VerifyCollected(s), s)
  BY VerifyCollectedType
<1>4. ~AllFrames(s) => ~AllFrames(VerifyCollected(s))
  BY <1>3, SameEvidence
<1>5. CASE crypto = "works"
  <2>1. VerifyCollected(s) = t
    BY <1>5, Zenon DEF VerifyCollected, m
  <2>2. QED
    BY <1>1, <1>2, <1>4, <1>5, <2>1, Zenon
<1>6. CASE crypto # "works"
  BY <1>4, <1>6, Zenon DEF VerifyCollected, SameRest, SameOutput
<1>7. QED
  BY <1>5, <1>6

-----------------------------------------------------------------------------
(* What each handler does to the pieces, the passphrase and the conclusions. *)

\* The steps of CollectedIsKept and TypedPassphraseKept that are no reset and no typing.
PiecesKept ==
    /\ \A i \in DOMAIN store.mainFrames :
         i \in DOMAIN store'.mainFrames /\ store'.mainFrames[i] = store.mainFrames[i]
    /\ store.authPayload \in {NONE, store'.authPayload}
    /\ \A i \in DOMAIN store.shardFrames :
         \/ i \in DOMAIN store'.shardFrames
            /\ store'.shardFrames[i].share = store.shardFrames[i].share
         \/ ~store.shardFrames[i].genuine /\ crypto = "works"
BoxKept == store'.agePassphrase = store.agePassphrase \/ store.agePassphrase = NONE

\* GenuineBackupVerified, of any state and browser.
AuthConcluded(s, mode) ==
    (/\ mode = "works" /\ s.authPayload # NONE /\ s.authPayload.genuine
     /\ AllFrames(s) /\ ~Oversized(Reassembled(s)) /\ ~s.authConflicts
     /\ s.docIdHex = s.authDocIdHex
     /\ s.authPayload.hash = Digest(Reassembled(s)))
    => s.authStatus \in {"verified", "invalid payload"}

\* The pieces and what was concluded from them.
SamePieces(t, s) ==
    /\ SameCollected(t, s) /\ t.shardFrames = s.shardFrames
    /\ t.recoveredShardSecret = s.recoveredShardSecret
    /\ t.authStatus = s.authStatus /\ t.authConflicts = s.authConflicts

\* Conclusions drawn from the same pieces are the same.
LEMMA SameConclusions ==
    ASSUME NEW s, NEW t, SamePieces(t, s), NEW mode
    PROVE  /\ ReadyShares(t) = ReadyShares(s)
           /\ AuthConcluded(t, mode) = AuthConcluded(s, mode)
<1>1. AllFrames(t) = AllFrames(s) /\ Reassembled(t) = Reassembled(s)
  BY SameEvidence DEF SamePieces
<1>2. EnoughShards(t) = EnoughShards(s)
  BY Zenon DEF SamePieces, SameCollected, EnoughShards
<1>3. QED
  BY <1>1, <1>2, Zenon DEF SamePieces, SameCollected, ReadyShares, AuthConcluded

\* Unlocking, showing, copying, typing and downloading leave the pieces alone.
Quiet == \/ DecryptCiphertext \/ ExtractEnvelope \/ ClearOutput \/ DownloadCipher
         \/ DownloadZip \/ CopyRecoveredSecret \/ TypeText
         \/ \E v \in TypedPassphrases : TypePassphrase(v)
         \/ \E k \in Slots : FinishDecrypt(k) \/ FinishExtract(k) \/ FinishCopy(k)

\* They write fields of their own onto the present state, or a snapshot still current.
LEMMA QuietSteps ==
    ASSUME IInv, Quiet
    PROVE  SamePieces(store', store) /\ crypto' = crypto
<1>1. store \in States
  BY StoreSound
<1>2. CASE DecryptCiphertext
  <2> DEFINE c == IF store.ciphertext = NONE THEN Reassembled(store) ELSE store.ciphertext
             bare == [store EXCEPT !.extractedFiles = NONE, !.decryptedEnvelope = NONE]
             prep == [store EXCEPT !.extractedFiles = NONE, !.decryptedEnvelope = NONE,
                                   !.ciphertext = c]
             started == [prep EXCEPT !.isDecrypting = TRUE]
             done == Recovered(started, prep.ciphertext, store.agePassphrase)
  <2>1. /\ store' = bare \/ store' = prep \/ store' = done \/ store' = started
        /\ crypto' = crypto
    BY <1>1, <1>2, Zenon DEF DecryptCiphertext, Commit, CommitAndWait, States
  <2> HIDE DEF c
  <2>2. SamePieces(bare, store) /\ SamePieces(prep, store)
    BY <1>1, Zenon DEF States, SamePieces, SameCollected
  <2>3. SamePieces(started, store) /\ SamePieces(done, store)
    BY <1>1, Zenon DEF States, SamePieces, SameCollected, Recovered
  <2>4. QED
    BY <2>1, <2>2, <2>3, Zenon
<1>3. CASE ExtractEnvelope \/ \E k \in Slots : FinishExtract(k)
  <2> DEFINE t == [store EXCEPT !.extractedFiles = store.decryptedEnvelope]
  <2>1. \A k \in Slots : Current(inflight[k], store)
    BY IInvParts DEF Parts
  <2>2. (store' = t \/ store' = store) /\ crypto' = crypto
    BY <1>3, <2>1, Zenon DEF ExtractEnvelope, FinishExtract, Commit, Waiting, Current
  <2>3. SamePieces(t, store) /\ SamePieces(store, store)
    BY <1>1, Zenon DEF States, SamePieces, SameCollected
  <2>4. QED
    BY <2>2, <2>3, Zenon
<1>4. CASE \E k \in Slots : FinishDecrypt(k)
  <2>1. PICK k \in Slots : FinishDecrypt(k)
    BY <1>4
  <2> DEFINE t == [store EXCEPT !.isDecrypting = FALSE]
             done == Recovered(store, inflight[k].bytes, inflight[k].typed)
  <2>2. (store' = t \/ store' = done) /\ crypto' = crypto
    BY <2>1, Zenon DEF FinishDecrypt
  <2>3. SamePieces(t, store) /\ SamePieces(done, store)
    BY <1>1, Zenon DEF States, SamePieces, SameCollected, Recovered
  <2>4. QED
    BY <2>2, <2>3, Zenon
<1>5. CASE ClearOutput \/ DownloadCipher
  <2> DEFINE t == [store EXCEPT !.extractedFiles = NONE]
             b == SyncCollectedCiphertext(store)
             u == [b EXCEPT !.cleared = FALSE]
  <2>1. (store' = t \/ store' = u) /\ crypto' = crypto
    BY <1>5, Zenon DEF ClearOutput, DownloadCipher, Commit
  <2>2. SamePieces(t, store)
    BY <1>1, Zenon DEF States, SamePieces, SameCollected
  <2>3. /\ b \in States /\ SameCollected(b, store) /\ b.shardFrames = store.shardFrames
        /\ b.recoveredShardSecret = store.recoveredShardSecret
        /\ b.authStatus = store.authStatus
    BY StoreSound, SyncType DEF Sound, Good
  <2>4. b.authConflicts = store.authConflicts
    BY <1>1, EnsureRest DEF SameRest
  <2> HIDE DEF b
  <2>5. SamePieces(u, b)
    BY <2>3, Zenon DEF States, SamePieces, SameCollected
  <2>6. SamePieces(u, store)
    BY <2>3, <2>4, <2>5, Zenon DEF SamePieces, SameCollected
  <2>7. QED
    BY <2>1, <2>2, <2>6, Zenon
<1>6. CASE \E v \in TypedPassphrases : TypePassphrase(v)
  <2>1. PICK v \in TypedPassphrases :
          store' = [store EXCEPT !.agePassphrase = v] /\ crypto' = crypto
    BY <1>6 DEF TypePassphrase, Commit
  <2>2. SamePieces([store EXCEPT !.agePassphrase = v], store)
    BY <1>1, Zenon DEF States, SamePieces, SameCollected
  <2>3. QED
    BY <2>1, <2>2, Zenon
<1>7. CASE \/ DownloadZip \/ CopyRecoveredSecret \/ TypeText
           \/ \E k \in Slots : FinishCopy(k)
  BY <1>7, Zenon DEF DownloadZip, CopyRecoveredSecret, TypeText, FinishCopy, Commit,
     SamePieces, SameCollected
<1>8. QED
  BY <1>2, <1>3, <1>4, <1>5, <1>6, <1>7 DEF Quiet

\* The flags that a paste into the backup box sets on what it read.
LEMMA PastedBase ==
    ASSUME NEW s, Sound(s), NEW p \in PasteSet
    PROVE  LET base == [AddPaste(s, p) EXCEPT !.isAddingFrames = TRUE, !.cleared = FALSE]
           IN /\ Sound(base) /\ Extends(base, s) /\ base.shardFrames = s.shardFrames
              /\ base.cleared = FALSE
<1> DEFINE read == AddPaste(s, p)
           base == [read EXCEPT !.isAddingFrames = TRUE, !.cleared = FALSE]
<1>1. Sound(read) /\ read \in States /\ Extends(read, s) /\ read.shardFrames = s.shardFrames
  BY AddPasteSound, AddPasteExtends DEF Sound, Good
<1> HIDE DEF read
<1>2. /\ base \in States /\ SameSound(base, read) /\ base.shardFrames = read.shardFrames
      /\ base.agePassphrase = read.agePassphrase /\ base.cleared = FALSE
  BY <1>1, Zenon DEF States, SameSound, SameCollected
<1> HIDE DEF base
<1>3. Sound(base)
  BY <1>1, <1>2, SoundCopy
<1>4. Extends(base, s)
  BY <1>1, <1>2, Zenon DEF Extends, SameSound, SameCollected
<1>5. QED
  BY <1>1, <1>2, <1>3, <1>4 DEF base, read

\* updateAuthStatus concludes what the pieces allow, or asks the browser.
LEMMA AuthOutcomeConcludes ==
    ASSUME NEW s, Sound(s), NEW t, SameCollected(t, s), t.authConflicts = s.authConflicts,
           t.authStatus = AuthOutcome(s), AuthOutcome(s) # "verify", NEW mode
    PROVE  AuthConcluded(t, mode)
<1>1. SUFFICES ASSUME /\ s.authPayload # NONE /\ AllFrames(s) /\ ~Oversized(Reassembled(s))
                      /\ ~s.authConflicts /\ s.docIdHex = s.authDocIdHex
                      /\ s.authPayload.hash = Digest(Reassembled(s))
                      /\ s.authStatus # "invalid payload"
               PROVE  FALSE
  <2>1. AllFrames(t) = AllFrames(s) /\ Reassembled(t) = Reassembled(s)
    BY SameEvidence
  <2>2. CASE s.authStatus = "invalid payload"
    BY <2>1, <2>2 DEF AuthConcluded, SameCollected, AuthOutcome
  <2>3. CASE s.authStatus # "invalid payload"
    BY <1>1, <2>1, <2>3, Zenon DEF AuthConcluded, SameCollected
  <2>4. QED
    BY <2>2, <2>3
<1>2. ~AssemblyFails(s)
  BY <1>1 DEF AssemblyFails
<1>3. EnsureCiphertextAndHash(s).cipherDocHashHex = s.authPayload.hash
  BY <1>1, <1>2, EnsureCoherent DEF Sound
<1>4. QED
  BY <1>1, <1>2, <1>3 DEF AuthOutcome

\* addPayloads and addScannedPayload.
LEMMA AddPayloadsEffect ==
    ASSUME IInv, NEW p \in Pastes, AddPayloads(p)
    PROVE  /\ PiecesKept /\ BoxKept /\ crypto' = crypto
           /\ store'.shardFrames = store.shardFrames /\ store'.cleared = FALSE
           /\ \/ /\ store'.recoveredShardSecret = store.recoveredShardSecret
                 /\ \E k \in Slots, w \in States : 
                      /\ inflight[k] = NONE
                      /\ inflight' = [Superseded EXCEPT ![k] = [kind |-> "verify", work |-> w]]
              \/ /\ inflight' = Superseded
                 /\ ReadyShares(store')
                 /\ ~AuthStatusPending => AuthConcluded(store', crypto)
<1> DEFINE base == [AddPaste(store, p) EXCEPT !.isAddingFrames = TRUE, !.cleared = FALSE]
           outcome == IF AuthStatusPending THEN base.authStatus ELSE AuthOutcome(base)
           work == IF AuthStatusPending THEN base ELSE AuthWork(base)
           status == IF outcome = "verify" THEN NotVerified ELSE outcome
           landed == LandMain(base, MainFollowups(work, status))
           task == [kind |-> "verify", work |-> work]
<1>1. Sound(store) /\ crypto' = crypto
  BY StoreSound DEF AddPayloads
<1>2. /\ Sound(base) /\ Extends(base, store) /\ base.shardFrames = store.shardFrames
      /\ base.cleared = FALSE
  BY <1>1, PasteType, PastedBase
<1>3. \/ /\ outcome = "verify" /\ crypto # "absent"
         /\ CommitAndWait(base, task)
      \/ /\ ~(outcome = "verify" /\ crypto # "absent")
         /\ Commit(landed)
  BY Zenon DEF AddPayloads
<1> HIDE DEF base
<1>4. base \in States /\ Good(base) /\ base.authStatus \in AuthStatuses
  BY <1>2 DEF Sound, Good, States
<1>5. /\ Good(work) /\ Coherent(work) /\ SameCollected(work, base)
      /\ work.shardFrames = base.shardFrames /\ work.agePassphrase = base.agePassphrase
  <2>1. /\ Good(AuthWork(base)) /\ Coherent(AuthWork(base))
        /\ SameCollected(AuthWork(base), base)
        /\ AuthWork(base).shardFrames = base.shardFrames
    BY <1>2, <1>4, AuthWorkType DEF Sound
  <2>2. AuthWork(base).agePassphrase = base.agePassphrase
    BY <1>4, EnsureType DEF AuthWork
  <2>3. QED
    BY <1>2, <2>1, <2>2 DEF Sound, SameCollected
<1>6. status \in AuthStatuses
  BY <1>4, AuthOutcomeType DEF NotVerified, AuthStatuses
<1>7. CASE CommitAndWait(base, task)
  <2>1. PICK k \in Slots : /\ inflight[k] = NONE /\ store' = base
                           /\ inflight' = [Superseded EXCEPT ![k] = task]
    BY <1>7, Zenon DEF CommitAndWait, FreeSlot
  <2>2. PiecesKept /\ BoxKept
    BY <1>2, <2>1, Zenon DEF PiecesKept, BoxKept, Extends
  <2>3. work \in States
    BY <1>5 DEF Good
  <2> HIDE DEF work
  <2>4. QED
    BY <1>1, <1>2, <2>1, <2>2, <2>3, Zenon DEF Extends
<1>8. CASE ~(outcome = "verify" /\ crypto # "absent") /\ Commit(landed)
  <2>1. /\ SameRest(landed, base) /\ SameCollected(landed, base)
        /\ landed.shardFrames = work.shardFrames /\ landed.authStatus = status
        /\ landed.agePassphrase = work.agePassphrase \/ work.agePassphrase = NONE
        /\ ReadyShares(landed)
    <3> HIDE DEF work, status
    <3>1. QED
      BY <1>4, <1>5, <1>6, LandMainEffect
  <2>2. ~AuthStatusPending => AuthConcluded(landed, crypto)
    <3>1. CASE crypto = "absent"
      BY <3>1 DEF AuthConcluded
    <3>2. CASE crypto # "absent" /\ ~AuthStatusPending
      <4>1. AuthOutcome(base) # "verify" /\ status = AuthOutcome(base)
        BY <1>8, <3>2
      <4> HIDE DEF landed, status
      <4>2. landed.authConflicts = base.authConflicts
        BY <2>1 DEF SameRest
      <4>3. QED
        BY <1>2, <2>1, <4>1, <4>2, AuthOutcomeConcludes
    <3>3. QED
      BY <3>1, <3>2
  <2> HIDE DEF landed, status
  <2>3. store' = landed /\ inflight' = Superseded
    BY <1>8 DEF Commit
  <2>4. PiecesKept
    BY <1>2, <1>5, <2>1, <2>3, Zenon DEF PiecesKept, Extends, SameCollected
  <2>5. BoxKept
    BY <1>2, <1>5, <2>1, <2>3, Zenon DEF BoxKept, Extends
  <2>6. store'.cleared = FALSE
    BY <1>2, <2>1, <2>3 DEF SameRest, SameOutput
  <2>7. QED
    BY <1>1, <1>2, <1>5, <2>1, <2>2, <2>3, <2>4, <2>5, <2>6
<1>9. QED
  BY <1>3, <1>7, <1>8

\* The end of a signature check of an AUTH payload.
LEMMA FinishPayloadsEffect ==
    ASSUME IInv, NEW k \in Slots, FinishPayloads(k)
    PROVE  /\ PiecesKept /\ BoxKept /\ crypto' = crypto
           /\ store'.shardFrames = store.shardFrames /\ store'.cleared = store.cleared
           /\ inflight' = [Superseded EXCEPT ![k] = NONE]
           /\ inflight[k].work # NONE =>
                ReadyShares(store') /\ AuthConcluded(store', crypto)
<1> DEFINE t == inflight[k]
           status == CASE crypto = "rejects" -> NotVerified
                       [] t.work.authPayload.genuine -> "verified"
                       [] OTHER -> "invalid signature"
           landed == LandMain(store, MainFollowups(t.work, status))
           freed == [store EXCEPT !.isAddingFrames = FALSE]
<1>1. /\ Sound(store) /\ store \in States /\ crypto' = crypto
      /\ t # NONE /\ t.kind = "verify" /\ Current(t, store)
      /\ inflight' = [Superseded EXCEPT ![k] = NONE]
      /\ store' = IF t.work = NONE THEN freed ELSE landed
  BY StoreSound, IInvParts DEF FinishPayloads, Waiting, Parts
<1>2. CASE t.work = NONE
  <2>1. SamePieces(freed, store) /\ SameRest(freed, store)
        /\ freed.agePassphrase = store.agePassphrase
    BY <1>1, Zenon DEF States, SamePieces, SameCollected, SameRest, SameOutput
  <2>2. store' = freed
    BY <1>1, <1>2
  <2> HIDE DEF freed
  <2>3. PiecesKept /\ BoxKept
    BY <2>1, <2>2, Zenon DEF PiecesKept, BoxKept, SamePieces, SameCollected
  <2>4. QED
    BY <1>1, <1>2, <2>1, <2>2, <2>3 DEF SamePieces, SameRest, SameOutput
<1>3. CASE t.work # NONE
  <2>1. t.work = AuthWork(store) /\ AuthOutcome(store) = "verify"
    BY <1>1, <1>3 DEF Current
  <2>2. /\ Good(t.work) /\ Coherent(t.work) /\ SameCollected(t.work, store)
        /\ t.work.shardFrames = store.shardFrames
    BY <1>1, <2>1, AuthWorkType DEF Sound
  <2>3. t.work.agePassphrase = store.agePassphrase
    BY <1>1, <2>1, EnsureType DEF AuthWork, Sound
  <2>4. status \in AuthStatuses
    BY DEF NotVerified, AuthStatuses
  <2>5. crypto = "works" /\ t.work.authPayload.genuine => status = "verified"
    OBVIOUS
  <2> HIDE DEF status
  <2>6. /\ SameRest(landed, store) /\ SameCollected(landed, store)
        /\ landed.shardFrames = t.work.shardFrames /\ landed.authStatus = status
        /\ landed.agePassphrase = t.work.agePassphrase \/ t.work.agePassphrase = NONE
        /\ ReadyShares(landed)
    BY <1>1, <2>2, <2>4, LandMainEffect DEF Sound
  <2>7. store' = landed
    BY <1>1, <1>3
  <2> HIDE DEF landed
  <2>8. AuthConcluded(landed, crypto)
    BY <2>2, <2>5, <2>6, Zenon DEF AuthConcluded, SameCollected
  <2>9. PiecesKept
    BY <2>2, <2>6, <2>7, Zenon DEF PiecesKept, SameCollected
  <2>10. BoxKept
    BY <2>3, <2>6, <2>7, Zenon DEF BoxKept
  <2>11. QED
    BY <1>1, <2>2, <2>6, <2>7, <2>8, <2>9, <2>10 DEF SameRest, SameOutput
<1>4. QED
  BY <1>2, <1>3

\* What the shard box leaves alone carries the authentication's conclusion along.
LEMMA SameBackupConcluded ==
    ASSUME NEW s, NEW t, SameBackup(t, s), NEW mode
    PROVE  /\ AuthConcluded(t, mode) = AuthConcluded(s, mode)
           /\ AllFrames(t) = AllFrames(s)
<1>1. AllFrames(t) = AllFrames(s) /\ Reassembled(t) = Reassembled(s)
  BY Zenon DEF SameBackup, AllFrames, Reassembled
<1>2. QED
  BY <1>1, Zenon DEF SameBackup, AuthConcluded

\* addShardPayloads and addScannedShardPayload.
LEMMA AddShardPayloadsEffect ==
    ASSUME IInv, NEW p \in ShardPastes, AddShardPayloads(p)
    PROVE  /\ PiecesKept /\ BoxKept /\ crypto' = crypto
           /\ SameOutput(store', store) /\ store'.authStatus = store.authStatus
           /\ \A mode : AuthConcluded(store', mode) = AuthConcluded(store, mode)
           /\ store.total = NONE /\ store.ciphertext = NONE =>
                store'.total = NONE /\ store'.ciphertext = NONE
           /\ \/ /\ store'.recoveredShardSecret = store.recoveredShardSecret
                 /\ store' \in States
                 /\ \E k \in Slots : 
                      /\ inflight[k] = NONE
                      /\ inflight' = [Superseded EXCEPT ![k] = [kind |-> "shards", work |-> store']]
              \/ /\ inflight' = Superseded
                 /\ ReadyShares(store')
                 /\ crypto = "absent" \/ DOMAIN store'.shardFrames = {}
<1> DEFINE read == AddShardPaste(store, p)
           parsed == [read EXCEPT !.isAddingShards = TRUE]
           work == AutoRecoverShardSecret(parsed)
           landed == LandShards(parsed, work)
           task == [kind |-> "shards", work |-> parsed]
<1>1. Sound(store) /\ crypto' = crypto /\ store \in States
  BY StoreSound DEF AddShardPayloads
<1>2. /\ Sound(read) /\ read \in States /\ Extends(read, store)
      /\ SameBackup(read, store) /\ SameOutput(read, store)
  BY <1>1, PasteType, AddPasteSound, AddPasteExtends DEF Sound, Good
<1>3. \/ CommitAndWait(parsed, task)
      \/ Commit(landed) /\ (crypto = "absent" \/ DOMAIN parsed.shardFrames = {})
  BY Zenon DEF AddShardPayloads
<1> HIDE DEF read
<1>4. /\ parsed \in States /\ SameSound(parsed, read) /\ SameBackup(parsed, read)
      /\ SameRest(parsed, read) /\ parsed.shardFrames = read.shardFrames
      /\ parsed.agePassphrase = read.agePassphrase
  BY <1>2, Zenon DEF States, SameSound, SameCollected, SameBackup, SameRest, SameOutput
<1> HIDE DEF parsed
<1>5. Sound(parsed)
  BY <1>2, <1>4, SoundCopy
<1>6. SameBackup(parsed, store) /\ SameOutput(parsed, store)
  BY <1>2, <1>4, Zenon DEF SameBackup, SameRest, SameOutput
<1>7. Extends(parsed, store)
  BY <1>2, <1>4, Zenon DEF Extends, SameSound, SameCollected
<1>8. CASE CommitAndWait(parsed, task)
  <2>1. PICK k \in Slots : /\ inflight[k] = NONE /\ store' = parsed
                           /\ inflight' = [Superseded EXCEPT ![k] = task]
    BY <1>8, Zenon DEF CommitAndWait, FreeSlot
  <2>2. PiecesKept /\ BoxKept
    BY <1>7, <2>1, Zenon DEF PiecesKept, BoxKept, Extends
  <2>3. \A mode : AuthConcluded(parsed, mode) = AuthConcluded(store, mode)
    BY <1>6, SameBackupConcluded
  <2>4. QED
    BY <1>1, <1>4, <1>6, <1>7, <2>1, <2>2, <2>3, Zenon DEF Extends, SameBackup
<1>9. CASE Commit(landed) /\ (crypto = "absent" \/ DOMAIN parsed.shardFrames = {})
  <2>1. /\ SameRest(landed, parsed) /\ SameCollected(landed, parsed)
        /\ landed.shardFrames = parsed.shardFrames /\ landed.authStatus = parsed.authStatus
        /\ landed.agePassphrase = parsed.agePassphrase \/ parsed.agePassphrase = NONE
        /\ landed.ciphertext = work.ciphertext
        /\ ReadyShares(landed)
    BY <1>5, LandShardsEffect DEF Sound, SameCollected
  <2>2. ~AllFrames(parsed) => work = parsed
    BY <1>5, AutoRecoverEffect DEF Sound
  <2> HIDE DEF landed, work
  <2>3. store' = landed /\ inflight' = Superseded
    BY <1>9 DEF Commit
  <2>4. PiecesKept
    BY <1>7, <2>1, <2>3, Zenon DEF PiecesKept, Extends, SameCollected
  <2>5. BoxKept
    BY <1>7, <2>1, <2>3, Zenon DEF BoxKept, Extends
  <2>6. SameOutput(landed, store) /\ landed.authStatus = store.authStatus
    BY <1>6, <2>1, Zenon DEF SameRest, SameOutput, SameBackup
  <2>7. store.total = NONE /\ store.ciphertext = NONE =>
          landed.total = NONE /\ landed.ciphertext = NONE
    BY <1>6, <2>1, <2>2 DEF SameBackup, SameCollected, AllFrames
  <2>8. ASSUME NEW mode PROVE AuthConcluded(landed, mode) = AuthConcluded(store, mode)
    <3>1. AllFrames(landed) = AllFrames(parsed) /\ Reassembled(landed) = Reassembled(parsed)
      BY <2>1, SameEvidence
    <3>2. AuthConcluded(landed, mode) = AuthConcluded(parsed, mode)
      BY <2>1, <3>1, Zenon DEF AuthConcluded, SameCollected, SameRest
    <3>3. QED
      BY <1>6, <3>2, SameBackupConcluded
  <2>9. QED
    BY <1>1, <1>9, <2>1, <2>3, <2>4, <2>5, <2>6, <2>7, <2>8, Zenon
<1>10. QED
  BY <1>3, <1>8, <1>9

\* The end of the shards' signature checks.
LEMMA FinishShardPayloadsEffect ==
    ASSUME IInv, NEW k \in Slots, FinishShardPayloads(k)
    PROVE  /\ PiecesKept /\ BoxKept /\ crypto' = crypto
           /\ SameOutput(store', store) /\ store'.authStatus = store.authStatus
           /\ \A mode : AuthConcluded(store', mode) = AuthConcluded(store, mode)
           /\ store.total = NONE /\ store.ciphertext = NONE =>
                store'.total = NONE /\ store'.ciphertext = NONE
           /\ inflight' = [Superseded EXCEPT ![k] = NONE]
           /\ inflight[k].work # NONE =>
                /\ ReadyShares(store')
                /\ crypto = "works" =>
                     \A i \in DOMAIN store'.shardFrames : store'.shardFrames[i].genuine
<1> DEFINE t == inflight[k]
           checked == VerifyCollected(store)
           work == AutoRecoverShardSecret(checked)
           landed == LandShards(store, work)
           freed == [store EXCEPT !.isAddingShards = FALSE]
<1>1. /\ Sound(store) /\ store \in States /\ crypto' = crypto
      /\ inflight' = [Superseded EXCEPT ![k] = NONE]
      /\ t.work = NONE => store' = freed
      /\ t.work # NONE => store' = landed
  <2>1. t # NONE /\ t.kind = "shards" /\ Current(t, store)
    BY IInvParts DEF FinishShardPayloads, Waiting, Parts
  <2>2. t.work # NONE => t.work = store
    BY <2>1 DEF Current
  <2>3. QED
    BY StoreSound, <2>2 DEF FinishShardPayloads
<1>2. CASE t.work = NONE
  <2>1. /\ SamePieces(freed, store) /\ SameRest(freed, store)
        /\ freed.agePassphrase = store.agePassphrase /\ freed.ciphertext = store.ciphertext
    BY <1>1, Zenon DEF States, SamePieces, SameCollected, SameRest, SameOutput
  <2>2. store' = freed
    BY <1>1, <1>2
  <2> HIDE DEF freed
  <2>3. PiecesKept /\ BoxKept
    BY <2>1, <2>2, Zenon DEF PiecesKept, BoxKept, SamePieces, SameCollected
  <2>4. \A mode : AuthConcluded(freed, mode) = AuthConcluded(store, mode)
    BY <2>1, SameConclusions
  <2>5. QED
    BY <1>1, <1>2, <2>1, <2>2, <2>3, <2>4 DEF SamePieces, SameRest, SameCollected
<1>3. CASE t.work # NONE
  <2>1. /\ Good(checked) /\ SameCollected(checked, store) /\ Coherent(checked)
        /\ SameRest(checked, store) /\ checked.agePassphrase = store.agePassphrase
        /\ \A i \in DOMAIN store.shardFrames :
             \/ i \in DOMAIN checked.shardFrames
                /\ checked.shardFrames[i] = store.shardFrames[i]
             \/ crypto = "works" /\ ~store.shardFrames[i].genuine
        /\ crypto = "works" =>
             \A i \in DOMAIN checked.shardFrames : checked.shardFrames[i].genuine
        /\ ~AllFrames(store) => ~AllFrames(checked)
        /\ checked.ciphertext = store.ciphertext
    BY <1>1, VerifyCollectedType, VerifyCollectedEffect DEF Sound
  <2> HIDE DEF checked
  <2>2. /\ SameRest(landed, store) /\ SameCollected(landed, store)
        /\ landed.shardFrames = checked.shardFrames /\ landed.authStatus = store.authStatus
        /\ landed.agePassphrase = checked.agePassphrase \/ checked.agePassphrase = NONE
        /\ landed.ciphertext = work.ciphertext
        /\ ReadyShares(landed)
    BY <1>1, <2>1, LandShardsEffect DEF Sound
  <2>3. ~AllFrames(checked) => work = checked
    BY <2>1, AutoRecoverEffect
  <2> HIDE DEF landed, work
  <2>4. store' = landed
    BY <1>1, <1>3
  <2>5. PiecesKept
    BY <2>1, <2>2, <2>4, Zenon DEF PiecesKept, SameCollected
  <2>6. BoxKept
    BY <2>1, <2>2, <2>4, Zenon DEF BoxKept
  <2>7. store.total = NONE /\ store.ciphertext = NONE =>
          landed.total = NONE /\ landed.ciphertext = NONE
    BY <2>1, <2>2, <2>3 DEF SameCollected, AllFrames
  <2>8. ASSUME NEW mode PROVE AuthConcluded(landed, mode) = AuthConcluded(store, mode)
    <3>1. AllFrames(landed) = AllFrames(store) /\ Reassembled(landed) = Reassembled(store)
      BY <2>2, SameEvidence
    <3>2. QED
      BY <2>2, <3>1, Zenon DEF AuthConcluded, SameCollected, SameRest
  <2>9. QED
    BY <1>1, <2>1, <2>2, <2>4, <2>5, <2>6, <2>7, <2>8, Zenon DEF SameRest
<1>4. QED
  BY <1>2, <1>3

-----------------------------------------------------------------------------
(* A decryption that waits has opened its ciphertext with the passphrase it read. *)

Opens(t) == t # NONE /\ t.kind = "decrypt" => Content(t.bytes).key = t.typed
DecryptOpens == \A k \in Slots : Opens(inflight[k])

\* An applied change leaves waiting decryptions as they are.
LEMMA SupersededOpens ==
    ASSUME inflight \in [Slots -> Option(Tasks)], DecryptOpens, NEW k \in Slots
    PROVE  Opens(Superseded[k])
<1>1. CASE inflight[k] = NONE \/ "work" \notin DOMAIN inflight[k]
  BY <1>1, Zenon DEF Superseded, DecryptOpens
<1>2. CASE inflight[k] # NONE /\ "work" \in DOMAIN inflight[k]
  <2>1. inflight[k] \in Tasks
    BY <1>2 DEF Option
  <2>2. /\ Superseded[k] = [inflight[k] EXCEPT !.work = NONE]
        /\ inflight[k].kind \in {"verify", "shards", "extract"}
    BY <1>2, <2>1, TaskShape DEF Superseded
  <2>3. Superseded[k].kind # "decrypt"
    BY <1>2, <2>1, <2>2, TaskShape
  <2>4. QED
    BY <2>3 DEF Opens
<1>3. QED
  BY <1>1, <1>2

\* Whatever a step starts, it starts no decryption that has not opened its ciphertext.
LEMMA OpensKept ==
    ASSUME IInv, DecryptOpens, [Next]_vars
    PROVE  DecryptOpens'
<1>1. inflight \in [Slots -> Option(Tasks)] /\ store \in States
  BY StoreSound
<1>2. ASSUME NEW k \in Slots, NEW t, Opens(t),
             inflight' = [Superseded EXCEPT ![k] = t] \/ inflight' = [inflight EXCEPT ![k] = t]
      PROVE  DecryptOpens'
  <2>1. Superseded \in [Slots -> Option(Tasks)]
    BY <1>1, SupersededType
  <2>2. \A j \in Slots : inflight'[j] \in {t, Superseded[j], inflight[j]}
    BY <1>1, <1>2, <2>1
  <2>3. \A j \in Slots : Opens(inflight'[j])
    BY <1>1, <1>2, <2>2, SupersededOpens DEF DecryptOpens
  <2>4. QED
    BY <2>3 DEF DecryptOpens
<1>3. CASE inflight' = Superseded
  BY <1>1, <1>3, SupersededOpens DEF DecryptOpens
<1>4. CASE inflight' = inflight
  BY <1>4 DEF DecryptOpens
<1>5. Opens(NONE)
  BY DEF Opens
<1>6. CASE \E p \in Pastes : AddPayloads(p)
  <2>1. \/ \E k \in Slots, w \in States :
             inflight' = [Superseded EXCEPT ![k] = [kind |-> "verify", work |-> w]]
        \/ inflight' = Superseded
    BY <1>6, AddPayloadsEffect
  <2>2. \A w : Opens([kind |-> "verify", work |-> w])
    BY DEF Opens
  <2>3. QED
    BY <1>2, <1>3, <2>1, <2>2
<1>7. CASE \E p \in ShardPastes : AddShardPayloads(p)
  <2>1. \/ \E k \in Slots, w \in States :
             inflight' = [Superseded EXCEPT ![k] = [kind |-> "shards", work |-> w]]
        \/ inflight' = Superseded
    BY <1>7, AddShardPayloadsEffect
  <2>2. \A w : Opens([kind |-> "shards", work |-> w])
    BY DEF Opens
  <2>3. QED
    BY <1>2, <1>3, <2>1, <2>2
<1>8. CASE DecryptCiphertext
  <2> DEFINE bytes == [store EXCEPT !.extractedFiles = NONE, !.decryptedEnvelope = NONE,
                          !.ciphertext = IF @ = NONE THEN Reassembled(store) ELSE @].ciphertext
             task == [kind |-> "decrypt", bytes |-> bytes, typed |-> store.agePassphrase]
  <2>1. \/ inflight' = Superseded
        \/ /\ Content(bytes).key = store.agePassphrase
           /\ \E k \in Slots : inflight' = [Superseded EXCEPT ![k] = task]
    BY <1>8, Zenon DEF DecryptCiphertext, Commit, CommitAndWait
  <2> HIDE DEF bytes
  <2>2. Content(bytes).key = store.agePassphrase => Opens(task)
    BY DEF Opens
  <2>3. QED
    BY <1>2, <1>3, <2>1, <2>2
<1>9. CASE ExtractEnvelope \/ CopyRecoveredSecret
  <2>1. \/ inflight' = Superseded
        \/ \E k \in Slots : \E w :
             inflight' = [inflight EXCEPT ![k] = [kind |-> "extract", work |-> w]]
        \/ \E k \in Slots : inflight' = [inflight EXCEPT ![k] = [kind |-> "copy"]]
    BY <1>9, Zenon DEF ExtractEnvelope, CopyRecoveredSecret, Commit
  <2>2. Opens([kind |-> "copy"]) /\ \A w : Opens([kind |-> "extract", work |-> w])
    BY DEF Opens
  <2>3. QED
    BY <1>2, <1>3, <2>1, <2>2
<1>10. CASE \/ ClearOutput \/ DownloadCipher \/ DownloadZip \/ TypeText \/ ResetAll
            \/ \E v \in TypedPassphrases : TypePassphrase(v)
  BY <1>3, <1>10 DEF ClearOutput, DownloadCipher, DownloadZip, TypeText, ResetAll,
     TypePassphrase, Commit
<1>11. CASE \E k \in Slots : Finish(k)
  <2>1. PICK k \in Slots : \/ inflight' = [Superseded EXCEPT ![k] = NONE]
                           \/ inflight' = [inflight EXCEPT ![k] = NONE]
    BY <1>11, Zenon DEF Finish, FinishPayloads, FinishShardPayloads, FinishDecrypt,
       FinishExtract, FinishCopy
  <2>2. QED
    BY <1>2, <1>5, <2>1
<1>12. CASE UNCHANGED vars
  BY <1>4, <1>12 DEF vars
<1>13. QED
  BY <1>6, <1>7, <1>8, <1>9, <1>10, <1>11, <1>12 DEF Next, User

\* The passphrase box is emptied by the unlocking it made possible.
Unlocked == /\ store'.agePassphrase = NONE /\ store'.recoveryComplete
            /\ store'.extractedFiles # NONE
            /\ Content(store'.extractedFiles).key = store.agePassphrase

\* Of the quiet steps only typing and a successful unlocking change the passphrase box.
LEMMA QuietBox ==
    ASSUME IInv, DecryptOpens, Quiet
    PROVE  \/ BoxKept \/ Unlocked
           \/ \E v \in TypedPassphrases : TypePassphrase(v)
<1>1. store \in States /\ Sound(store) /\ inflight \in [Slots -> Option(Tasks)]
  BY StoreSound
<1>2. CASE DecryptCiphertext
  <2> DEFINE c == IF store.ciphertext = NONE THEN Reassembled(store) ELSE store.ciphertext
             bare == [store EXCEPT !.extractedFiles = NONE, !.decryptedEnvelope = NONE]
             prep == [store EXCEPT !.extractedFiles = NONE, !.decryptedEnvelope = NONE,
                                   !.ciphertext = c]
             started == [prep EXCEPT !.isDecrypting = TRUE]
             done == Recovered(started, prep.ciphertext, store.agePassphrase)
  <2>1. \/ store' = bare \/ store' = prep \/ store' = started
        \/ store' = done /\ Content(prep.ciphertext).key = store.agePassphrase
    BY <1>1, <1>2, Zenon DEF DecryptCiphertext, Commit, CommitAndWait, States
  <2>2. c # NONE
    <3>1. store.ciphertext = NONE => AllFrames(store)
      BY <1>2 DEF DecryptCiphertext, CanDecrypt
    <3>2. QED
      BY <1>1, <3>1, ReassembledType, KitConstants DEF Sound
  <2> HIDE DEF c
  <2>3. /\ prep.ciphertext = c /\ bare.agePassphrase = store.agePassphrase
        /\ prep.agePassphrase = store.agePassphrase
        /\ started.agePassphrase = store.agePassphrase
    BY <1>1, Zenon DEF States
  <2>4. /\ done.agePassphrase = NONE /\ done.recoveryComplete /\ done.extractedFiles = c
    BY <1>1, Zenon DEF States, Recovered
  <2> HIDE DEF bare, prep, started, done
  <2>5. QED
    BY <2>1, <2>2, <2>3, <2>4, Zenon DEF BoxKept, Unlocked
<1>3. CASE ExtractEnvelope \/ \E k \in Slots : FinishExtract(k)
  <2> DEFINE t == [store EXCEPT !.extractedFiles = store.decryptedEnvelope]
  <2>1. \A k \in Slots : Current(inflight[k], store)
    BY IInvParts DEF Parts
  <2>2. store' = t \/ store' = store
    BY <1>3, <2>1, Zenon DEF ExtractEnvelope, FinishExtract, Commit, Waiting, Current
  <2>3. t.agePassphrase = store.agePassphrase
    BY <1>1, Zenon DEF States
  <2>4. QED
    BY <2>2, <2>3, Zenon DEF BoxKept
<1>4. CASE \E k \in Slots : FinishDecrypt(k)
  <2>1. PICK k \in Slots : FinishDecrypt(k)
    BY <1>4
  <2> DEFINE bytes == inflight[k].bytes
             t == [store EXCEPT !.isDecrypting = FALSE]
             done == Recovered(store, bytes, inflight[k].typed)
  <2>2. (store' = t \/ store' = done) /\ inflight[k] # NONE /\ inflight[k].kind = "decrypt"
    BY <2>1, Zenon DEF FinishDecrypt, Waiting
  <2>3. bytes # NONE /\ Content(bytes).key = inflight[k].typed
    <3>1. inflight[k] \in Tasks
      BY <1>1, <2>2 DEF Option
    <3>2. bytes \in Ciphertexts
      BY <2>2, <3>1 DEF Tasks
    <3>3. QED
      BY <2>2, <3>2, KitConstants DEF DecryptOpens, Opens
  <2>4. t.agePassphrase = store.agePassphrase
    BY <1>1, Zenon DEF States
  <2> HIDE DEF bytes
  <2>5. /\ \/ done.agePassphrase = store.agePassphrase
           \/ done.agePassphrase = NONE /\ store.agePassphrase = inflight[k].typed
        /\ done.recoveryComplete /\ done.extractedFiles = bytes
    BY <1>1, Zenon DEF States, Recovered
  <2> HIDE DEF t, done
  <2>6. QED
    BY <2>2, <2>3, <2>4, <2>5, Zenon DEF BoxKept, Unlocked
<1>5. CASE ClearOutput \/ DownloadCipher
  <2> DEFINE t == [store EXCEPT !.extractedFiles = NONE]
             b == SyncCollectedCiphertext(store)
             u == [b EXCEPT !.cleared = FALSE]
  <2>1. store' = t \/ store' = u
    BY <1>5, Zenon DEF ClearOutput, DownloadCipher, Commit
  <2>2. t.agePassphrase = store.agePassphrase
    BY <1>1, Zenon DEF States
  <2>3. b \in States /\ b.agePassphrase = store.agePassphrase
    BY <1>1, SyncType DEF Sound, Good
  <2> HIDE DEF b
  <2>4. u.agePassphrase = store.agePassphrase
    BY <2>3, Zenon DEF States
  <2>5. QED
    BY <2>1, <2>2, <2>4, Zenon DEF BoxKept
<1>6. CASE \/ DownloadZip \/ CopyRecoveredSecret \/ TypeText
           \/ \E k \in Slots : FinishCopy(k)
  BY <1>6, Zenon DEF DownloadZip, CopyRecoveredSecret, TypeText, FinishCopy, Commit, BoxKept
<1>7. QED
  BY <1>2, <1>3, <1>4, <1>5, <1>6, Zenon DEF Quiet

\* The steps of the kit, by what they may do to the pieces.
LEMMA StepKinds ==
    ASSUME Next
    PROVE  \/ Quiet \/ ResetAll
           \/ \E p \in Pastes : AddPayloads(p)
           \/ \E p \in ShardPastes : AddShardPayloads(p)
           \/ \E k \in Slots : FinishPayloads(k) \/ FinishShardPayloads(k)
BY Zenon DEF Next, User, Finish, Quiet

\* No handler, its own or one that was waiting, loses a collected piece (reducer.js:24-52,
\* actions_collect.js:231-239) or empties the passphrase box without having unlocked with it
\* (actions_recover.js:63-80).
LEMMA StepKeepsInputs ==
    ASSUME IInv, DecryptOpens, Next
    PROVE  /\ ResetAll \/ PiecesKept
           /\ \/ BoxKept \/ Unlocked \/ ResetAll
              \/ \E v \in TypedPassphrases : TypePassphrase(v)
<1>1. CASE Quiet
  <2>1. SamePieces(store', store)
    BY <1>1, QuietSteps
  <2>2. PiecesKept
    BY <2>1, Zenon DEF PiecesKept, SamePieces, SameCollected
  <2>3. QED
    BY <1>1, <2>2, QuietBox
<1>2. CASE \/ \E p \in Pastes : AddPayloads(p)
           \/ \E p \in ShardPastes : AddShardPayloads(p)
           \/ \E k \in Slots : FinishPayloads(k) \/ FinishShardPayloads(k)
  BY <1>2, AddPayloadsEffect, AddShardPayloadsEffect, FinishPayloadsEffect,
     FinishShardPayloadsEffect
<1>3. QED
  BY <1>1, <1>2, StepKinds

\* A gzip-coded payload is inflated only after its passphrase opened it
\* (actions_recover.js:45-80).
LEMMA OpensAlways == Spec => []DecryptOpens
<1>1. Init => DecryptOpens
  BY DEF Init, DecryptOpens, Opens
<1>2. IInv /\ DecryptOpens /\ [Next]_vars => DecryptOpens'
  BY OpensKept
<1>3. QED
  BY <1>1, <1>2, Invariance, PTL DEF Spec

\* Whatever overlaps, no handler loses a collected frame, AUTH payload or share
\* (actions_collect.js:231-239), nor a typed passphrase that has not unlocked anything
\* (actions_recover.js:63-80).
THEOREM InputsAlwaysKept == Spec => InputsKept
<1>1. IInv /\ DecryptOpens /\ [Next]_vars =>
        /\ [ResetAll \/ PiecesKept]_vars
        /\ [\/ BoxKept \/ Unlocked \/ ResetAll
            \/ \E v \in TypedPassphrases : TypePassphrase(v)]_vars
  BY StepKeepsInputs
<1>2. CollectedIsKept <=> [][ResetAll \/ PiecesKept]_vars
  BY PTL DEF CollectedIsKept, PiecesKept
<1>3. [\/ BoxKept \/ Unlocked \/ ResetAll
       \/ \E v \in TypedPassphrases : TypePassphrase(v)]_vars
      => [\/ store'.agePassphrase = store.agePassphrase \/ store.agePassphrase = NONE
          \/ ResetAll \/ \E v \in TypedPassphrases : TypePassphrase(v)
          \/ /\ store'.agePassphrase = NONE /\ store'.recoveryComplete
             /\ store'.extractedFiles # NONE
             /\ Content(store'.extractedFiles).key = store.agePassphrase]_vars
  BY Zenon DEF BoxKept, Unlocked
<1>4. QED
  BY <1>1, <1>2, <1>3, Invariance, OpensAlways, PTL DEF Spec, InputsKept, TypedPassphraseKept

-----------------------------------------------------------------------------
(* The user who lets one operation end before starting the next. *)

\* One handler waits at a time, and nothing overtakes it.
Calm ==
    /\ \A j, k \in Slots : inflight[j] # NONE /\ inflight[k] # NONE => j = k
    /\ \A k \in Slots :
         inflight[k] # NONE /\ inflight[k].kind \in {"verify", "shards", "extract"}
         => inflight[k].work # NONE

\* After a reset there is nothing to show and nothing underway that could bring it back.
Cleared ==
    store.cleared =>
        /\ store.extractedFiles = NONE /\ store.decryptedEnvelope = NONE
        /\ ~store.recoveryComplete /\ store.authStatus = "missing"
        /\ store.total = NONE /\ store.ciphertext = NONE
        /\ \A k \in Slots : inflight[k] # NONE => inflight[k].kind \in {"shards", "copy"}

SharesChecked == \A k \in Slots : ~Waiting(k, "shards")

\* Shares that no check is pending for have passed one, where there is one.
Vouched == crypto = "works" /\ SharesChecked =>
               \A i \in DOMAIN store.shardFrames : store.shardFrames[i].genuine

\* What the pieces allow has been concluded, unless the check for it is pending.
Concluded ==
    /\ ~AuthStatusPending => AuthConcluded(store, crypto)
    /\ ~AuthStatusPending /\ SharesChecked => ReadyShares(store)

PInv == IInv /\ Calm /\ Cleared /\ Vouched /\ Concluded

\* Where nothing waits an applied change overtakes nobody, and one handler may start.
LEMMA OneStarts ==
    ASSUME inflight \in [Slots -> Option(Tasks)], Idle,
           NEW k \in Slots, NEW t,
           \/ inflight' = [Superseded EXCEPT ![k] = t]
           \/ inflight' = [inflight EXCEPT ![k] = t]
    PROVE  \A j \in Slots : inflight'[j] = IF j = k THEN t ELSE NONE
<1>1. Superseded \in [Slots -> Option(Tasks)] /\ \A j \in Slots : Superseded[j] = NONE
  BY SupersededType DEF Idle
<1>2. QED
  BY <1>1 DEF Idle

\* Or none starts.
LEMMA NoneStarts ==
    ASSUME inflight \in [Slots -> Option(Tasks)], Idle,
           inflight' = Superseded \/ inflight' = inflight
    PROVE  Idle'
BY SupersededType DEF Idle

\* When the one waiting handler ends, nothing waits.
LEMMA LastEnds ==
    ASSUME inflight \in [Slots -> Option(Tasks)], Calm, NEW k \in Slots, inflight[k] # NONE,
           \/ inflight' = [Superseded EXCEPT ![k] = NONE]
           \/ inflight' = [inflight EXCEPT ![k] = NONE]
    PROVE  Idle'
<1>1. \A j \in Slots : j # k => inflight[j] = NONE
  BY DEF Calm
<1>2. Superseded \in [Slots -> Option(Tasks)] /\ \A j \in Slots : j # k => Superseded[j] = NONE
  BY <1>1, SupersededType
<1>3. QED
  BY <1>1, <1>2 DEF Idle

\* Where nothing waits, nothing is pending.
LEMMA IdleFacts ==
    ASSUME Idle
    PROVE  Calm /\ SharesChecked /\ ~AuthStatusPending
BY DEF Idle, Calm, SharesChecked, AuthStatusPending, Waiting

\* The same of the state after a step.
LEMMA IdleFactsNext ==
    ASSUME Idle'
    PROVE  Calm' /\ SharesChecked' /\ ~AuthStatusPending'
BY DEF Idle, Calm, SharesChecked, AuthStatusPending, Waiting

\* A working copy is a state, and no state is NONE.
LEMMA StartedTask ==
    ASSUME NEW w \in States, NEW kind \in {"verify", "shards", "extract"}
    PROVE  /\ [kind |-> kind, work |-> w] \in Option(Tasks)
           /\ [kind |-> kind, work |-> w] # NONE /\ w # NONE
<1>1. [kind |-> kind, work |-> w] \in Tasks
  BY OptionFacts DEF Tasks
<1>2. QED
  BY <1>1, NoneIsNoTask, OptionFacts

-----------------------------------------------------------------------------

\* A paste into the backup box by a patient user.
LEMMA PatientAddPayloads ==
    ASSUME PInv, Idle, NEW p \in Pastes, AddPayloads(p)
    PROVE  Calm' /\ Cleared' /\ Vouched' /\ Concluded'
<1>1. inflight \in [Slots -> Option(Tasks)]
  BY StoreSound DEF PInv
<1>2. /\ crypto' = crypto /\ store'.shardFrames = store.shardFrames /\ store'.cleared = FALSE
      /\ \/ \E k \in Slots, w \in States :
              inflight' = [Superseded EXCEPT ![k] = [kind |-> "verify", work |-> w]]
         \/ /\ inflight' = Superseded
            /\ ReadyShares(store')
            /\ ~AuthStatusPending => AuthConcluded(store', crypto)
  BY AddPayloadsEffect DEF PInv
<1>3. Vouched'
  BY <1>2, IdleFacts DEF PInv, Vouched
<1>4. Cleared'
  BY <1>2 DEF Cleared
<1>5. CASE /\ inflight' = Superseded
           /\ ReadyShares(store')
           /\ ~AuthStatusPending => AuthConcluded(store', crypto)
  <2>1. Calm'
    BY <1>1, <1>5, NoneStarts, IdleFactsNext
  <2>2. Concluded'
    BY <1>2, <1>5, IdleFacts DEF Concluded
  <2>3. QED
    BY <1>3, <1>4, <2>1, <2>2
<1>6. CASE \E k \in Slots, w \in States :
             inflight' = [Superseded EXCEPT ![k] = [kind |-> "verify", work |-> w]]
  <2>1. PICK k \in Slots, w \in States :
             inflight' = [Superseded EXCEPT ![k] = [kind |-> "verify", work |-> w]]
    BY <1>6
  <2> DEFINE task == [kind |-> "verify", work |-> w]
  <2>2. task \in Option(Tasks) /\ task # NONE /\ task.kind = "verify" /\ task.work # NONE
    BY StartedTask
  <2>3. inflight' = [Superseded EXCEPT ![k] = task]
    BY <2>1
  <2> HIDE DEF task
  <2>4. \A j \in Slots : inflight'[j] = IF j = k THEN task ELSE NONE
    BY <1>1, <2>3, OneStarts
  <2>5. Calm' /\ AuthStatusPending'
    BY <2>2, <2>4 DEF Calm, AuthStatusPending, Waiting
  <2>6. QED
    BY <1>3, <1>4, <2>5 DEF Concluded
<1>7. QED
  BY <1>2, <1>5, <1>6

\* A paste into the shard box by a patient user.
LEMMA PatientAddShardPayloads ==
    ASSUME PInv, Idle, NEW p \in ShardPastes, AddShardPayloads(p)
    PROVE  Calm' /\ Cleared' /\ Vouched' /\ Concluded'
<1>1. inflight \in [Slots -> Option(Tasks)]
  BY StoreSound DEF PInv
<1>2. /\ crypto' = crypto
      /\ SameOutput(store', store) /\ store'.authStatus = store.authStatus
      /\ \A mode : AuthConcluded(store', mode) = AuthConcluded(store, mode)
      /\ store.total = NONE /\ store.ciphertext = NONE =>
           store'.total = NONE /\ store'.ciphertext = NONE
      /\ \/ /\ store' \in States
            /\ \E k \in Slots :
                 inflight' = [Superseded EXCEPT ![k] = [kind |-> "shards", work |-> store']]
         \/ /\ inflight' = Superseded
            /\ ReadyShares(store')
            /\ crypto = "absent" \/ DOMAIN store'.shardFrames = {}
  BY AddShardPayloadsEffect DEF PInv
<1>3. /\ store'.cleared => store.cleared
      /\ store'.cleared =>
           /\ store'.extractedFiles = NONE /\ store'.decryptedEnvelope = NONE
           /\ ~store'.recoveryComplete /\ store'.authStatus = "missing"
           /\ store'.total = NONE /\ store'.ciphertext = NONE
  BY <1>2 DEF PInv, Cleared, SameOutput
<1>4. AuthConcluded(store', crypto')
  BY <1>2, IdleFacts DEF PInv, Concluded
<1>5. CASE /\ inflight' = Superseded
           /\ ReadyShares(store')
           /\ crypto = "absent" \/ DOMAIN store'.shardFrames = {}
  <2>1. Idle'
    BY <1>1, <1>5, NoneStarts
  <2>2. Calm'
    BY <2>1, IdleFactsNext
  <2>3. Cleared'
    BY <1>3, <2>1 DEF Cleared, Idle
  <2>4. Vouched'
    BY <1>2, <1>5 DEF Vouched
  <2>5. QED
    BY <1>4, <1>5, <2>2, <2>3, <2>4 DEF Concluded
<1>6. CASE /\ store' \in States
           /\ \E k \in Slots :
                inflight' = [Superseded EXCEPT ![k] = [kind |-> "shards", work |-> store']]
  <2> DEFINE task == [kind |-> "shards", work |-> store']
  <2>1. PICK k \in Slots : inflight' = [Superseded EXCEPT ![k] = task]
    BY <1>6
  <2>2. task \in Option(Tasks) /\ task # NONE /\ task.kind = "shards" /\ task.work # NONE
    BY <1>6, StartedTask
  <2> HIDE DEF task
  <2>3. \A j \in Slots : inflight'[j] = IF j = k THEN task ELSE NONE
    BY <1>1, <2>1, <2>2, OneStarts
  <2>4. Calm' /\ ~SharesChecked'
    BY <2>2, <2>3 DEF Calm, SharesChecked, Waiting
  <2>5. Cleared'
    BY <1>3, <2>2, <2>3 DEF Cleared
  <2>6. QED
    BY <1>4, <2>4, <2>5 DEF Concluded, Vouched
<1>7. QED
  BY <1>2, <1>5, <1>6

\* The end of either signature check for a patient user.
LEMMA PatientVerified ==
    ASSUME PInv, NEW k \in Slots, FinishPayloads(k)
    PROVE  Calm' /\ Cleared' /\ Vouched' /\ Concluded'
<1>1. inflight \in [Slots -> Option(Tasks)]
  BY StoreSound DEF PInv
<1>2. inflight[k] # NONE /\ inflight[k].kind = "verify"
  BY DEF FinishPayloads, Waiting
<1>3. inflight[k].work # NONE
  BY <1>2 DEF PInv, Calm
<1>4. /\ crypto' = crypto
      /\ store'.shardFrames = store.shardFrames /\ store'.cleared = store.cleared
      /\ inflight' = [Superseded EXCEPT ![k] = NONE]
      /\ ReadyShares(store') /\ AuthConcluded(store', crypto)
  BY <1>3, FinishPayloadsEffect DEF PInv
<1>5. Calm'
  BY <1>1, <1>2, <1>4, LastEnds, IdleFactsNext DEF PInv
<1>6. SharesChecked
  BY <1>2 DEF PInv, Calm, SharesChecked, Waiting
<1>7. Vouched'
  BY <1>4, <1>6 DEF PInv, Vouched
<1>8. Cleared'
  BY <1>2, <1>4 DEF PInv, Cleared
<1>9. QED
  BY <1>4, <1>5, <1>7, <1>8 DEF Concluded

\* The end of the shards' signature checks, likewise.
LEMMA PatientSharesVerified ==
    ASSUME PInv, NEW k \in Slots, FinishShardPayloads(k)
    PROVE  Calm' /\ Cleared' /\ Vouched' /\ Concluded'
<1>1. inflight \in [Slots -> Option(Tasks)]
  BY StoreSound DEF PInv
<1>2. inflight[k] # NONE /\ inflight[k].kind = "shards"
  BY DEF FinishShardPayloads, Waiting
<1>3. inflight[k].work # NONE
  BY <1>2 DEF PInv, Calm
<1>4. /\ crypto' = crypto
      /\ SameOutput(store', store) /\ store'.authStatus = store.authStatus
      /\ \A mode : AuthConcluded(store', mode) = AuthConcluded(store, mode)
      /\ store.total = NONE /\ store.ciphertext = NONE =>
           store'.total = NONE /\ store'.ciphertext = NONE
      /\ inflight' = [Superseded EXCEPT ![k] = NONE]
      /\ ReadyShares(store')
      /\ crypto = "works" =>
           \A i \in DOMAIN store'.shardFrames : store'.shardFrames[i].genuine
  BY <1>3, FinishShardPayloadsEffect DEF PInv
<1>5. Idle'
  BY <1>1, <1>2, <1>4, LastEnds DEF PInv
<1>6. Calm'
  BY <1>5, IdleFactsNext
<1>7. ~AuthStatusPending
  BY <1>2 DEF PInv, Calm, AuthStatusPending, Waiting
<1>8. Cleared'
  BY <1>4, <1>5 DEF PInv, Cleared, SameOutput, Idle
<1>9. Vouched' /\ Concluded'
  BY <1>4, <1>7 DEF PInv, Vouched, Concluded
<1>10. QED
  BY <1>6, <1>8, <1>9

\* A reset.
LEMMA PatientReset ==
    ASSUME PInv, Idle, ResetAll
    PROVE  Calm' /\ Cleared' /\ Vouched' /\ Concluded'
<1>1. Idle'
  BY StoreSound, NoneStarts DEF PInv, ResetAll, Commit
<1>2. store' = CreateInitialState /\ crypto' = crypto
  BY DEF ResetAll, Commit
<1>3. /\ store'.extractedFiles = NONE /\ store'.decryptedEnvelope = NONE
      /\ ~store'.recoveryComplete /\ store'.authStatus = "missing"
      /\ store'.total = NONE /\ store'.ciphertext = NONE
      /\ DOMAIN store'.shardFrames = {} /\ store'.authPayload = NONE
      /\ store'.shardHeader = NONE
  BY <1>2 DEF CreateInitialState, Empty
<1>4. AuthConcluded(store', crypto') /\ ReadyShares(store')
  BY <1>3 DEF AuthConcluded, ReadyShares, EnoughShards
<1>5. QED
  BY <1>1, <1>3, <1>4, IdleFactsNext DEF Cleared, Vouched, Concluded, Idle

-----------------------------------------------------------------------------
(* Unlocking and showing, for a patient user. *)

\* What the view may show beside the words "State cleared."
Bare(s) == /\ s.extractedFiles = NONE /\ s.decryptedEnvelope = NONE
           /\ ~s.recoveryComplete /\ s.authStatus = "missing"
           /\ s.total = NONE /\ s.ciphertext = NONE

QuietFinish == \E k \in Slots : FinishDecrypt(k) \/ FinishExtract(k) \/ FinishCopy(k)

\* Unlocking and showing need something to unlock or show, and do not bring the words back.
LEMMA QuietBare ==
    ASSUME PInv, Quiet
    PROVE  /\ store'.cleared => Bare(store')
           /\ DecryptCiphertext \/ ExtractEnvelope => ~store'.cleared
<1>1. store \in States /\ Sound(store)
  BY StoreSound DEF PInv
<1>2. SamePieces(store', store)
  BY QuietSteps DEF PInv
<1>3. store'.authStatus = store.authStatus /\ store'.total = store.total
  BY <1>2 DEF SamePieces, SameCollected
<1>4. CASE DecryptCiphertext
  <2> DEFINE c == IF store.ciphertext = NONE THEN Reassembled(store) ELSE store.ciphertext
             bare == [store EXCEPT !.extractedFiles = NONE, !.decryptedEnvelope = NONE]
             prep == [store EXCEPT !.extractedFiles = NONE, !.decryptedEnvelope = NONE,
                                   !.ciphertext = c]
             started == [prep EXCEPT !.isDecrypting = TRUE]
             done == Recovered(started, prep.ciphertext, store.agePassphrase)
  <2>1. store' = bare \/ store' = prep \/ store' = done \/ store' = started
    BY <1>1, <1>4, Zenon DEF DecryptCiphertext, Commit, CommitAndWait, States
  <2> HIDE DEF c
  <2>2. /\ bare.cleared = store.cleared /\ prep.cleared = store.cleared
        /\ started.cleared = store.cleared /\ done.cleared = store.cleared
    BY <1>1, Zenon DEF States, Recovered
  <2>3. ~store.cleared
    <3>1. store.ciphertext # NONE \/ store.total # NONE
      BY <1>4 DEF DecryptCiphertext, CanDecrypt, AllFrames
    <3>2. QED
      BY <3>1 DEF PInv, Cleared
  <2> HIDE DEF bare, prep, started, done
  <2>4. QED
    BY <2>1, <2>2, <2>3, Zenon
<1>5. CASE ExtractEnvelope \/ \E k \in Slots : FinishExtract(k)
  <2> DEFINE t == [store EXCEPT !.extractedFiles = store.decryptedEnvelope]
  <2>1. \A k \in Slots : Current(inflight[k], store)
    BY IInvParts DEF PInv, Parts
  <2>2. store' = t \/ store' = store
    BY <1>5, <2>1, Zenon DEF ExtractEnvelope, FinishExtract, Commit, Waiting, Current
  <2>3. t.cleared = store.cleared
    BY <1>1, Zenon DEF States
  <2>4. ~store.cleared
    BY <1>5 DEF PInv, Cleared, ExtractEnvelope, FinishExtract, Waiting
  <2> HIDE DEF t
  <2>5. QED
    BY <2>2, <2>3, <2>4, Zenon
<1>6. CASE \E k \in Slots : FinishDecrypt(k)
  <2>1. PICK k \in Slots : FinishDecrypt(k)
    BY <1>6
  <2> DEFINE t == [store EXCEPT !.isDecrypting = FALSE]
             done == Recovered(store, inflight[k].bytes, inflight[k].typed)
  <2>2. store' = t \/ store' = done
    BY <2>1, Zenon DEF FinishDecrypt
  <2>3. t.cleared = store.cleared /\ done.cleared = store.cleared
    BY <1>1, Zenon DEF States, Recovered
  <2>4. ~store.cleared
    BY <2>1 DEF PInv, Cleared, FinishDecrypt, Waiting
  <2> HIDE DEF t, done
  <2>5. QED
    BY <2>2, <2>3, <2>4, Zenon
<1>7. CASE DownloadCipher
  <2>1. SyncCollectedCiphertext(store) \in States
    BY <1>1, SyncType DEF Sound, Good
  <2>2. store'.cleared = FALSE
    BY <1>7, <2>1, Zenon DEF DownloadCipher, Commit, States
  <2>3. QED
    BY <2>2
<1>8. CASE ClearOutput
  <2> DEFINE t == [store EXCEPT !.extractedFiles = NONE]
  <2>1. store' = t /\ store.extractedFiles # NONE
    BY <1>8 DEF ClearOutput, Commit
  <2>2. t.cleared = store.cleared
    BY <1>1, Zenon DEF States
  <2>3. ~store.cleared
    BY <2>1 DEF PInv, Cleared
  <2> HIDE DEF t
  <2>4. QED
    BY <2>1, <2>2, <2>3, Zenon
<1>9. CASE \E v \in TypedPassphrases : TypePassphrase(v)
  <2>1. PICK v \in TypedPassphrases : store' = [store EXCEPT !.agePassphrase = v]
    BY <1>9 DEF TypePassphrase, Commit
  <2> DEFINE t == [store EXCEPT !.agePassphrase = v]
  <2>2. SameOutput(t, store) /\ t.ciphertext = store.ciphertext
    BY <1>1, Zenon DEF States, SameOutput
  <2>3. store' = t
    BY <2>1
  <2> HIDE DEF t
  <2>4. store'.cleared = store.cleared
    BY <2>2, <2>3, Zenon DEF SameOutput
  <2>5. store.cleared => Bare(store) /\ ~DecryptCiphertext /\ ~ExtractEnvelope
    BY DEF PInv, Cleared, Bare, DecryptCiphertext, CanDecrypt, AllFrames, ExtractEnvelope
  <2>6. store.cleared => Bare(store')
    BY <1>3, <2>2, <2>3, <2>5, Zenon DEF Bare, SameOutput
  <2>7. QED
    BY <2>4, <2>5, <2>6
<1>10. CASE \/ DownloadZip \/ CopyRecoveredSecret \/ TypeText
            \/ \E k \in Slots : FinishCopy(k)
  <2>1. store' = store
    BY <1>10 DEF DownloadZip, CopyRecoveredSecret, TypeText, FinishCopy, Commit
  <2>2. store.cleared => Bare(store) /\ ~DecryptCiphertext /\ ~ExtractEnvelope
    BY DEF PInv, Cleared, Bare, DecryptCiphertext, CanDecrypt, AllFrames, ExtractEnvelope
  <2>3. QED
    BY <2>1, <2>2
<1>11. QED
  BY <1>4, <1>5, <1>6, <1>7, <1>8, <1>9, <1>10 DEF Quiet

\* What a quiet step leaves waiting, when nothing waited or the one handler ended.
LEMMA QuietWaits ==
    ASSUME PInv, Quiet, Idle \/ QuietFinish
    PROVE  \/ Idle'
           \/ \E k \in Slots : \E t :
                /\ \A j \in Slots : inflight'[j] = IF j = k THEN t ELSE NONE
                /\ t.kind \in {"decrypt", "extract", "copy"}
                /\ t.kind = "extract" => t.work # NONE
                /\ t.kind # "copy" => DecryptCiphertext \/ ExtractEnvelope
<1>1. inflight \in [Slots -> Option(Tasks)] /\ store \in States
  BY StoreSound DEF PInv
<1>2. CASE QuietFinish
  <2>1. PICK k \in Slots : FinishDecrypt(k) \/ FinishExtract(k) \/ FinishCopy(k)
    BY <1>2 DEF QuietFinish
  <2>2. /\ inflight[k] # NONE
        /\ \/ inflight' = [Superseded EXCEPT ![k] = NONE]
           \/ inflight' = [inflight EXCEPT ![k] = NONE]
    BY <2>1, Zenon DEF FinishDecrypt, FinishExtract, FinishCopy, Waiting
  <2>3. QED
    BY <1>1, <2>2, LastEnds DEF PInv
<1>3. CASE Idle /\ DecryptCiphertext
  <2> DEFINE bytes == [store EXCEPT !.extractedFiles = NONE, !.decryptedEnvelope = NONE,
                          !.ciphertext = IF @ = NONE THEN Reassembled(store) ELSE @].ciphertext
             task == [kind |-> "decrypt", bytes |-> bytes, typed |-> store.agePassphrase]
  <2>1. \/ inflight' = Superseded
        \/ \E k \in Slots : inflight' = [Superseded EXCEPT ![k] = task]
    BY <1>3, Zenon DEF DecryptCiphertext, Commit, CommitAndWait
  <2>2. task.kind = "decrypt"
    OBVIOUS
  <2> HIDE DEF task
  <2>3. QED
    BY <1>1, <1>3, <2>1, <2>2, OneStarts, NoneStarts
<1>4. CASE Idle /\ ExtractEnvelope
  <2> DEFINE work == [store EXCEPT !.extractedFiles = store.decryptedEnvelope]
             task == [kind |-> "extract", work |-> work]
  <2>1. \/ inflight' = Superseded
        \/ \E k \in Slots : inflight' = [inflight EXCEPT ![k] = task]
    BY <1>4, Zenon DEF ExtractEnvelope, Commit
  <2>2. work \in States
    BY <1>1, ExtractSound, StoreSound DEF PInv, Sound, Good
  <2>3. task.kind = "extract" /\ task.work # NONE
    BY <2>2, StartedTask
  <2> HIDE DEF task
  <2>4. QED
    BY <1>1, <1>4, <2>1, <2>3, OneStarts, NoneStarts
<1>5. CASE Idle /\ CopyRecoveredSecret
  <2> DEFINE task == [kind |-> "copy"]
  <2>1. \E k \in Slots : inflight' = [inflight EXCEPT ![k] = task]
    BY <1>5 DEF CopyRecoveredSecret
  <2>2. task.kind = "copy"
    OBVIOUS
  <2> HIDE DEF task
  <2>3. QED
    BY <1>1, <1>5, <2>1, <2>2, OneStarts
<1>6. CASE /\ Idle
           /\ \/ ClearOutput \/ DownloadCipher \/ DownloadZip \/ TypeText
              \/ \E v \in TypedPassphrases : TypePassphrase(v)
  BY <1>1, <1>6, NoneStarts DEF ClearOutput, DownloadCipher, DownloadZip, TypeText,
     TypePassphrase, Commit
<1>7. QED
  BY <1>2, <1>3, <1>4, <1>5, <1>6 DEF Quiet, QuietFinish

\* Unlocking and showing, by a patient user, keep all that was concluded.
LEMMA PatientQuiet ==
    ASSUME PInv, Quiet, Idle \/ QuietFinish
    PROVE  Calm' /\ Cleared' /\ Vouched' /\ Concluded'
<1>1. SharesChecked /\ ~AuthStatusPending
  BY IdleFacts DEF PInv, Calm, SharesChecked, AuthStatusPending, QuietFinish, Waiting,
     FinishDecrypt, FinishExtract, FinishCopy
<1>2. SamePieces(store', store) /\ crypto' = crypto
  BY QuietSteps DEF PInv
<1>3. Vouched'
  BY <1>1, <1>2 DEF PInv, Vouched, SamePieces
<1>4. Concluded'
  BY <1>1, <1>2, SameConclusions DEF PInv, Concluded
<1>5. /\ store'.cleared => Bare(store')
      /\ DecryptCiphertext \/ ExtractEnvelope => ~store'.cleared
  BY QuietBare
<1>6. CASE Idle'
  BY <1>3, <1>4, <1>5, <1>6, IdleFactsNext DEF Cleared, Bare, Idle
<1>7. CASE \E k \in Slots : \E t :
             /\ \A j \in Slots : inflight'[j] = IF j = k THEN t ELSE NONE
             /\ t.kind \in {"decrypt", "extract", "copy"}
             /\ t.kind = "extract" => t.work # NONE
             /\ t.kind # "copy" => DecryptCiphertext \/ ExtractEnvelope
  <2>1. Calm'
    BY <1>7 DEF Calm
  <2>2. Cleared'
    BY <1>5, <1>7 DEF Cleared, Bare
  <2>3. QED
    BY <1>3, <1>4, <2>1, <2>2
<1>8. QED
  BY <1>6, <1>7, QuietWaits

\* Every step of a patient user, and of the handler waited for, preserves the invariant.
LEMMA PatientStep ==
    ASSUME PInv, [PatientNext]_vars
    PROVE  PInv'
<1>1. IInv'
  BY StepKeeps DEF PInv, PatientNext, Next
<1> SUFFICES Calm' /\ Cleared' /\ Vouched' /\ Concluded'
  BY <1>1 DEF PInv
<1>2. CASE Idle /\ User
  <2>1. CASE Quiet
    BY <1>2, <2>1, PatientQuiet
  <2>2. CASE ResetAll
    BY <1>2, <2>2, PatientReset
  <2>3. CASE \E p \in Pastes : AddPayloads(p)
    BY <1>2, <2>3, PatientAddPayloads
  <2>4. CASE \E p \in ShardPastes : AddShardPayloads(p)
    BY <1>2, <2>4, PatientAddShardPayloads
  <2>5. QED
    BY <1>2, <2>1, <2>2, <2>3, <2>4, Zenon DEF User, Quiet
<1>3. CASE \E k \in Slots : Finish(k)
  <2>1. PICK k \in Slots : Finish(k)
    BY <1>3
  <2>2. CASE FinishPayloads(k)
    BY <2>2, PatientVerified
  <2>3. CASE FinishShardPayloads(k)
    BY <2>3, PatientSharesVerified
  <2>4. CASE FinishDecrypt(k) \/ FinishExtract(k) \/ FinishCopy(k)
    <3>1. QuietFinish /\ Quiet
      BY <2>4, Zenon DEF QuietFinish, Quiet
    <3>2. QED
      BY <3>1, PatientQuiet
  <2>5. QED
    BY <2>1, <2>2, <2>3, <2>4 DEF Finish
<1>4. CASE UNCHANGED vars
  <2>1. store' = store /\ inflight' = inflight /\ crypto' = crypto
    BY <1>4 DEF vars
  <2>2. Calm' /\ Cleared' /\ SharesChecked' = SharesChecked
        /\ AuthStatusPending' = AuthStatusPending
    BY <2>1 DEF PInv, Calm, Cleared, SharesChecked, AuthStatusPending, Waiting
  <2>3. Vouched' /\ Concluded'
    BY <2>1, <2>2 DEF PInv, Vouched, Concluded
  <2>4. QED
    BY <2>2, <2>3
<1>5. QED
  BY <1>2, <1>3, <1>4 DEF PatientNext

\* A fresh kit shows nothing and has nothing to conclude.
LEMMA PatientInit == Init => PInv
<1> SUFFICES ASSUME Init PROVE PInv
  OBVIOUS
<1>1. IInv /\ Idle
  BY InitKeeps DEF Init, Idle
<1>2. /\ Bare(store) /\ DOMAIN store.shardFrames = {} /\ store.authPayload = NONE
      /\ store.shardHeader = NONE
  BY DEF Init, CreateInitialState, Empty, Bare
<1>3. AuthConcluded(store, crypto) /\ ReadyShares(store)
  BY <1>2 DEF AuthConcluded, ReadyShares, EnoughShards
<1>4. QED
  BY <1>1, <1>2, <1>3, IdleFacts DEF PInv, Cleared, Bare, Vouched, Concluded, Idle

\* The invariant of the patient user, whatever the frames and the browser.
LEMMA PatientInvariance == PatientSpec => []PInv
BY PatientInit, PatientStep, PTL DEF PatientSpec

\* For a patient user the words "State cleared." stand alone: no answer of an earlier
\* recovery is shown beside them (actions_collect.js:245-247, reducer.js:44-48).
THEOREM ClearedAlwaysShowsNothing == PatientSpec => []ClearedShowsNothing
<1>1. PInv => ClearedShowsNothing
  BY DEF PInv, Cleared, ClearedShowsNothing
<1>2. QED
  BY <1>1, PatientInvariance, PTL

\* For a patient user the order in which frames, AUTH payload and shares come does not
\* matter: once they are there and nothing waits, the backup is verified and the secret
\* recovered (actions_collect.js:49-65, 197-239).
THEOREM CollectedIsAlwaysEnough == PatientSpec => []CollectedIsEnough
<1>1. PInv => CollectedIsEnough
  BY IdleFacts DEF PInv, Concluded, CollectedIsEnough, ReadySharesRecover,
     GenuineBackupVerified, ReadyShares, AuthConcluded
<1>2. QED
  BY <1>1, PatientInvariance, PTL

\* A step that brings a secret leaves no shares unchecked behind it.
LEMMA SecretFromChecked ==
    ASSUME PInv, PatientNext,
           store'.recoveredShardSecret \notin {NONE, store.recoveredShardSecret}
    PROVE  SharesChecked' /\ crypto' = crypto
<1>1. inflight \in [Slots -> Option(Tasks)]
  BY StoreSound DEF PInv
<1>2. ASSUME Idle, NEW p \in Pastes, AddPayloads(p)
      PROVE  SharesChecked' /\ crypto' = crypto
  <2>1. inflight' = Superseded /\ crypto' = crypto
    BY <1>2, AddPayloadsEffect DEF PInv
  <2>2. QED
    BY <1>1, <1>2, <2>1, NoneStarts, IdleFactsNext
<1>3. ASSUME Idle, NEW p \in ShardPastes, AddShardPayloads(p)
      PROVE  SharesChecked' /\ crypto' = crypto
  <2>1. inflight' = Superseded /\ crypto' = crypto
    BY <1>3, AddShardPayloadsEffect DEF PInv
  <2>2. QED
    BY <1>1, <1>3, <2>1, NoneStarts, IdleFactsNext
<1>4. ASSUME NEW k \in Slots, FinishPayloads(k) \/ FinishShardPayloads(k)
      PROVE  SharesChecked' /\ crypto' = crypto
  <2>1. inflight[k] # NONE /\ inflight' = [Superseded EXCEPT ![k] = NONE] /\ crypto' = crypto
    BY <1>4 DEF FinishPayloads, FinishShardPayloads, Waiting
  <2>2. QED
    BY <1>1, <2>1, LastEnds, IdleFactsNext DEF PInv
<1>5. ~Quiet
  BY QuietSteps DEF PInv, SamePieces
<1>6. ~ResetAll
  BY DEF ResetAll, Commit, CreateInitialState
<1>7. QED
  BY <1>2, <1>3, <1>4, <1>5, <1>6, Zenon DEF PatientNext, User, Finish, Quiet

\* For a patient user in a browser that checks signatures, no share with a wrong
\* signature takes part in a reconstruction (shards.js:29-92, actions_collect.js:197-239).
THEOREM ForgedSharesNeverUsed == PatientSpec => ForgedShareNeverUsed
<1>1. ASSUME PInv, PInv', [PatientNext]_vars
      PROVE  [(/\ crypto = "works"
               /\ store'.recoveredShardSecret \notin {NONE, store.recoveredShardSecret})
              => \A i \in UsedShares(store') : store'.shardFrames[i].genuine]_vars
  <2>1. CASE UNCHANGED vars
    BY <2>1
  <2>2. CASE PatientNext
    <3>1. SUFFICES ASSUME crypto = "works",
                          store'.recoveredShardSecret \notin {NONE, store.recoveredShardSecret}
                   PROVE  \A i \in UsedShares(store') : store'.shardFrames[i].genuine
      OBVIOUS
    <3>2. SharesChecked' /\ crypto' = crypto
      BY <1>1, <2>2, <3>1, SecretFromChecked
    <3>3. \A i \in DOMAIN store'.shardFrames : store'.shardFrames[i].genuine
      BY <1>1, <3>1, <3>2 DEF PInv, Vouched
    <3>4. QED
      BY <3>3 DEF UsedShares
  <2>3. QED
    BY <1>1, <2>1, <2>2
<1>2. QED
  BY <1>1, PatientInvariance, PTL DEF PatientSpec, ForgedShareNeverUsed
=============================================================================
