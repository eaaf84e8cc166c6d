------------------------ MODULE RecoverWizard_proofs ------------------------
(***************************************************************************)
(* Proofs about RecoverWizard, for any backup, files, shards and answers,  *)
(* and about the planning of a recovery that other modules share.          *)
(***************************************************************************)
EXTENDS RecoverWizard, FiniteSetTheorems, TLAPS

-----------------------------------------------------------------------------
(* The AUTH payload. *)

\* The least of a set of test numbers is one of them.
LEMMA LeastIsOne ==
    ASSUME NEW S, S \subseteq 1..7, S # {}
    PROVE  Least(S) \in S
<1>1. \E i \in S : \A j \in S : i <= j
  <2>1. CASE 1 \in S
    BY <2>1
  <2>2. CASE 1 \notin S /\ 2 \in S
    BY <2>2
  <2>3. CASE {1, 2} \cap S = {} /\ 3 \in S
    BY <2>3
  <2>4. CASE {1, 2, 3} \cap S = {} /\ 4 \in S
    BY <2>4
  <2>5. CASE {1, 2, 3, 4} \cap S = {} /\ 5 \in S
    BY <2>5
  <2>6. CASE {1, 2, 3, 4, 5} \cap S = {} /\ 6 \in S
    BY <2>6
  <2>7. CASE {1, 2, 3, 4, 5, 6} \cap S = {}
    <3>1. PICK i \in S : TRUE
      OBVIOUS
    <3>2. \A j \in S : j = 7
      BY <2>7
    <3>3. QED
      BY <3>1, <3>2
  <2>8. QED
    BY <2>1, <2>2, <2>3, <2>4, <2>5, <2>6, <2>7
<1>2. QED
  BY <1>1, Zenon DEF Least

\* How many tests there are, and what the last ones say.
LEMMA TestsOfAuth ==
    ASSUME NEW A, NEW doc, NEW hash, NEW f, f = (CHOOSE g \in A : TRUE),
           NEW T, T = AuthTests(A, doc, hash)
    PROVE  /\ DOMAIN T = 1..(IF f.data = NONE THEN 5 ELSE 7)
           /\ T[5] = (f.data # NONE)
           /\ f.data # NONE => T[6] = (f.data.hash = hash) /\ T[7] = f.data.genuine
<1> DEFINE h == <<A # {}, Cardinality(A) = 1, f.doc = doc, SingleFrame(f), f.data # NONE>>
<1>1. CASE f.data = NONE
  <2>1. T = h \o <<>>
    BY <1>1, Zenon DEF AuthTests, h
  <2>2. QED
    BY <2>1, <1>1
<1>2. CASE f.data # NONE
  <2>1. T = h \o <<f.data.hash = hash, f.data.genuine>>
    BY <1>2, Zenon DEF AuthTests, h
  <2>2. QED
    BY <2>1, <1>2
<1>3. QED
  BY <1>1, <1>2

\* A fault is one of the seven; without one the payload is there, names this ciphertext and
\* its signature verifies.
LEMMA FaultOfAuth ==
    ASSUME NEW A, NEW doc, NEW hash
    PROVE  /\ AuthFault(A, doc, hash) \in 0..7
           /\ AuthFault(A, doc, hash) = 0 =>
                \E f \in A : f.data # NONE /\ f.data.genuine /\ f.data.hash = hash
<1> DEFINE f == CHOOSE f \in A : TRUE
           T == AuthTests(A, doc, hash)
           failing == {i \in DOMAIN T : ~T[i]}
           fault == AuthFault(A, doc, hash)
<1>1. /\ DOMAIN T = 1..(IF f.data = NONE THEN 5 ELSE 7)
      /\ T[5] = (f.data # NONE)
      /\ f.data # NONE => T[6] = (f.data.hash = hash) /\ T[7] = f.data.genuine
  <2> HIDE DEF f, T
  <2>1. f = (CHOOSE g \in A : TRUE) /\ T = AuthTests(A, doc, hash)
    BY DEF f, T
  <2>2. QED
    BY <2>1, TestsOfAuth
<1>2. \/ A = {} /\ fault = 1
      \/ A # {} /\ failing = {} /\ fault = 0
      \/ A # {} /\ failing # {} /\ fault = Least(failing)
  BY Zenon DEF AuthFault
<1>3. A # {} => f \in A
  OBVIOUS
<1> HIDE DEF T, fault, f
<1>4. failing \subseteq 1..7
  BY <1>1
<1>5. failing # {} => Least(failing) \in 1..7
  <2> HIDE DEF failing
  <2>1. QED
    BY <1>4, LeastIsOne
<1>6. A # {} /\ failing = {} => f.data # NONE /\ f.data.genuine /\ f.data.hash = hash
  <2>1. HAVE A # {} /\ failing = {}
  <2>2. \A i \in DOMAIN T : T[i]
    BY <2>1, Zenon
  <2>3. 5 \in DOMAIN T /\ (f.data # NONE => 6 \in DOMAIN T /\ 7 \in DOMAIN T)
    BY <1>1
  <2>4. f.data # NONE
    BY <1>1, <2>2, <2>3, Zenon
  <2>5. QED
    BY <1>1, <2>2, <2>3, <2>4, Zenon
<1>7. fault \in 0..7 /\ (fault = 0 => A # {} /\ failing = {})
  <2> HIDE DEF failing
  <2>1. QED
    BY <1>2, <1>5
<1>8. QED
  BY <1>3, <1>6, <1>7 DEF fault

-----------------------------------------------------------------------------
(* Planning and inspection. *)

\* Whatever the inputs: the issues that the inspection of the AUTH payload reports as
\* blocking are the errors that resolving it raises.
LEMMA AuthInspected ==
    ASSUME NEW in, in.unsigned \in BOOLEAN
    PROVE  ~InspectedAuthBlocked(in) <=> AuthResolves(in)
<1> DEFINE n == AuthFaultOf(in)
<1>1. n \in 0..7
  BY FaultOfAuth, Zenon DEF AuthFaultOf
<1>2. /\ n = 0 => ~InspectedAuthBlocked(in)
      /\ n \in {2, 4} => InspectedAuthBlocked(in)
      /\ n # 0 /\ n \notin {2, 4} => (InspectedAuthBlocked(in) <=> ~in.unsigned)
  BY DEF InspectedAuthBlocked
<1>3. AuthResolves(in) <=> n = 0 \/ (in.unsigned /\ n \in {1, 3, 5, 6, 7})
  BY Zenon DEF AuthResolves, Forgiven
<1> HIDE DEF n
<1>4. QED
  BY <1>1, <1>2, <1>3

\* The same of the keys, and of the inspection as a whole.
LEMMA InspectionIsFaithful ==
    ASSUME NEW in, in.unsigned \in BOOLEAN
    PROVE  InspectedReady(in) <=> Plannable(in)
<1>1. ~InspectedAuthBlocked(in) <=> AuthResolves(in)
  BY AuthInspected
<1>2. ~InspectionRaises(in) /\ ~UnlockBlocked(in) <=> Loads(in) /\ Unlocks(in)
  <2>1. CASE in.shards = {}
    BY <2>1, Zenon DEF InspectionRaises, UnlockBlocked, Unlocks
  <2>2. CASE in.shards # {}
    BY <2>2, Zenon DEF InspectionRaises, UnlockBlocked, Unlocks, ShardsUnlock
  <2>3. QED
    BY <2>1, <2>2
<1>3. QED
  BY <1>1, <1>2, Zenon DEF InspectedReady, Plannable

\* A plan is vouched for by what it was built from.
LEMMA PlanIsVouched ==
    ASSUME Plannable(Inputs)
    PROVE  Vouched(Plan(Inputs))
<1> DEFINE in == Inputs
           p == Plan(in)
<1>1. /\ p.ciphertext = Ciphertext(in) /\ p.pub = SignPub(in)
      /\ DocHash(in) = Hash(p.ciphertext)
  BY Zenon DEF Plan, DocHash
<1>2. /\ in.unsigned = args.unsigned
      /\ AuthResolves(in) /\ Unlocks(in)
  BY Zenon DEF Inputs, Plannable
<1>3. ~args.unsigned => \E f \in AuthFrames(in) :
        f.data # NONE /\ f.data.genuine /\ f.data.hash = DocHash(in)
  <2>1. HAVE ~args.unsigned
  <2>2. AuthFault(AuthFrames(in), DocId(in), DocHash(in)) = 0
    BY <1>2, <2>1, Zenon DEF AuthResolves, AuthFaultOf
  <2>3. QED
    BY <2>2, FaultOfAuth, Zenon
<1>4. p.pub # NONE => \A f \in in.shards :
        f.data.header.pub = p.pub /\ f.data.header.hash = DocHash(in)
  <2>1. CASE in.shards = {}
    BY <2>1
  <2>2. CASE in.shards # {}
    <3>1. ShardsFit(in.shards, DocId(in), DocHash(in), SignPub(in), in.unsigned, "passphrase")
      BY <1>2, <2>2, Zenon DEF Unlocks, ShardsUnlock, PassphraseShardsFit
    <3>2. QED
      BY <3>1, <1>1, Zenon DEF ShardsFit, ShardFrameFits
  <2>3. QED
    BY <2>1, <2>2, Zenon
<1> HIDE DEF p
<1>5. QED
  BY <1>1, <1>3, <1>4, Zenon DEF Vouched, p

-----------------------------------------------------------------------------
(* What the collectors hold. *)

\* Frames of one document and one frame count, each in a place of its own.
Pasted(F) ==
    /\ \A f \in F : ValidFrame(f) /\ f.type \in {"main", "auth"}
    /\ \A f, g \in F : f.doc = g.doc
    /\ \A f, g \in F : f.type = "main" /\ g.type = "main" => f.total = g.total
    /\ \A f, g \in F : f # g => Slot(f) # Slot(g)

\* Shards of one header, each with an index of its own.
OneSet(F) ==
    /\ IsFiniteSet(F)
    /\ \A f \in F : f.type = "key" /\ f.data # NONE /\ WellFormed(f.data)
    /\ \A f, g \in F : f.data.header = g.data.header
    /\ \A f, g \in F : f # g => f.data.index # g.data.index

\* A frame that fits leaves a pasted backup a pasted backup.
LEMMA PastedStays ==
    ASSUME NEW F, NEW f, Pasted(F), Fits(F, f), ValidFrame(f)
    PROVE  Pasted(F \cup {f})
<1>1. Pasted(F \cup {f})!1
  BY DEF Pasted, Fits
<1>2. Pasted(F \cup {f})!2
  BY DEF Pasted, Fits
<1>3. Pasted(F \cup {f})!3
  BY DEF Pasted, Fits
<1>4. Pasted(F \cup {f})!4
  <2>1. \A g, h \in F : g # h => Slot(g) # Slot(h)
    BY DEF Pasted
  <2>2. \A g \in F : Slot(g) # Slot(f)
    BY DEF Fits
  <2>3. QED
    BY <2>1, <2>2
<1>5. QED
  BY <1>1, <1>2, <1>3, <1>4, Zenon DEF Pasted

\* When the prompt has counted as many indices as there are frames, they are all there.
LEMMA CompleteIsWhole ==
    ASSUME NEW F, NEW unsigned, Pasted(F), Complete(F, unsigned)
    PROVE  /\ ~Clash(F) /\ OfType(F, "key") = {}
           /\ Reassembles(OfType(F, "main")) \/ TooLarge(Joined(OfType(F, "main")))
<1> DEFINE M == OfType(F, "main")
           I == {g.index : g \in M}
<1>1. ~Clash(F) /\ OfType(F, "key") = {}
  BY DEF Pasted, Clash, OfType
<1>2. /\ M # {} /\ \A f \in M : Cardinality(I) >= f.total
      /\ \A f \in M : f \in F /\ f.type = "main"
  BY DEF Complete, OfType
<1>3. \A f, g \in M : f.doc = g.doc /\ f.total = g.total
  BY <1>2 DEF Pasted
<1>4. \A f \in M : I = 0..(f.total - 1)
  <2>1. TAKE f \in M
  <2>2. f.total \in Nat \ {0}
    BY <1>2 DEF Pasted, ValidFrame
  <2>3. \A g \in M : g.index \in 0..(f.total - 1)
    BY <1>2, <1>3 DEF Pasted, ValidFrame
  <2>4. I \in SUBSET (0..(f.total - 1))
    BY <2>3
  <2>5. IsFiniteSet(0..(f.total - 1)) /\ Cardinality(0..(f.total - 1)) = f.total
    <3> DEFINE n == f.total - 1
    <3>1. n \in Int /\ 0 \in Int /\ ~(0 > n) /\ n - 0 + 1 = f.total
      BY <2>2
    <3> HIDE DEF n
    <3>2. IsFiniteSet(0..n) /\ Cardinality(0..n) = n - 0 + 1
      BY <3>1, FS_Interval
    <3>3. QED
      BY <3>1, <3>2 DEF n
  <2>6. Cardinality(I) >= f.total
    BY <1>2
  <2> HIDE DEF M, I
  <2>7. Cardinality(I) <= f.total /\ (Cardinality(I) = f.total => I = 0..(f.total - 1))
    BY <2>4, <2>5, FS_Subset
  <2>8. Cardinality(I) \in Nat
    BY <2>4, <2>5, FS_Subset, FS_CardinalityType
  <2>9. QED
    BY <2>2, <2>6, <2>7, <2>8
<1>5. QED
  <2> HIDE DEF M
  <2>1. TooLarge(Joined(M)) \/ Reassembles(M)
    BY <1>2, <1>3, <1>4, Zenon DEF Reassembles
  <2>2. QED
    BY <1>1, <2>1 DEF M

\* A shard that fits leaves one set one set, by one larger.
LEMMA OneSetStays ==
    ASSUME NEW F, NEW f, OneSet(F), ShardFits(F, f, "passphrase"), WellFormed(f.data)
    PROVE  /\ OneSet(F \cup {f})
           /\ Cardinality(F) \in Nat /\ Cardinality(F \cup {f}) = Cardinality(F) + 1
<1>1. /\ f.type = "key" /\ f.data # NONE
      /\ \A g \in F : g.data.header = f.data.header /\ g.data.index # f.data.index
  BY Zenon DEF ShardFits
<1>2. f \notin F
  BY <1>1
<1>3. /\ IsFiniteSet(F \cup {f}) /\ Cardinality(F) \in Nat
      /\ Cardinality(F \cup {f}) = Cardinality(F) + 1
  BY <1>2, FS_AddElement, FS_CardinalityType DEF OneSet
<1>4. OneSet(F \cup {f})
  BY <1>1, <1>3 DEF OneSet
<1>5. QED
  BY <1>3, <1>4

\* The payloads of one set are as many as its frames.
LEMMA OnePayloadEach ==
    ASSUME NEW F, OneSet(F)
    PROVE  IsFiniteSet(Payloads(F)) /\ Cardinality(Payloads(F)) = Cardinality(F)
<1> DEFINE d == [f \in F |-> f.data]
<1>1. d \in Bijection(F, Payloads(F))
  BY DEF OneSet, Payloads, Bijection, Injection, Surjection, IsInjective
<1> HIDE DEF d
<1>2. QED
  BY <1>1, FS_Bijection DEF OneSet, ExistsBijection

\* The prompt stops with the first shard that makes the set a quorum, so there is none to
\* spare, and none that could contradict the others.
LEMMA QuorumIsOneSet ==
    ASSUME NEW F, OneSet(F), F # {}, AtQuorum(F),
           \A f \in F : Cardinality(F) <= f.data.header.threshold
    PROVE  Distinct(Payloads(F)) /\ Consistent(Payloads(F), FALSE) /\ Quorate(F)
<1> DEFINE P == Payloads(F)
           t == HeaderOf(P).threshold
<1>1. P # {} /\ \A p \in P : \E f \in F : p = f.data
  BY DEF Payloads
<1>2. Distinct(P) /\ \A p, q \in P : p.header = q.header
  <2>1. ASSUME NEW p \in P, NEW q \in P
        PROVE  p.header = q.header /\ (p.index = q.index => p = q)
    <3>1. PICK f \in F, g \in F : p = f.data /\ q = g.data
      BY <1>1
    <3>2. QED
      BY <3>1 DEF OneSet
  <2>2. QED
    BY <2>1 DEF Distinct
<1>3. PICK f \in F : t = f.data.header.threshold
  BY <1>1, Zenon DEF HeaderOf
<1>4. Cardinality(F) \in Nat /\ Cardinality(P) = Cardinality(F)
  BY OnePayloadEach, FS_CardinalityType DEF OneSet
<1>5. t \in Nat
  BY <1>3, ShardConstants DEF OneSet, WellFormed
<1>6. Cardinality(F) >= t /\ Cardinality(F) <= t
  BY <1>3 DEF AtQuorum
<1> HIDE DEF P
<1>7. Cardinality(P) >= t /\ ~(Cardinality(P) > t)
  BY <1>4, <1>5, <1>6
<1>8. Consistent(P, FALSE)
  BY <1>1, <1>2, <1>7, Zenon DEF Consistent
<1>9. QED
  BY <1>2, <1>7, <1>8, Zenon DEF Quorate, P
-----------------------------------------------------------------------------
(* The invariant. *)

Backup == Joined(OfType(frames, "main"))

\* What the collectors hold stays in order until they are done with it; from then on the
\* frames stay, and with them the ciphertext of every plan.
WInv ==
    /\ stage \in Stages /\ args.unsigned \in BOOLEAN
    /\ stage = "input" => frames = {}
    /\ stage = "paste" => Pasted(frames)
    /\ stage \in {"input", "paste", "keys"} => shards = {}
    /\ stage = "shards" => /\ OneSet(shards)
                           /\ \A f \in shards : Cardinality(shards) < f.data.header.threshold
    /\ CollectedShardsAreOneSet
    /\ stage = "agree" => plan.ciphertext = Backup
    /\ stage \in {"output", "agree_to_write", "written"} =>
         output = Backup /\ reviewed.ciphertext = Backup /\ Key(Backup) = reviewed.passphrase
    /\ stage \in {"agree_to_write", "written"} => plan.ciphertext = Backup

\* The wizard starts with empty hands.
LEMMA WInvInit == Init => WInv
  BY DEF Init, WInv, Stages, CollectedShardsAreOneSet

\* Collecting the backup: the parts of the invariant that speak of shards and of plans rest.
LEMMA WInvBackup ==
    ASSUME WInv, ReadBackup \/ StartPaste \/ \E f \in PastedFrames : PasteFrame(f)
    PROVE  WInv'
<1>1. CASE ReadBackup
  BY <1>1 DEF WInv, ReadBackup, Stages, CollectedShardsAreOneSet
<1>2. CASE StartPaste
  <2>1. Pasted({})
    BY DEF Pasted
  <2>2. QED
    BY <1>2, <2>1 DEF WInv, StartPaste, Stages, CollectedShardsAreOneSet
<1>3. ASSUME NEW f \in PastedFrames, PasteFrame(f)
      PROVE  WInv'
  <2>1. ValidFrame(f)
    BY FramesAssumption
  <2>2. stage = "paste" /\ Pasted(frames) /\ Fits(frames, f) /\ frames' = frames \cup {f}
    BY <1>3, Zenon DEF WInv, PasteFrame
  <2>3. Pasted(frames')
    BY <2>1, <2>2, PastedStays, Zenon
  <2>4. stage' \in {"keys", "paste"} /\ UNCHANGED <<args, shards>>
    BY <1>3 DEF PasteFrame
  <2>5. QED
    BY <2>2, <2>3, <2>4 DEF WInv, Stages, CollectedShardsAreOneSet
<1>4. QED
  BY <1>1, <1>2, <1>3

\* Collecting the keys.
LEMMA WInvKeys ==
    ASSUME WInv, \/ KeysOnCommandLine \/ TypePassphrase \/ StartShards
                 \/ \E f \in ShardFrames : OfferShard(f)
    PROVE  WInv'
<1>1. CASE KeysOnCommandLine
  BY <1>1 DEF WInv, KeysOnCommandLine, Stages, CollectedShardsAreOneSet
<1>2. CASE TypePassphrase
  BY <1>2 DEF WInv, TypePassphrase, Stages, CollectedShardsAreOneSet
<1>3. CASE StartShards
  <2>1. OneSet({})
    BY FS_EmptySet DEF OneSet
  <2>2. QED
    BY <1>3, <2>1 DEF WInv, StartShards, Stages, CollectedShardsAreOneSet
<1>4. ASSUME NEW f \in ShardFrames, OfferShard(f)
      PROVE  WInv'
  <2>1. /\ stage = "shards" /\ OneSet(shards) /\ ShardFits(shards, f, "passphrase")
        /\ \A g \in shards : Cardinality(shards) < g.data.header.threshold
        /\ shards' = shards \cup {f} /\ UNCHANGED args
        /\ stage' = IF AtQuorum(shards') THEN "review" ELSE "shards"
    BY <1>4, Zenon DEF WInv, OfferShard
  <2>2. WellFormed(f.data)
    BY <2>1, FramesAssumption, Zenon DEF ShardFits
  <2>3. OneSet(shards') /\ Cardinality(shards) \in Nat
        /\ Cardinality(shards') = Cardinality(shards) + 1
    BY <2>1, <2>2, OneSetStays, Zenon
  <2>4. \A g \in shards' : /\ g.data.header = f.data.header
                           /\ g.data.header.threshold \in Nat \ {0}
    BY <2>1, <2>2, <2>3, ShardConstants DEF OneSet, WellFormed, ShardFits
  <2>5. \A g \in shards' : Cardinality(shards') <= g.data.header.threshold
    <3>1. CASE shards = {}
      <4>1. Cardinality(shards') = 1
        BY <2>3, <3>1, FS_EmptySet
      <4>2. QED
        BY <4>1, <2>4
    <3>2. CASE shards # {}
      <4>1. PICK g \in shards : TRUE
        BY <3>2
      <4>2. Cardinality(shards) < f.data.header.threshold /\ f \in shards'
        BY <2>1, <2>4, <4>1
      <4>3. QED
        BY <2>3, <2>4, <4>2
    <3>3. QED
      BY <3>1, <3>2
  <2>6. CASE AtQuorum(shards')
    <3>1. CollectedShardsAreOneSet'
      BY <2>1, <2>3, <2>5, <2>6, QuorumIsOneSet DEF CollectedShardsAreOneSet
    <3>2. QED
      BY <2>1, <2>6, <3>1 DEF WInv, Stages
  <2>7. CASE ~AtQuorum(shards')
    <3>1. \A g \in shards' : Cardinality(shards') < g.data.header.threshold
        <4>1. shards' # {}
        BY <2>1
      <4>2. PICK g \in shards' : ~(Cardinality(shards') >= g.data.header.threshold)
        BY <2>7, <4>1, Zenon DEF AtQuorum
      <4>3. QED
        BY <2>3, <2>4, <4>2
    <3>2. QED
      BY <2>1, <2>3, <2>7, <3>1 DEF WInv, Stages, CollectedShardsAreOneSet
  <2>8. QED
    BY <2>6, <2>7
<1>5. QED
  BY <1>1, <1>2, <1>3, <1>4

\* A plan that is built is of the backup that was collected.
LEMMA PlanOfBackup ==
    ASSUME NEW next, BuildPlan(next)
    PROVE  /\ UNCHANGED <<args, frames, shards, output, reviewed>>
           /\ \/ stage' = next /\ plan' = Plan(Inputs) /\ Plannable(Inputs)
                 /\ plan'.ciphertext = Backup
              \/ stage' = "failed" /\ plan' = plan
<1>1. Plan(Inputs).ciphertext = Backup
  BY Zenon DEF Plan, Ciphertext, Inputs, Backup
<1>2. QED
  BY <1>1, Zenon DEF BuildPlan

\* Review, decryption and output.
LEMMA WInvOutput ==
    ASSUME WInv, Review \/ Agree \/ Rebuild \/ AgreeToWrite
    PROVE  WInv'
<1>1. CASE Review
  <2>1. stage = "review" /\ BuildPlan("agree")
    BY <1>1 DEF Review
  <2>2. /\ UNCHANGED <<args, frames, shards, output, reviewed>>
        /\ stage' = "failed" \/ (stage' = "agree" /\ plan'.ciphertext = Backup)
    BY <2>1, PlanOfBackup, Zenon
  <2>3. Backup' = Backup
    BY <2>2, Zenon DEF Backup
  <2>4. QED
    BY <2>1, <2>2, <2>3 DEF WInv, Stages, CollectedShardsAreOneSet
<1>2. CASE Agree
  <2>1. Backup' = Backup
    BY <1>2, Zenon DEF Backup, Agree
  <2>2. QED
    BY <1>2, <2>1 DEF Agree, WInv, Stages, CollectedShardsAreOneSet
<1>3. CASE Rebuild
  <2>1. stage = "output" /\ BuildPlan("agree_to_write")
    BY <1>3 DEF Rebuild
  <2>2. /\ UNCHANGED <<args, frames, shards, output, reviewed>>
        /\ stage' = "failed" \/ (stage' = "agree_to_write" /\ plan'.ciphertext = Backup)
    BY <2>1, PlanOfBackup, Zenon
  <2>3. Backup' = Backup
    BY <2>2, Zenon DEF Backup
  <2>4. QED
    BY <2>1, <2>2, <2>3 DEF WInv, Stages, CollectedShardsAreOneSet
<1>4. CASE AgreeToWrite
  <2>1. Backup' = Backup
    BY <1>4, Zenon DEF Backup, AgreeToWrite
  <2>2. QED
    BY <1>4, <2>1 DEF AgreeToWrite, WInv, Stages, CollectedShardsAreOneSet
<1>5. QED
  BY <1>1, <1>2, <1>3, <1>4

\* Every step of the wizard keeps the invariant.
LEMMA WInvNext ==
    ASSUME WInv, [Next]_vars
    PROVE  WInv'
<1>1. CASE Cancel
  BY <1>1 DEF Cancel, WInv, Stages, CollectedShardsAreOneSet
<1>2. CASE EditFiles
  <2>1. UNCHANGED <<args, stage, frames, shards, passphrase, plan, reviewed, output>>
    BY <1>2, Zenon DEF EditFiles
  <2>2. UNCHANGED <<Backup, CollectedShardsAreOneSet>>
    BY <2>1 DEF Backup, CollectedShardsAreOneSet
  <2>3. QED
    BY <2>1, <2>2 DEF WInv
<1>3. CASE Stopped \/ UNCHANGED vars
  <2>1. UNCHANGED <<args, stage, frames, shards, passphrase, plan, reviewed, output>>
    BY <1>3, Zenon DEF Stopped, vars
  <2>2. UNCHANGED <<Backup, CollectedShardsAreOneSet>>
    BY <2>1 DEF Backup, CollectedShardsAreOneSet
  <2>3. QED
    BY <2>1, <2>2 DEF WInv
<1>4. QED
  BY <1>1, <1>2, <1>3, WInvBackup, WInvKeys, WInvOutput DEF Next

\* The invariant holds throughout.
THEOREM WizardInvariant == Spec => []WInv
<1>1. WInv /\ [Next]_vars => WInv'
  BY WInvNext
<1>2. QED
  BY <1>1, WInvInit, PTL DEF Spec

-----------------------------------------------------------------------------
(* The results. *)

\* The shards that the prompt collected are a quorum of one set, with indices of their own:
\* recovery never refuses them for being mixed.
THEOREM CollectedShardsAreAlwaysOneSet == Spec => []CollectedShardsAreOneSet
<1>1. WInv => CollectedShardsAreOneSet
  BY DEF WInv
<1>2. QED
  BY <1>1, WizardInvariant, PTL

\* Inspection and recovery agree on every input, whatever backup, files, shards and keys.
THEOREM InspectionAlwaysAgrees == Spec => []InspectionAgrees
<1>1. WInv => InspectionAgrees
  <2>1. ASSUME WInv
        PROVE  Inputs.unsigned \in BOOLEAN
    BY <2>1 DEF WInv, Inputs
  <2>2. ASSUME WInv
        PROVE  InspectedReady(Inputs) <=> Plannable(Inputs)
    BY <2>1, <2>2, InspectionIsFaithful
  <2>3. QED
    BY <2>2 DEF InspectionAgrees
<1>2. QED
  BY <1>1, WizardInvariant, PTL

\* Whatever order the frames are pasted in, and whatever else is pasted with them, pasting
\* ends with one whole backup.
THEOREM PastedBackupIsAlwaysWhole == Spec => PastedBackupIsWhole
<1> DEFINE Whole == PastingEnds =>
             /\ ~Clash(frames') /\ OfType(frames', "key") = {}
             /\ LET M == OfType(frames', "main")
                IN Reassembles(M) \/ TooLarge(Joined(M))
<1>1. WInv /\ [Next]_vars => Whole
  <2>1. SUFFICES ASSUME WInv, [Next]_vars, PastingEnds
                 PROVE  /\ ~Clash(frames') /\ OfType(frames', "key") = {}
                        /\ \/ Reassembles(OfType(frames', "main"))
                           \/ TooLarge(Joined(OfType(frames', "main")))
    BY Zenon
  <2>2. stage = "paste" /\ stage' = "keys"
    BY <2>1 DEF PastingEnds
  <2>3. PICK f \in PastedFrames : PasteFrame(f)
    BY <2>1, <2>2 DEF Next, vars, ReadBackup, StartPaste, KeysOnCommandLine, TypePassphrase,
       StartShards, OfferShard, Review, Agree, Rebuild, AgreeToWrite, Cancel, EditFiles, Stopped
  <2>4. Pasted(frames) /\ Fits(frames, f) /\ frames' = frames \cup {f}
    BY <2>1, <2>3, Zenon DEF WInv, PasteFrame
  <2>5. Complete(frames', args.unsigned)
    BY <2>2, <2>3 DEF PasteFrame
  <2>6. Pasted(frames')
    <3>1. ValidFrame(f)
      BY FramesAssumption
    <3>2. QED
      BY <3>1, <2>4, PastedStays, Zenon
  <2>7. QED
    BY <2>5, <2>6, CompleteIsWhole, Zenon
<1>2. QED
  BY <1>1, WizardInvariant, PTL DEF Spec, PastedBackupIsWhole

\* What is written was reviewed, was vouched for when it was planned, and opens with the
\* passphrase of the plan that was reviewed, however the files change in between.
THEOREM OnlyVouchedIsEverWritten == Spec => OnlyVouchedIsWritten
<1>1. WInv => WrittenIsReviewed
  BY DEF WInv, WrittenIsReviewed
<1>2. [Next]_vars /\ plan' # plan => Vouched(plan')
  <2>1. SUFFICES ASSUME [Next]_vars, plan' # plan
                 PROVE  Vouched(plan')
    OBVIOUS
  <2>2. Review \/ Rebuild
    BY <2>1 DEF Next, vars, ReadBackup, StartPaste, PasteFrame, KeysOnCommandLine,
       TypePassphrase, StartShards, OfferShard, Agree, AgreeToWrite, Cancel, EditFiles, Stopped
  <2>3. plan' = Plan(Inputs) /\ Plannable(Inputs)
    BY <2>1, <2>2, PlanOfBackup DEF Review, Rebuild
  <2>4. QED
    BY <2>3, PlanIsVouched
<1>3. WInv /\ [Next]_vars => WrittenIsReviewed' /\ (plan' # plan => Vouched(plan'))
  <2>1. WInv' => WrittenIsReviewed'
    BY <1>1, PTL
  <2>2. QED
    BY <2>1, <1>2, WInvNext
<1>4. QED
  BY <1>3, WizardInvariant, PTL DEF Spec, OnlyVouchedIsWritten
=============================================================================
