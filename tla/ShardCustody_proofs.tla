------------------------- MODULE ShardCustody_proofs -------------------------
(***************************************************************************)
(* Proofs about ShardCustody, for any field, any limits and any number of  *)
(* mintings.                                                               *)
(***************************************************************************)
EXTENDS ShardCustody, FiniteSetTheorems, TLAPS

-----------------------------------------------------------------------------
(* Collections of shards. *)

\* Well-formed payloads of one header, no two under one index.
Set(P) ==
    /\ \A p \in P : WellFormed(p)
    /\ \A p, q \in P : p.header = q.header
    /\ Distinct(P)

\* Indices tell the payloads of a set apart, so there are at most MAX_SHARES of them.
LEMMA SetIsFinite ==
    ASSUME NEW P, Set(P)
    PROVE  /\ IsFiniteSet(P) /\ Cardinality(P) \in Nat
           /\ \A p \in P : p.index \in 1..MAX_SHARES /\ p.share \in Values
<1>1. \A p \in P : p.index \in 1..MAX_SHARES /\ p.share \in Values
  BY ShardConstants DEF Set, WellFormed
<1> DEFINE f == [p \in P |-> p.index]
<1>2. f \in Injection(P, 1..MAX_SHARES)
  BY <1>1 DEF Set, Distinct, Injection, IsInjective
<1>3. IsFiniteSet(1..MAX_SHARES)
  BY FS_Interval, ShardConstants
<1> HIDE DEF f
<1>4. IsFiniteSet(P)
  BY <1>2, <1>3, FS_Injection
<1>5. QED
  BY <1>1, <1>4, FS_CardinalityType

\* validate_shard_set_consistency sorts by index and takes as many as it needs: it gets them.
LEMMA LowestCount ==
    ASSUME NEW P, Set(P), NEW n \in 0..Cardinality(P)
    PROVE  Cardinality(Lowest(P, n)) = n
<1> DEFINE Below(p) == {q \in P : q.index <= p.index}
           N == Cardinality(P)
           r == [p \in P |-> Cardinality(Below(p))]
           L == Lowest(P, n)
           g == [p \in L |-> r[p]]
<1>1. IsFiniteSet(P) /\ N \in Nat /\ \A p \in P : p.index \in Nat
  BY SetIsFinite
<1>2. ASSUME NEW p \in P
      PROVE  IsFiniteSet(Below(p)) /\ Cardinality(Below(p)) \in 1..N
  <2>1. Below(p) \in SUBSET P /\ Below(p) # {}
    BY <1>1
  <2>2. IsFiniteSet(Below(p)) /\ Cardinality(Below(p)) <= N
    BY <2>1, <1>1, FS_Subset
  <2>3. Cardinality(Below(p)) \in Nat /\ Cardinality(Below(p)) # 0
    BY <2>1, <2>2, FS_CardinalityType, FS_EmptySet
  <2>4. QED
    BY <2>2, <2>3, <1>1
<1>3. ASSUME NEW p \in P, NEW q \in P, p.index < q.index
      PROVE  Cardinality(Below(p)) < Cardinality(Below(q))
  <2>1. Below(p) \in SUBSET Below(q) /\ q \in Below(q) /\ q \notin Below(p)
    BY <1>3, <1>1
  <2>2. Cardinality(Below(p)) <= Cardinality(Below(q))
        /\ Cardinality(Below(p)) # Cardinality(Below(q))
    BY <2>1, <1>2, FS_Subset
  <2>3. Cardinality(Below(p)) \in Nat /\ Cardinality(Below(q)) \in Nat
    BY <1>2, <1>1
  <2> HIDE DEF Below
  <2>4. QED
    BY <2>2, <2>3
<1> HIDE DEF Below
<1>4. r \in [P -> 1..N]
  BY <1>2
<1>5. \A p, q \in P : r[p] = r[q] => p = q
  <2>1. SUFFICES ASSUME NEW p \in P, NEW q \in P, p # q
                 PROVE  r[p] # r[q]
    OBVIOUS
  <2>2. p.index < q.index \/ q.index < p.index
    BY <2>1, <1>1 DEF Set, Distinct
  <2>3. Cardinality(Below(p)) \in Nat /\ Cardinality(Below(q)) \in Nat
    BY <1>2, <1>1
  <2>4. Cardinality(Below(p)) < Cardinality(Below(q)) \/ Cardinality(Below(q)) < Cardinality(Below(p))
    BY <2>2, <1>3
  <2>5. QED
    BY <2>3, <2>4
<1>6. r \in Surjection(P, 1..N)
  <2>1. r \in Injection(P, 1..N)
    BY <1>4, <1>5 DEF Injection, IsInjective
  <2>2. IsFiniteSet(1..N) /\ Cardinality(1..N) = N
    BY <1>1, FS_Interval
  <2> HIDE DEF r
  <2>3. QED
    BY <2>1, <2>2, FS_Injection
<1>7. L = {p \in P : r[p] <= n}
  BY DEF Lowest, Below
<1>8. g \in Bijection(L, 1..n)
  <2>1. \A p \in L : p \in P /\ g[p] = r[p] /\ r[p] \in 1..n
    BY <1>7, <1>4, <1>1
  <2>2. g \in [L -> 1..n]
    BY <2>1
  <2>3. \A p, q \in L : g[p] = g[q] => p = q
    BY <2>1, <1>5
  <2>4. \A k \in 1..n : \E p \in L : g[p] = k
    <3>1. SUFFICES ASSUME NEW k \in 1..n PROVE \E p \in L : g[p] = k
      OBVIOUS
    <3>2. k \in 1..N
      BY <1>1
    <3>3. PICK p \in P : r[p] = k
      BY <3>2, <1>6 DEF Surjection
    <3>4. p \in L
      BY <3>3, <1>7
    <3>5. QED
      BY <3>3, <3>4
  <2>5. QED
    BY <2>2, <2>3, <2>4 DEF Bijection, Injection, IsInjective, Surjection
<1> HIDE DEF g
<1>9. IsFiniteSet(L)
  BY <1>1, <1>7, FS_Subset
<1>10. Cardinality(L) = Cardinality(1..n)
  BY <1>8, <1>9, FS_Bijection DEF ExistsBijection
<1>11. QED
  BY <1>10, FS_Interval, <1>1

\* The points that are interpolated: as many as the threshold, with the shares they are from.
LEMMA SourceShape ==
    ASSUME NEW P, Set(P), P # {}, Cardinality(P) >= HeaderOf(P).threshold
    PROVE  \E Q \in SUBSET (1..MAX_SHARES) :
             /\ Cardinality(Q) = HeaderOf(P).threshold
             /\ Source(P) \in [Q -> Values]
             /\ \A i \in Q : \E p \in P : p.index = i /\ Source(P)[i] = p.share
<1> DEFINE t == HeaderOf(P).threshold
           L == Lowest(P, t)
           Q == {p.index : p \in L}
           f == [p \in L |-> p.index]
<1>1. IsFiniteSet(P) /\ Cardinality(P) \in Nat
      /\ \A p \in P : p.index \in 1..MAX_SHARES /\ p.share \in Values
  BY SetIsFinite
<1>2. t \in 1..MAX_SHARES /\ t \in 0..Cardinality(P)
  <2>1. PICK p \in P : HeaderOf(P) = p.header
    BY DEF HeaderOf
  <2>2. p.header.threshold \in 1..MAX_SHARES
    BY <2>1, ShardConstants DEF Set, WellFormed
  <2>3. QED
    BY <2>1, <2>2, <1>1
<1>3. L \in SUBSET P /\ Cardinality(L) = t
  BY <1>2, LowestCount DEF Lowest
<1>4. IsFiniteSet(L)
  BY <1>1, <1>3, FS_Subset
<1>5. \A p, q \in L : p.index = q.index => p = q
  BY <1>3 DEF Set, Distinct
<1>6. f \in Bijection(L, Q)
  BY <1>5 DEF Bijection, Injection, IsInjective, Surjection
<1> HIDE DEF f
<1>7. Cardinality(Q) = t
  BY <1>3, <1>4, <1>6, FS_Bijection DEF ExistsBijection
<1>8. Source(P) = [i \in Q |-> (CHOOSE p \in L : p.index = i).share]
  BY DEF Source, Points
<1>9. ASSUME NEW i \in Q
      PROVE  \E p \in P : p.index = i /\ Source(P)[i] = p.share
  <2>1. \E p \in L : p.index = i
    OBVIOUS
  <2>2. (CHOOSE p \in L : p.index = i) \in L /\ (CHOOSE p \in L : p.index = i).index = i
    BY <2>1
  <2>3. Source(P)[i] = (CHOOSE p \in L : p.index = i).share
    BY <1>8
  <2> HIDE DEF L, Q
  <2>4. QED
    BY <2>2, <2>3, <1>3
<1>10. Q \in SUBSET (1..MAX_SHARES)
  BY <1>1, <1>3
<1>11. Source(P) \in [Q -> Values]
  <2>1. \A i \in Q : Source(P)[i] \in Values
    BY <1>9, <1>1
  <2>2. QED
    BY <2>1, <1>8
<1> HIDE DEF Q
<1>12. QED
  BY <1>7, <1>9, <1>10, <1>11

\* What is interpolated at any index, or at 0, is a share or a secret like any other.
LEMMA InterpolatedType ==
    ASSUME NEW P, Set(P), P # {}, Cardinality(P) >= HeaderOf(P).threshold,
           NEW x \in 0..MAX_SHARES
    PROVE  Interpolate(Source(P), x) \in Values
BY SourceShape, ShardConstants

\* A quorum of one splitting, any quorum, gives its secret and all its other shares.
LEMMA OneSplitting ==
    ASSUME NEW P, Set(P), P # {}, Cardinality(P) >= HeaderOf(P).threshold,
           NEW d \in Draws, NEW s \in Values,
           \A p \in P : p.share = ShareAt(d, s, HeaderOf(P).threshold, p.index)
    PROVE  /\ Secret(P) = s
           /\ \A i \in 1..MAX_SHARES :
                Interpolate(Source(P), i) = ShareAt(d, s, HeaderOf(P).threshold, i)
<1> DEFINE t == HeaderOf(P).threshold
<1>1. PICK Q \in SUBSET (1..MAX_SHARES) :
        /\ Cardinality(Q) = t
        /\ Source(P) \in [Q -> Values]
        /\ \A i \in Q : \E p \in P : p.index = i /\ Source(P)[i] = p.share
  BY SourceShape
<1>2. Source(P) = [i \in Q |-> ShareAt(d, s, t, i)]
  BY <1>1
<1>3. t \in 1..MAX_SHARES
  <2>1. PICK p \in P : HeaderOf(P) = p.header
    BY DEF HeaderOf
  <2>2. QED
    BY <2>1, ShardConstants DEF Set, WellFormed
<1> HIDE DEF t
<1>4. \A x \in 0..MAX_SHARES :
        Interpolate([i \in Q |-> ShareAt(d, s, t, i)], x) = IF x = 0 THEN s ELSE ShareAt(d, s, t, x)
  BY <1>1, <1>3, LagrangeExact
<1>5. 0 \in 0..MAX_SHARES /\ \A i \in 1..MAX_SHARES : i \in 0..MAX_SHARES /\ i # 0
  BY ShardConstants
<1>6. QED
  BY <1>2, <1>4, <1>5 DEF Secret, t

-----------------------------------------------------------------------------
(* The inductive invariant. *)

\* Every document that names this backup's key and a set is one that splitting made.
PapersFaithful == \A f \in papers : Own(f) => Faithful(f, drawn)

IInv == TypeOK /\ PapersFaithful

\* The secrets of the backup are values of the field.
LEMMA SecretTypes ==
    \A type \in KeyTypes : SecretOf(type) \in Values
BY BackupAssumption, TextAssumption DEF SecretOf, KeyTypes

\* Shard documents that fit are a set of this backup.
LEMMA FitIsSet ==
    ASSUME TypeOK, NEW type \in KeyTypes, NEW F \in Handed(type), Fit(F, type)
    PROVE  /\ Set(Payloads(F)) /\ Payloads(F) # {}
           /\ HeaderOf(Payloads(F)).pub = ThePub
           /\ HeaderOf(Payloads(F)).hash = TheHash
           /\ HeaderOf(Payloads(F)).type = type
           /\ \A p \in Payloads(F) : p.header = HeaderOf(Payloads(F))
<1> DEFINE P == Payloads(F)
<1>1. F # {} /\ \A f \in F : f \in papers /\ f.data \in P
  BY DEF Fit, ShardsFit, Handed, Payloads
<1>2. \A p \in P : \E f \in F : p = f.data
  BY DEF Payloads
<1>3. \A p \in P : WellFormed(p)
  BY <1>1, <1>2 DEF TypeOK
<1>4. Distinct(P) /\ \A p, q \in P : p.header = q.header
  BY DEF Fit, ShardsFit, Consistent
<1>5. Set(P) /\ P # {}
  BY <1>1, <1>3, <1>4 DEF Set
<1>6. \A p \in P : p.header.pub = ThePub /\ p.header.hash = TheHash /\ p.header.type = type
  BY <1>2, BackupAssumption DEF Fit, ShardsFit, ShardFrameFits
<1>7. \A p \in P : p.header = HeaderOf(P)
  BY <1>4 DEF HeaderOf
<1>8. QED
  BY <1>5, <1>6, <1>7

\* A quorum of fitting documents that name their set is one splitting of the true secret.
LEMMA FitIsOneSplitting ==
    ASSUME IInv, NEW type \in KeyTypes, NEW F \in Handed(type), Fit(F, type),
           HeaderOf(Payloads(F)).version = SHARD_VERSION
    PROVE  /\ HeaderOf(Payloads(F)) \in Headers
           /\ HeaderOf(Payloads(F)).set \in Draws
           /\ HeaderOf(Payloads(F)).set \in drawn
           /\ \A p \in Payloads(F) :
                p.share = ShareAt(HeaderOf(Payloads(F)).set, SecretOf(type),
                                  HeaderOf(Payloads(F)).threshold, p.index)
<1> DEFINE P == Payloads(F)
           h == HeaderOf(P)
<1>1. P # {} /\ h.pub = ThePub /\ h.type = type /\ \A p \in P : p.header = h
  BY FitIsSet DEF IInv
<1>2. ASSUME NEW p \in P
      PROVE  /\ h \in Headers /\ h.set \in drawn
             /\ p.share = ShareAt(h.set, SecretOf(type), h.threshold, p.index)
  <2>1. PICK f \in F : p = f.data
    BY DEF Payloads
  <2>2. f \in papers /\ Own(f)
    BY <2>1, <1>1 DEF Handed, Own
  <2>3. h \in Headers /\ h.set \in drawn /\ f = AsIssued(h, p.index)
    BY <2>1, <2>2, <1>1 DEF IInv, PapersFaithful, Faithful
  <2>4. p.share = ShareAt(h.set, SecretOf(h.type), h.threshold, p.index)
    BY <2>1, <2>3 DEF AsIssued, PaperOf
  <2>5. QED
    BY <2>3, <2>4, <1>1
<1>3. QED
  BY <1>1, <1>2 DEF IInv, TypeOK

\* Whoever holds the authority to mint holds the seed that signed the backup.
LEMMA AuthorityIsSeed ==
    ASSUME TypeOK, NEW S \in Handed("signing-seed"), HasAuthority(S), Matches(Authority(S))
    PROVE  Authority(S) = Seed
<1>1. CASE ~sealed
  BY <1>1 DEF Authority
<1>2. CASE sealed
  <2>1. Fit(S, "signing-seed") /\ Quorate(S)
    BY <1>2 DEF HasAuthority
  <2>2. Set(Payloads(S)) /\ Payloads(S) # {}
    BY <2>1, FitIsSet DEF KeyTypes
  <2>3. Secret(Payloads(S)) \in Values
    BY <2>1, <2>2, InterpolatedType, ShardConstants DEF Quorate, Secret
  <2>4. QED
    BY <1>2, <2>3, BackupAssumption DEF Authority, Matches
<1>3. QED
  BY <1>1, <1>2 DEF TypeOK

\* What a request makes: documents of this backup, signed by its key, and of a new draw or of
\* the splitting they replace a share of.
LEMMA MadeIsFaithful ==
    ASSUME IInv, NEW type \in KeyTypes, NEW F \in Handed(type), NEW out \in Outputs,
           Makeable(out, F, type, Seed), NEW draw \in Draws,
           NEW p \in Made(out, F, type, Seed, draw)
    PROVE  /\ WellFormed(p) /\ Signed(p)
           /\ p.header.pub = ThePub /\ p.header.hash = TheHash
           /\ Own(PaperOf(p)) => Faithful(PaperOf(p), drawn \cup {draw})
<1>1. CASE out = Off
  <2>1. out.kind = "off"
    BY <1>1 DEF Off
  <2>2. QED
    BY <2>1 DEF Made
<1>2. CASE out \in [kind : {"new_set"}, quorum : Quorums]
  <2> DEFINE t == out.quorum[1]
             n == out.quorum[2]
             h == [version |-> SHARD_VERSION, type |-> type, threshold |-> t, count |-> n,
                   set |-> draw, hash |-> TheHash, pub |-> PublicKey(Seed)]
  <2>1. t \in Nat /\ n \in Nat /\ CanSplit(t, n)
    <3>1. out.kind = "new_set" /\ out.quorum \in Nat \X Nat
      BY <1>2, ArgsAssumption
    <3>2. QED
      BY <3>1 DEF Makeable
  <2>2. PICK i \in 1..n : p = [header |-> h, index |-> i, key |-> Seed,
                               share |-> ShareAt(draw, SecretOf(type), t, i)]
    <3>1. out.kind = "new_set"
      BY <1>2
    <3>2. QED
      BY <3>1 DEF Made, Split
  <2>3. n \in 1..MAX_SHARES /\ t \in 1..n /\ t \in 1..MAX_SHARES /\ i \in 1..MAX_SHARES
    BY <2>1, ShardConstants DEF CanSplit
  <2>4. ShareAt(draw, SecretOf(type), t, i) \in Values /\ draw # NONE
    BY <2>3, SecretTypes, ShardConstants
  <2>5. WellFormed(p)
    BY <2>2, <2>3, <2>4 DEF WellFormed, SHARD_VERSION, LEGACY_SHARD_VERSION
  <2>6. Signed(p) /\ p.header.pub = ThePub /\ p.header.hash = TheHash
    BY <2>2, BackupAssumption DEF Signed
  <2>7. /\ PaperOf(p) = AsIssued(p.header, p.index)
        /\ p.header.set = draw /\ p.header \in Headers
    BY <2>2, <2>3, BackupAssumption DEF AsIssued, Headers
  <2>8. PaperOf(p).data = p
    BY DEF PaperOf
  <2>9. QED
    BY <2>5, <2>6, <2>7, <2>8 DEF Faithful
<1>3. CASE out \in [kind : {"replacements"}, n : Counts]
  <2> DEFINE P == Payloads(F)
             h == HeaderOf(P)
  <2>1. Fit(F, type) /\ CanReplace(P, out.n, Seed)
    <3>1. out.kind = "replacements"
      BY <1>3
    <3>2. QED
      BY <3>1 DEF Makeable, Replaceable
  <2>2. /\ Set(P) /\ P # {} /\ Cardinality(P) >= h.threshold
        /\ h.pub = ThePub /\ h.hash = TheHash /\ h.type = type
        /\ \A q \in P : q.header = h
    BY <2>1, FitIsSet DEF IInv, CanReplace
  <2>3. PICK i \in MissingIndices(P) :
          p = [header |-> h, index |-> i, key |-> Seed, share |-> Interpolate(Source(P), i)]
    <3>1. out.kind = "replacements"
      BY <1>3
    <3>2. QED
      BY <3>1 DEF Made, Replacements, ReplacedIndices
  <2>4. PICK q \in P : q.header = h /\ WellFormed(q)
    BY <2>2 DEF Set
  <2>5. i \in 1..h.count /\ i \in 1..MAX_SHARES /\ i \in 0..MAX_SHARES
    BY <2>4, ShardConstants DEF MissingIndices, WellFormed
  <2>6. Interpolate(Source(P), i) \in Values
    BY <2>2, <2>5, InterpolatedType
  <2>7. WellFormed(p)
    BY <2>3, <2>4, <2>5, <2>6 DEF WellFormed
  <2>8. Signed(p) /\ p.header.pub = ThePub /\ p.header.hash = TheHash
    BY <2>2, <2>3, BackupAssumption DEF Signed
  <2>9. ASSUME h.version = SHARD_VERSION
        PROVE  h \in Headers /\ h.set \in drawn /\ PaperOf(p) = AsIssued(h, i)
    <3>1. /\ h \in Headers /\ h.set \in Draws /\ h.set \in drawn
          /\ \A q1 \in P : q1.share = ShareAt(h.set, SecretOf(type), h.threshold, q1.index)
      BY <2>1, <2>9, FitIsOneSplitting
    <3>2. Interpolate(Source(P), i) = ShareAt(h.set, SecretOf(type), h.threshold, i)
      BY <3>1, <2>2, <2>5, SecretTypes, OneSplitting
    <3>3. QED
      BY <3>1, <3>2, <2>2, <2>3 DEF AsIssued
  <2>10. PaperOf(p).data = p
    BY DEF PaperOf
  <2>11. QED
    BY <2>3, <2>7, <2>8, <2>9, <2>10 DEF Faithful, Own
<1>4. QED
  BY <1>1, <1>2, <1>3 DEF Outputs

\* A minting in full: what it adds, and what it leaves.
LEMMA MintStep ==
    ASSUME IInv, NEW typed \in Typed, NEW P \in Handed("passphrase"),
           NEW S \in Handed("signing-seed"), NEW draw \in Draws \ drawn, Mint(typed, P, S, draw)
    PROVE  /\ drawn' = drawn \cup {draw} /\ sealed' = sealed /\ papers \subseteq papers'
           /\ \A f \in papers' \ papers :
                /\ WellFormed(f.data) /\ Signed(f.data)
                /\ f.data.header.pub = ThePub /\ f.data.header.hash = TheHash
                /\ Own(f) => Faithful(f, drawn')
<1>1. Authority(S) = Seed
  BY AuthorityIsSeed DEF Mint, Ready, IInv
<1>2. PICK pass, sign \in Outputs :
        /\ Makeable(pass, P, "passphrase", Seed)
        /\ Makeable(sign, S, "signing-seed", Seed)
        /\ papers' = papers \cup
             {PaperOf(p) : p \in Made(pass, P, "passphrase", Seed, draw)
                             \cup Made(sign, S, "signing-seed", Seed, draw)}
  BY <1>1 DEF Mint
<1>3. drawn' = drawn \cup {draw} /\ sealed' = sealed /\ papers \subseteq papers'
  BY <1>2 DEF Mint
<1>4. ASSUME NEW f \in papers' \ papers
      PROVE  /\ WellFormed(f.data) /\ Signed(f.data)
             /\ f.data.header.pub = ThePub /\ f.data.header.hash = TheHash
             /\ Own(f) => Faithful(f, drawn')
  <2>1. PICK p \in Made(pass, P, "passphrase", Seed, draw)
                     \cup Made(sign, S, "signing-seed", Seed, draw) : f = PaperOf(p)
    BY <1>2
  <2>2. f.data = p
    BY <2>1 DEF PaperOf
  <2>3. CASE p \in Made(pass, P, "passphrase", Seed, draw)
    BY <2>1, <2>2, <2>3, <1>2, <1>3, MadeIsFaithful DEF KeyTypes
  <2>4. CASE p \in Made(sign, S, "signing-seed", Seed, draw)
    BY <2>1, <2>2, <2>4, <1>2, <1>3, MadeIsFaithful DEF KeyTypes
  <2>5. QED
    BY <2>1, <2>3, <2>4
<1>5. QED
  BY <1>3, <1>4

\* The documents there are to begin with are as they were issued.
LEMMA InitIInv == Init => IInv
BY IssuedAssumption DEF Init, IInv, TypeOK, PapersFaithful

\* A minting leaves what there was, and adds what splitting would have made.
LEMMA NextIInv == IInv /\ [Next]_vars => IInv'
<1> SUFFICES ASSUME IInv, [Next]_vars PROVE IInv'
  OBVIOUS
<1>1. CASE UNCHANGED vars
  BY <1>1 DEF vars, IInv, TypeOK, PapersFaithful
<1>2. CASE Next
  <2>1. PICK typed \in Typed, P \in Handed("passphrase"), S \in Handed("signing-seed"),
             draw \in Draws \ drawn : Mint(typed, P, S, draw)
    BY <1>2 DEF Next
  <2>2. /\ drawn' = drawn \cup {draw} /\ sealed' = sealed /\ papers \subseteq papers'
        /\ \A f \in papers' \ papers : WellFormed(f.data) /\ (Own(f) => Faithful(f, drawn'))
    BY <2>1, MintStep
  <2>3. TypeOK'
    BY <2>2 DEF IInv, TypeOK
  <2>4. PapersFaithful'
    <3>1. ASSUME NEW f \in papers, Own(f) PROVE Faithful(f, drawn')
      BY <3>1, <2>2 DEF IInv, PapersFaithful, Faithful
    <3>2. QED
      BY <3>1, <2>2 DEF PapersFaithful
  <2>5. QED
    BY <2>3, <2>4 DEF IInv
<1>3. QED
  BY <1>1, <1>2

\* The inductive invariant holds throughout.
THEOREM Invariance == Spec => []IInv
BY InitIInv, NextIInv, PTL DEF Spec

\* Documents stay well-formed, whatever is minted from them.
THEOREM TypeCorrect == Spec => []TypeOK
BY Invariance, PTL DEF IInv

\* Any quorum of documents that names its set, out of any mix of originals, later sets and
\* replacements of replacements, is refused or gives back the true secret.
THEOREM RecoveredIsAlwaysSecret == Spec => []RecoveredIsSecret
<1>1. IInv => RecoveredIsSecret
  <2>1. SUFFICES ASSUME IInv, NEW type \in KeyTypes, NEW F \in Handed(type),
                        Fit(F, type), Quorate(F),
                        HeaderOf(Payloads(F)).version = SHARD_VERSION
                 PROVE  Secret(Payloads(F)) = SecretOf(type)
    BY DEF RecoveredIsSecret
  <2>2. Set(Payloads(F)) /\ Payloads(F) # {}
    BY <2>1, FitIsSet DEF IInv
  <2>3. /\ HeaderOf(Payloads(F)).set \in Draws
        /\ \A p \in Payloads(F) :
             p.share = ShareAt(HeaderOf(Payloads(F)).set, SecretOf(type),
                               HeaderOf(Payloads(F)).threshold, p.index)
    BY <2>1, FitIsOneSplitting
  <2>4. QED
    BY <2>1, <2>2, <2>3, OneSplitting, SecretTypes DEF Quorate
<1>2. QED
  BY <1>1, Invariance, PTL

\* A replacement and the document it replaces are the same document.
THEOREM SlotsAlwaysAgree == Spec => []SameSlotSameDocument
<1>1. IInv => SameSlotSameDocument
  <2>1. SUFFICES ASSUME IInv, NEW f \in papers, NEW g \in papers, Own(f),
                        f.data.header = g.data.header, f.data.index = g.data.index
                 PROVE  f = g
    BY DEF SameSlotSameDocument
  <2>2. Own(g)
    BY <2>1 DEF Own
  <2>3. f = AsIssued(f.data.header, f.data.index) /\ g = AsIssued(g.data.header, g.data.index)
    BY <2>1, <2>2 DEF IInv, PapersFaithful, Faithful
  <2>4. QED
    BY <2>1, <2>3
<1>2. QED
  BY <1>1, Invariance, PTL

\* All there is of one set is accepted for recovery, once it is as many as the threshold.
THEOREM SetsAlwaysWhole == Spec => []SetsStayWhole
<1>1. IInv => SetsStayWhole
  <2> SUFFICES ASSUME IInv, NEW f \in papers, Own(f)
               PROVE  LET F == {g \in papers : g.data.header = f.data.header} IN
                      Cardinality(F) >= f.data.header.threshold =>
                        Fit(F, f.data.header.type) /\ Quorate(F)
    BY DEF SetsStayWhole
  <2> DEFINE h == f.data.header
             F == {g \in papers : g.data.header = h}
             P == Payloads(F)
             paper == [p \in P |-> PaperOf(p)]
  <2>1. \A g \in F : /\ h \in Headers /\ g = AsIssued(h, g.data.index)
                     /\ WellFormed(g.data) /\ g.data.header = h
    BY DEF IInv, TypeOK, PapersFaithful, Faithful, Own
  <2>2. f \in F
    OBVIOUS
  <2>3. h \in Headers /\ h.type \in KeyTypes /\ h.set \in Draws /\ h.threshold \in 1..MAX_SHARES
    BY <2>1, <2>2 DEF Headers
  <2>4. \A p \in P : \E g \in F : p = g.data /\ g = PaperOf(p)
    BY <2>1 DEF Payloads, AsIssued, PaperOf
  <2>5. ASSUME NEW p \in P
        PROVE  /\ WellFormed(p) /\ p.header = h /\ PaperOf(p) \in F
               /\ p = [header |-> h, index |-> p.index, key |-> Seed,
                       share |-> ShareAt(h.set, SecretOf(h.type), h.threshold, p.index)]
    <3>1. PICK g \in F : p = g.data /\ g = PaperOf(p)
      BY <2>4
    <3>2. QED
      BY <3>1, <2>1 DEF AsIssued, PaperOf
  <2>6. Set(P) /\ f.data \in P
    <3>1. Distinct(P)
      BY <2>5 DEF Distinct
    <3>2. QED
      BY <3>1, <2>2, <2>5 DEF Set, Payloads
  <2>7. HeaderOf(P) = h
    BY <2>5, <2>6 DEF HeaderOf
  <2>8. Cardinality(P) = Cardinality(F)
    <3>1. \A p \in P : paper[p] \in F /\ paper[p].data = p
      BY <2>5 DEF PaperOf
    <3>2. \A g \in F : g.data \in P /\ paper[g.data] = g
      BY <2>1 DEF Payloads, AsIssued, PaperOf
    <3>3. paper \in Bijection(P, F)
      BY <3>1, <3>2 DEF Bijection, Injection, IsInjective, Surjection
    <3>4. IsFiniteSet(P)
      BY <2>6, SetIsFinite
    <3> HIDE DEF paper, P, F
    <3>5. QED
      BY <3>3, <3>4, FS_Bijection DEF ExistsBijection
  <2>9. ASSUME NEW g \in F
        PROVE  ShardFrameFits(g, TheDoc, TheHash, FALSE, h.type) /\ g.data.header.pub = ThePub
    <3>1. /\ g.data = [header |-> h, index |-> g.data.index, key |-> Seed,
                       share |-> ShareAt(h.set, SecretOf(h.type), h.threshold, g.data.index)]
          /\ g.type = "key" /\ g.total = 1 /\ g.index = 0 /\ g.doc = TheDoc
      BY <2>1 DEF AsIssued, PaperOf
    <3>2. g.data.index \in 1..MAX_SHARES /\ g.data.share \in Values
      BY <2>6, SetIsFinite DEF Payloads
    <3>3. g.data # NONE
      BY <2>3, <3>1, <3>2, PayloadAssumption
    <3>4. h.hash = TheHash /\ h.pub = ThePub
      BY <2>3 DEF Headers
    <3>5. Signed(g.data)
      BY <3>1, <3>4, BackupAssumption DEF Signed
    <3>6. QED
      BY <3>1, <3>3, <3>4, <3>5 DEF ShardFrameFits, SingleFrame
  <2>10. ASSUME Cardinality(P) >= h.threshold PROVE Consistent(P, FALSE)
    <3>1. \A p \in P : p.share = ShareAt(h.set, SecretOf(h.type), HeaderOf(P).threshold, p.index)
      BY <2>5, <2>7
    <3>2. SecretOf(h.type) \in Values
      BY <2>3, SecretTypes
    <3>3. \A i \in 1..MAX_SHARES :
            Interpolate(Source(P), i) = ShareAt(h.set, SecretOf(h.type), HeaderOf(P).threshold, i)
      BY <2>3, <2>6, <2>7, <2>10, <3>1, <3>2, OneSplitting
    <3>4. \A p \in P : Interpolate(Source(P), p.index) = p.share
      BY <3>1, <3>3, <2>6, SetIsFinite
    <3>5. QED
      BY <3>4, <2>5, <2>6 DEF Consistent
  <2>11. ASSUME Cardinality(F) >= h.threshold PROVE Fit(F, h.type) /\ Quorate(F)
    <3>1. Consistent(P, FALSE) /\ Distinct(P)
      BY <2>6, <2>8, <2>10, <2>11 DEF Set
    <3>2. Fit(F, h.type)
      BY <2>2, <2>9, <3>1 DEF Fit, ShardsFit
    <3>3. QED
      BY <3>2, <2>7, <2>8, <2>11 DEF Quorate
  <2>12. QED
    BY <2>11
<1>2. QED
  BY <1>1, Invariance, PTL

\* A set stays one set, however often it is minted from (sharding.py:156-245).
THEOREM SetsAlwaysOne == Spec => []SetsStayOne
BY SlotsAlwaysAgree, SetsAlwaysWhole, PTL DEF SetsStayOne

\* Whatever is handed in, what is minted is signed by the backup's own key, for this backup.
THEOREM MintedIsAlwaysSigned == Spec => MintedByTheBackupsKey
<1> DEFINE Good == \A f \in papers' \ papers :
                      Signed(f.data) /\ f.data.header.pub = ThePub /\ f.data.header.hash = TheHash
<1>1. IInv /\ [Next]_vars => [Good]_vars
  <2> SUFFICES ASSUME IInv, Next PROVE Good
    OBVIOUS
  <2>1. PICK typed \in Typed, P \in Handed("passphrase"), S \in Handed("signing-seed"),
             draw \in Draws \ drawn : Mint(typed, P, S, draw)
    BY DEF Next
  <2>2. QED
    BY <2>1, MintStep
<1>2. QED
  BY <1>1, Invariance, PTL DEF Spec, MintedByTheBackupsKey
-----------------------------------------------------------------------------
(* What the inspection offers. *)

\* The inspection can decrypt exactly when the minting could.
LEMMA ReadyWhenItOpens ==
    ASSUME NEW typed \in Typed, NEW P
    PROVE  PassphraseReady(typed, P) <=> Opens(typed, P)
<1> DEFINE in == Input(typed, P)
           in0 == Input(NONE, {})
<1>1. /\ in.frames = in0.frames /\ in.extra = in0.extra
      /\ in.unsigned = FALSE
  BY DEF Input
<1>2. AuthFaultOf(in) = 0 /\ Loads(in)
  <2>1. AuthFrames(in) = AuthFrames(in0) /\ DocId(in) = DocId(in0) /\ DocHash(in) = DocHash(in0)
    BY <1>1, Zenon DEF AuthFrames, DocId, DocHash, Ciphertext
  <2>2. Loads(in) <=> Loads(in0)
    BY <1>1, <2>1, Zenon DEF Loads
  <2>3. QED
    BY <2>1, <2>2, BackupAssumption, Zenon DEF AuthFaultOf
<1>3. ~InspectedAuthBlocked(in) /\ AuthResolves(in)
  BY <1>2 DEF InspectedAuthBlocked, AuthResolves
<1> HIDE DEF in, in0
<1>4. ~InspectionRaises(in) /\ ~UnlockBlocked(in) <=> Loads(in) /\ Unlocks(in)
  <2>1. CASE in.shards = {}
    BY <2>1, Zenon DEF InspectionRaises, UnlockBlocked, Unlocks
  <2>2. CASE in.shards # {}
    BY <2>2, Zenon DEF InspectionRaises, UnlockBlocked, Unlocks, ShardsUnlock
  <2>3. QED
    BY <2>1, <2>2
<1>5. InspectedReady(in) <=> Plannable(in)
  BY <1>3, <1>4, Zenon DEF InspectedReady, Plannable
<1>6. QED
  BY <1>5, Zenon DEF PassphraseReady, Opens, in

\* Replacements that are offered can be made, unless more are asked for than are missing.
LEMMA ReplaceableIsMakeable ==
    ASSUME TypeOK, NEW type \in KeyTypes, NEW F \in Handed(type), NEW n \in Counts, NEW seed,
           PublicKey(seed) = ThePub, Replaceable(F, type),
           ~(n > Cardinality(MissingIndices(Payloads(F))))
    PROVE  CanReplace(Payloads(F), n, seed)
<1> DEFINE P == Payloads(F)
           h == HeaderOf(P)
<1>1. Fit(F, type) /\ Cardinality(P) >= h.threshold
  BY DEF Replaceable, Quorate
<1>2. Set(P) /\ P # {} /\ h.pub = ThePub /\ \A p \in P : p.header = h
  BY <1>1, FitIsSet
<1>3. \A p \in P : Signed(p)
  BY <1>1 DEF Fit, ShardsFit, ShardFrameFits, Payloads
<1>4. Consistent(P, TRUE) /\ Distinct(P)
  BY <1>1, <1>3 DEF Fit, ShardsFit, Consistent
<1>5. Cardinality(MissingIndices(P)) \in Nat
  <2>1. PICK p \in P : p.header = h /\ WellFormed(p)
    BY <1>2 DEF Set
  <2>2. h.count \in Nat
    BY <2>1, ShardConstants DEF WellFormed
  <2>3. IsFiniteSet(1..h.count)
    BY <2>2, FS_Interval
  <2>4. MissingIndices(P) \in SUBSET (1..h.count)
    BY DEF MissingIndices
  <2>5. QED
    BY <2>3, <2>4, FS_Subset, FS_CardinalityType
<1>6. n \in Nat /\ n >= 1
  BY ArgsAssumption
<1> HIDE DEF P
<1>7. n <= Cardinality(MissingIndices(P))
  BY <1>5, <1>6 DEF P
<1>8. QED
  BY <1>1, <1>2, <1>4, <1>6, <1>7 DEF CanReplace, P

\* An output that is offered can be made, unless it is too many replacements.
LEMMA OfferedIsMakeable ==
    ASSUME TypeOK, NEW type \in KeyTypes, NEW F \in Handed(type), NEW out \in Outputs, NEW seed,
           PublicKey(seed) = ThePub, ~ReplacementBlocked(out, F, type), ~TooMany(out, F)
    PROVE  Makeable(out, F, type, seed)
<1>1. CASE out = Off
  <2>1. out.kind = "off"
    BY <1>1 DEF Off
  <2>2. QED
    BY <2>1 DEF Makeable
<1>2. CASE out \in [kind : {"new_set"}, quorum : Quorums]
  BY <1>2, ArgsAssumption DEF Makeable
<1>3. CASE out \in [kind : {"replacements"}, n : Counts]
  <2>1. out.kind = "replacements" /\ out.n \in Counts
    BY <1>3
  <2>2. Replaceable(F, type) /\ ~(out.n > Cardinality(MissingIndices(Payloads(F))))
    BY <2>1 DEF ReplacementBlocked, TooMany
  <2>3. CanReplace(Payloads(F), out.n, seed)
    BY <2>1, <2>2, ReplaceableIsMakeable
  <2>4. QED
    BY <2>1, <2>2, <2>3 DEF Makeable
<1>4. QED
  BY <1>1, <1>2, <1>3 DEF Outputs

\* Replacements that can be made are of shards that fit and suffice.
LEMMA MakeableIsOffered ==
    ASSUME NEW type, NEW F, NEW out, NEW seed, Makeable(out, F, type, seed)
    PROVE  ~ReplacementBlocked(out, F, type) /\ ~ReplacementRaises(out, F, type)
<1>1. CASE out.kind = "replacements"
  <2>1. Replaceable(F, type)
    BY <1>1 DEF Makeable
  <2>2. QED
    BY <2>1 DEF Replaceable, ReplacementBlocked, ReplacementRaises
<1>2. CASE out.kind # "replacements"
  BY <1>2 DEF ReplacementBlocked, ReplacementRaises
<1>3. QED
  BY <1>1, <1>2

\* The inspection offers all that a minting would carry out, and nothing else but for the
\* three gaps the property names, whatever lies in the drawer.
THEOREM OffersAreFaithful == Spec => []OfferIsFaithful
<1>1. TypeOK => OfferIsFaithful
  <2>1. SUFFICES ASSUME TypeOK, NEW typed \in Typed, NEW P \in Handed("passphrase"),
                        NEW S \in Handed("signing-seed"), NEW pass \in Outputs,
                        NEW sign \in Outputs
                 PROVE  /\ Mintable(typed, P, S, pass, sign) => Offered(typed, P, S, pass, sign)
                        /\ Offered(typed, P, S, pass, sign) =>
                             \/ Mintable(typed, P, S, pass, sign)
                             \/ ~HasAuthority(S) /\ sign = Off
                             \/ HasAuthority(S) /\ ~Matches(Authority(S))
                             \/ TooMany(pass, P) \/ TooMany(sign, S)
    BY Zenon DEF OfferIsFaithful
  <2>2. PassphraseReady(typed, P) <=> Opens(typed, P)
    BY ReadyWhenItOpens
  <2>3. ASSUME Mintable(typed, P, S, pass, sign)
        PROVE  Offered(typed, P, S, pass, sign)
    <3>1. /\ pass # Off \/ sign # Off
          /\ Opens(typed, P) /\ HasAuthority(S)
          /\ Makeable(pass, P, "passphrase", Authority(S))
          /\ Makeable(sign, S, "signing-seed", Authority(S))
      BY <2>3, Zenon DEF Mintable, Ready
    <3>2. ~ReplacementBlocked(pass, P, "passphrase") /\ ~ReplacementRaises(pass, P, "passphrase")
      BY <3>1, MakeableIsOffered, Zenon
    <3>3. ~ReplacementBlocked(sign, S, "signing-seed") /\ ~ReplacementRaises(sign, S, "signing-seed")
      BY <3>1, MakeableIsOffered, Zenon
    <3>4. QED
      BY <2>2, <3>1, <3>2, <3>3, Zenon DEF Offered
  <2>4. ASSUME Offered(typed, P, S, pass, sign), ~TooMany(pass, P), ~TooMany(sign, S),
               ~(~HasAuthority(S) /\ sign = Off), ~(HasAuthority(S) /\ ~Matches(Authority(S)))
        PROVE  Mintable(typed, P, S, pass, sign)
    <3>1. Opens(typed, P) /\ HasAuthority(S) /\ Matches(Authority(S))
      BY <2>2, <2>4, Zenon DEF Offered
    <3>2. PublicKey(Authority(S)) = ThePub
      BY <3>1 DEF Matches
    <3>3. Makeable(pass, P, "passphrase", Authority(S))
      <4>1. ~ReplacementBlocked(pass, P, "passphrase")
        BY <2>4, Zenon DEF Offered
      <4>2. QED
        BY <2>1, <2>4, <3>2, <4>1, OfferedIsMakeable DEF KeyTypes
    <3>4. Makeable(sign, S, "signing-seed", Authority(S))
      <4>1. CASE sign = Off
        <5>1. sign.kind = "off"
          BY <4>1 DEF Off
        <5>2. QED
          BY <5>1 DEF Makeable
      <4>2. CASE sign # Off
        <5>1. ~ReplacementBlocked(sign, S, "signing-seed")
          BY <2>4, <4>2, Zenon DEF Offered
        <5>2. QED
          BY <2>1, <2>4, <3>2, <5>1, OfferedIsMakeable DEF KeyTypes
      <4>3. QED
        BY <4>1, <4>2
    <3>5. QED
      BY <2>4, <3>1, <3>3, <3>4, Zenon DEF Mintable, Ready, Offered
  <2>5. QED
    BY <2>3, <2>4, Zenon
<1>2. QED
  BY <1>1, TypeCorrect, PTL
=============================================================================
