---------------------------- MODULE ShardCustody ----------------------------
(***************************************************************************)
(* The shard documents of one backup over the years: sets issued with it,  *)
(* sets and replacements minted later (mint/workflow.py) from whatever     *)
(* documents are handed in, and the documents of other backups that lie    *)
(* in the same drawer.  Documents are never known to be destroyed: a lost  *)
(* one is one that is not handed in, and it may turn up again.             *)
(*                                                                         *)
(* A run that fails prints a message and leaves nothing behind             *)
(* (OutputPublishing): it is no step here.                                 *)
(***************************************************************************)
EXTENDS RecoveryPlan

CONSTANTS
    Box,        \* the frames of the backup itself: MAIN and AUTH
    Password,   \* what its ciphertext opens with
    Seed,       \* what it was signed with
    Issued,     \* shard frames that may exist before the first minting
    FirstDraws, \* the draws behind them; each run of the program makes draws of its own
    Typed,      \* what may be given as --passphrase, NONE among them
    Quorums,    \* (threshold, count) pairs that may be asked for
    Counts,     \* numbers of replacements that may be asked for
    MaxHanded   \* bounds the documents handed in at once

VARIABLES
    sealed,     \* does the manifest of the backup lack the seed?
    papers,     \* every shard document there is, as the frame it carries
    drawn       \* the draws made

vars == <<sealed, papers, drawn>>

\* What recovery is given: shards are left aside when there is a passphrase.
Input(typed, P) ==
    [frames |-> Box, extra |-> {}, shards |-> IF typed # NONE THEN {} ELSE P,
     passphrase |-> typed, unsigned |-> FALSE]

TheDoc == DocId(Input(NONE, {}))
TheHash == DocHash(Input(NONE, {}))
ThePub == SignPub(Input(NONE, {}))

\* The backup is one that this program made.
ASSUME BackupAssumption ==
    /\ Loads(Input(NONE, {})) /\ AuthFaultOf(Input(NONE, {})) = 0
    /\ Seed \in Values /\ ThePub = PublicKey(Seed) /\ ThePub # NONE
    /\ \A seed \in Values : PublicKey(seed) = ThePub => seed = Seed
    /\ Password \in Text /\ Normal(Password) = Password /\ ChecksumHolds(Password)

SecretOf(type) == IF type = "passphrase" THEN Password ELSE Seed

\* Shards of this backup that name the set they are of.
Own(f) == f.data.header.pub = ThePub /\ f.data.header.version = SHARD_VERSION

PaperOf(p) == [type |-> "key", doc |-> TheDoc, index |-> 0, total |-> 1, data |-> p]

\* The document that splitting makes under this header and index.
AsIssued(h, i) ==
    PaperOf([header |-> h, index |-> i, key |-> Seed,
             share |-> ShareAt(h.set, SecretOf(h.type), h.threshold, i)])

Headers ==
    [version : {SHARD_VERSION}, type : KeyTypes, threshold : 1..MAX_SHARES,
     count : 1..MAX_SHARES, set : Draws, hash : {TheHash}, pub : {ThePub}]

ASSUME PayloadAssumption ==
    NONE \notin [header : Headers, index : 1..MAX_SHARES, key : {Seed}, share : Values]

\* A document of this backup is what its splitting made.
Faithful(f, draws) ==
    LET h == f.data.header IN
    h \in Headers /\ h.set \in draws /\ f = AsIssued(h, f.data.index)

(* _validate_mint_args, before minting and before inspecting *)
ASSUME ArgsAssumption ==
    /\ Counts \subseteq Nat \ {0} /\ Quorums \subseteq Nat \X Nat
    /\ \A q \in Quorums : CanSplit(q[1], q[2])

ASSUME IssuedAssumption ==
    /\ NONE \in Typed /\ MaxHanded \in Nat
    /\ FirstDraws \subseteq Draws
    /\ \A I \in Issued : \A f \in I : WellFormed(f.data) /\ (Own(f) => Faithful(f, FirstDraws))

TypeOK ==
    /\ sealed \in BOOLEAN
    /\ \A f \in papers : WellFormed(f.data)
    /\ drawn \subseteq Draws

Init ==
    /\ sealed \in BOOLEAN
    /\ papers \in Issued
    /\ drawn = FirstDraws

-----------------------------------------------------------------------------
(* Minting. *)

Handed(type) ==
    {F \in SUBSET {f \in papers : f.data.header.type = type} : Cardinality(F) <= MaxHanded}

Fit(F, type) == ShardsFit(F, TheDoc, TheHash, ThePub, FALSE, type)

(* build_recovery_plan and decrypt_bytes *)
Opens(typed, P) ==
    Plannable(Input(typed, P)) /\ Passphrase(Input(typed, P)) = Password

(* _resolve_signing_authority *)
HasAuthority(S) == sealed => Fit(S, "signing-seed") /\ Quorate(S)
Authority(S) == IF sealed THEN Secret(Payloads(S)) ELSE Seed

Off == [kind |-> "off"]
Outputs ==
    {Off} \cup [kind : {"new_set"}, quorum : Quorums] \cup [kind : {"replacements"}, n : Counts]

(* _replacement_payloads_from_frames and _require_replacement_payloads *)
Replaceable(F, type) == Fit(F, type) /\ Quorate(F)

Makeable(out, F, type, seed) ==
    CASE out.kind = "off" -> TRUE
      [] out.kind = "new_set" -> CanSplit(out.quorum[1], out.quorum[2])
      [] out.kind = "replacements" ->
           Replaceable(F, type) /\ CanReplace(Payloads(F), out.n, seed)

Made(out, F, type, seed, draw) ==
    CASE out.kind = "off" -> {}
      [] out.kind = "new_set" ->
           Split(SecretOf(type), type, out.quorum[1], out.quorum[2], draw, TheHash, seed)
      [] out.kind = "replacements" -> Replacements(Payloads(F), out.n, seed)

\* [mutant] Whatever the shards say is the seed is taken for the backup's.
MatchesAny(seed) == TRUE

(* _mint_from_plan: the authority must be the one that signed the backup *)
Matches(seed) == PublicKey(seed) = ThePub

\* The part of a request that both outputs need.
Ready(typed, P, S) == Opens(typed, P) /\ HasAuthority(S) /\ Matches(Authority(S))

(* execute_mint *)
Mint(typed, P, S, draw) ==
    /\ Ready(typed, P, S)
    /\ \E pass, sign \in Outputs :
         /\ pass # Off \/ sign # Off
         /\ Makeable(pass, P, "passphrase", Authority(S))
         /\ Makeable(sign, S, "signing-seed", Authority(S))
         /\ papers' = papers \cup
              {PaperOf(p) : p \in Made(pass, P, "passphrase", Authority(S), draw)
                              \cup Made(sign, S, "signing-seed", Authority(S), draw)}
    /\ drawn' = drawn \cup {draw}
    /\ UNCHANGED sealed

Next ==
    \E typed \in Typed, P \in Handed("passphrase"), S \in Handed("signing-seed") :
      \E draw \in Draws \ drawn : Mint(typed, P, S, draw)

Spec == Init /\ [][Next]_vars

-----------------------------------------------------------------------------
(* What a frontend is told before it mints: inspect_mint_inputs. *)

(* _inspect_mint_replacement_blockers: blocks, or lets an error out *)
ReplacementBlocked(out, F, type) == out.kind = "replacements" /\ ~Replaceable(F, type)
ReplacementRaises(out, F, type) == out.kind = "replacements" /\ F # {} /\ ~Fit(F, type)

\* [mutant] The inspection is given the shards beside the passphrase.
PassphraseReadyWithShards(typed, P) ==
    LET in == [Input(typed, P) EXCEPT !.shards = P]
    IN InspectedReady(in) /\ Passphrase(in) = Password

\* passphrase_ready: the inspection could decrypt.
PassphraseReady(typed, P) ==
    InspectedReady(Input(typed, P)) /\ Passphrase(Input(typed, P)) = Password

(* _inspect_mint_capabilities: are the outputs asked for offered? *)
Offered(typed, P, S, pass, sign) ==
    /\ pass # Off \/ sign # Off
    /\ PassphraseReady(typed, P)
    /\ ~ReplacementRaises(pass, P, "passphrase") /\ ~ReplacementRaises(sign, S, "signing-seed")
    /\ ~ReplacementBlocked(pass, P, "passphrase")
    /\ sign # Off => HasAuthority(S) /\ ~ReplacementBlocked(sign, S, "signing-seed")

\* Would execute_mint carry it out?
Mintable(typed, P, S, pass, sign) ==
    /\ pass # Off \/ sign # Off
    /\ Ready(typed, P, S)
    /\ Makeable(pass, P, "passphrase", Authority(S))
    /\ Makeable(sign, S, "signing-seed", Authority(S))

-----------------------------------------------------------------------------
(* Properties. *)

TooMany(out, F) == out.kind = "replacements" /\ out.n > Cardinality(MissingIndices(Payloads(F)))

\* Whatever quorum is handed in, from originals, re-mintings and replacements, is refused or
\* gives the true secret; shards without a set id (version 1) are beyond this promise.
RecoveredIsSecret ==
    \A type \in KeyTypes : \A F \in Handed(type) :
      Fit(F, type) /\ Quorate(F) /\ HeaderOf(Payloads(F)).version = SHARD_VERSION =>
        Secret(Payloads(F)) = SecretOf(type)

\* A replacement for a lost shard and the lost shard, should it turn up, are one document.
SameSlotSameDocument ==
    \A f, g \in papers :
      Own(f) /\ f.data.header = g.data.header /\ f.data.index = g.data.index => f = g

\* All documents of one set together are accepted for recovery, whoever made them and when.
SetsStayWhole ==
    \A f \in papers :
      LET F == {g \in papers : g.data.header = f.data.header} IN
      Own(f) /\ Cardinality(F) >= f.data.header.threshold =>
        Fit(F, f.data.header.type) /\ Quorate(F)

\* A set stays one set, of one document to an index and on one polynomial, through any
\* number of mintings from any quorums (mint_replacement_shards, sharding.py:156-245).
SetsStayOne == SameSlotSameDocument /\ SetsStayWhole

\* Minting only ever adds documents that the backup's own key signed, for this backup: those
\* of another backup, or a wrong seed from mixed legacy shards, lead to none.
MintedByTheBackupsKey ==
    [][\A f \in papers' \ papers :
         Signed(f.data) /\ f.data.header.pub = ThePub /\ f.data.header.hash = TheHash]_vars

\* What would be carried out is what the inspection offers, but for three gaps: a passphrase
\* set of a sealed backup is offered without signing-key shards, replacements are offered when
\* fewer are missing, and legacy signing-key shards that yield a wrong seed count as ready.
OfferIsFaithful ==
    \A typed \in Typed, P \in Handed("passphrase"), S \in Handed("signing-seed") :
      drawn # Draws =>
        \A pass, sign \in Outputs :
          /\ Mintable(typed, P, S, pass, sign) => Offered(typed, P, S, pass, sign)
          /\ Offered(typed, P, S, pass, sign) =>
               \/ Mintable(typed, P, S, pass, sign)
               \/ ~HasAuthority(S) /\ sign = Off
               \/ HasAuthority(S) /\ ~Matches(Authority(S))
               \/ TooMany(pass, P) \/ TooMany(sign, S)
=============================================================================
