---------------------------- MODULE MintCommand ----------------------------
(***************************************************************************)
(* `ethernity mint`, its wizard and `ethernity api mint`: which shard      *)
(* documents a run makes from an existing backup.  ask.shards and          *)
(* ask.keyShards are the passphrase and signing-key shards the user has:   *)
(* a quorum t of n and the indexes in hand.  What a shard holds and how    *)
(* replacements are computed is ShardCustody's matter.                     *)
(***************************************************************************)
EXTENDS BackupCommand

(***************************************************************************)
(* Options: p and s ask for passphrase and signing-key shards, rp and rs   *)
(* for that many replacements instead of a fresh set.                      *)
(***************************************************************************)
Positive(r) == r = Unset \/ r >= 1

MintUnparsable(o) == Api /\ Text \in {o.t, o.n, o.st, o.sn, o.rp, o.rs}

InScope(o) == /\ o.rp # Unset => o.p
              /\ o.rs # Unset => o.s
              /\ Positive(o.rp)
              /\ Positive(o.rs)

PairsValid(o) == /\ Given(o.t, o.n) => ~BadQuorum(o.t, o.n)
                 /\ Given(o.st, o.sn) => ~BadQuorum(o.st, o.sn)

\* Scanned passphrase shards do not count as existing shards here; scanned signing-key shards do.
MintValid(o) ==
  /\ o.p \/ o.s
  /\ InScope(o)
  /\ o.rp # Unset => o.shards = "files"
  /\ o.rs # Unset => o.keys
  /\ PairsValid(o)
  /\ o.p /\ o.rp = Unset => Given(o.t, o.n)
  /\ o.s /\ o.rs = Unset => Given(o.st, o.sn) \/ Given(o.t, o.n)

(***************************************************************************)
(* What the shards in hand allow.                                          *)
(***************************************************************************)
InHand(given, shards) == IF given THEN shards.have ELSE {}
HasQuorum(given, shards) == Cardinality(InHand(given, shards)) >= shards.t
UnderQuorum(given, shards) == InHand(given, shards) # {} /\ ~HasQuorum(given, shards)
Missing(shards) == (1..shards.n) \ shards.have

ShardsGiven == args.shards # Unset
Unlocked == args.pass # Unset \/ (ShardsGiven /\ HasQuorum(TRUE, ask.shards))
Authorised == ask.backup.key \/ HasQuorum(args.keys, ask.keyShards)

\* The count missing indexes that come first.
Least(S, count) == { i \in S : Cardinality({ j \in S : j < i }) < count }

Replacements(shards, count) == Least(Missing(shards), count)

\* [mutant] as many replacements as were asked for
CanReplaceAny(given, shards, count) == HasQuorum(given, shards)

CanReplace(given, shards, count) ==
  HasQuorum(given, shards) /\ count <= Cardinality(Missing(shards))

SigningQuorum == IF Given(args.st, args.sn) THEN Quorum(args.st, args.sn) ELSE Quorum(args.t, args.n)

PassphraseMintable ==
  ~args.p \/ (IF args.rp # Unset THEN CanReplace(ShardsGiven, ask.shards, args.rp)
              ELSE args.t # Unset /\ args.n # Unset)
SigningMintable ==
  ~args.s \/ (IF args.rs # Unset THEN CanReplace(args.keys, ask.keyShards, args.rs)
              ELSE SigningQuorum # Unset)

Kept(shards) == [t |-> shards.t, n |-> shards.n]

MintPlan ==
  [p |-> IF ~args.p THEN {} ELSE IF args.rp # Unset THEN Replacements(ask.shards, args.rp) ELSE 1..args.n,
   s |-> IF ~args.s THEN {} ELSE IF args.rs # Unset THEN Replacements(ask.keyShards, args.rs) ELSE 1..SigningQuorum.n,
   pQuorum |-> IF args.rp # Unset THEN Kept(ask.shards) ELSE Quorum(args.t, args.n),
   sQuorum |-> IF args.rs # Unset THEN Kept(ask.keyShards) ELSE SigningQuorum,
   paper |-> Merged(args.paper, ask.configPaper), dir |-> args.dir]

Ascending(S) == [k \in 1..Cardinality(S) |-> CHOOSE i \in S : Cardinality({ j \in S : j < i }) = k - 1]

MintedDocuments(p) ==
  [k \in 1..Cardinality(p.p) |-> Document("shard", Ascending(p.p)[k], p.pQuorum, {"share_of_passphrase"})]
  \o [k \in 1..Cardinality(p.s) |-> Document("signing_key_shard", Ascending(p.s)[k], p.sQuorum, {"share_of_signing_key"})]

(***************************************************************************)
(* The command.                                                            *)
(***************************************************************************)
MintWizard == ask.front = "home" \/ (~Api /\ ~ask.opts.input /\ ask.tty)

\* Mint has no saved defaults.
MintArgs == ask.opts

StartMint ==
  /\ at = "mint"
  /\ IF MintUnparsable(ask.opts)
     THEN Raises("INVALID_INPUT") /\ Keep(args)
     ELSE /\ args' = MintArgs
          /\ Emit(<<Started>>)
          /\ Go(IF MintWizard THEN "mint_wizard" ELSE "mint_browsers")
          /\ Keep(status)
  /\ UNCHANGED <<ask, plan, review, papers, outputs, config>>

MintBrowsers == Works("mint_browsers", "mint_plan", <<Phase("plan")>>)

LoadMint ==
  /\ at = "mint_plan"
  /\ IF MintValid(args) /\ args.input /\ Unlocked /\ ask.backup.auth
     THEN /\ Emit(<<Progress("plan", 1, 1), Phase("mint")>>)
          /\ Go("mint_shards")
          /\ Keep(status)
     ELSE Raises("INVALID_INPUT")
  /\ UNCHANGED <<ask, args, plan, review, papers, outputs, config>>

MintFromPlan ==
  /\ at = "mint_shards"
  /\ IF Authorised /\ PassphraseMintable /\ SigningMintable
     THEN /\ plan' = MintPlan
          /\ Emit(<<Progress("mint", 1, 1), Phase("render")>>)
          /\ Go("mint_render")
          /\ Keep(status)
     ELSE Raises("INVALID_INPUT") /\ Keep(plan)
  /\ UNCHANGED <<ask, args, review, papers, outputs, config>>

RenderMinted ==
  /\ at = "mint_render"
  /\ IF Len(papers) < Len(MintedDocuments(plan))
     THEN /\ papers' = Append(papers, MintedDocuments(plan)[Len(papers) + 1])
          /\ Emit(<<Progress("render", Len(papers) + 1, Len(MintedDocuments(plan)))>>)
          /\ UNCHANGED <<at, status>>
     ELSE Go("commit") /\ UNCHANGED <<papers, stream, status>>
  /\ UNCHANGED <<ask, args, plan, review, outputs, config>>

MintSummary == [files |-> outputs, source |-> IF ask.backup.key THEN "embedded" ELSE "shards"]

ReportMint ==
  /\ at = "report"
  /\ ask.command = "mint"
  /\ Emit([i \in DOMAIN outputs |-> Artifact(outputs[i])] \o <<Result(MintSummary)>>)
  /\ Go("return")
  /\ UNCHANGED <<ask, args, plan, review, papers, outputs, config, status>>

(***************************************************************************)
(* The wizard.                                                             *)
(***************************************************************************)
StartMintWizard ==
  /\ at = "mint_wizard"
  /\ IF InScope(args) /\ PairsValid(args)
     THEN Go("mint_keys") /\ UNCHANGED <<stream, status>>
     ELSE Raises("INVALID_INPUT")
  /\ UNCHANGED <<ask, args, plan, review, papers, outputs, config>>

\* The user types a passphrase, gives shards, or both.
PromptKeys ==
  /\ at = "mint_keys"
  /\ \E pass \in {Unset, "given"}, shards \in {Unset} \cup (IF ask.shards.have = {} THEN {} ELSE {"files"}) :
       /\ pass # Unset \/ shards # Unset
       /\ args' = [args EXCEPT !.pass = pass, !.shards = shards]
       /\ Go("mint_keys_read")
  /\ UNCHANGED <<ask, plan, review, stream, papers, outputs, config, status>>

ReadKeys ==
  /\ at = "mint_keys_read"
  /\ IF (args.rp # Unset /\ ~ShardsGiven) \/ ~Unlocked \/ ~ask.backup.auth
     THEN Raises("INVALID_INPUT")
     ELSE Go("mint_authority") /\ UNCHANGED <<stream, status>>
  /\ UNCHANGED <<ask, args, plan, review, papers, outputs, config>>

\* Without a signing key in the backup the wizard asks for its shards, until the user gives some.
PromptAuthority ==
  /\ at = "mint_authority"
  /\ \/ /\ ask.backup.key /\ args.rs # Unset /\ ~args.keys
        /\ Raises("INVALID_INPUT") /\ Keep(args)
     \/ /\ ask.backup.key \/ args.keys
        /\ args.rs # Unset => args.keys
        /\ Go("mint_outputs") /\ UNCHANGED <<args, stream, status>>
     \/ /\ ~ask.backup.key /\ ~args.keys /\ ask.keyShards.have # {}
        /\ args' = [args EXCEPT !.keys = TRUE]
        /\ Go("mint_outputs") /\ UNCHANGED <<stream, status>>
  /\ UNCHANGED <<ask, plan, review, papers, outputs, config>>

PassphrasePreset == ~args.p \/ args.rp # Unset \/ Given(args.t, args.n)
SigningPreset == ~args.s \/ args.rs # Unset \/ Given(args.st, args.sn) \/ Given(args.t, args.n)

\* Replacement offered when a quorum is in hand and an index is missing; else a fresh set.
CountsOffered(given, shards) ==
  {Unset} \cup (IF HasQuorum(given, shards) /\ InHand(given, shards) # {} THEN 1..Cardinality(Missing(shards)) ELSE {})

\* What the answers make of one kind of output: a replacement count, or a quorum.
Answers(count, quorum, given, shards, quorums) ==
  IF count # Unset THEN { [r |-> count, q |-> quorum] }
  ELSE IF quorum # Unset THEN { [r |-> Unset, q |-> quorum] }
  ELSE { [r |-> r, q |-> Unset] : r \in CountsOffered(given, shards) \ {Unset} }
       \cup { [r |-> Unset, q |-> q] : q \in quorums }

Refused(count, quorum, given, shards) ==
  IF count # Unset THEN ~HasQuorum(given, shards) \/ InHand(given, shards) = {}
  ELSE quorum = Unset /\ UnderQuorum(given, shards)

ConfiguredSigning(p) == IF Given(args.st, args.sn) THEN Quorum(args.st, args.sn)
                        ELSE IF args.s THEN p ELSE Unset

Configured == Quorum(args.t, args.n)

Off == [r |-> Unset, q |-> Unset]

ThresholdOf(q) == IF q = Unset THEN Unset ELSE q.t
CountOf(q) == IF q = Unset THEN Unset ELSE q.n

WizardArgs(p, s, keys, pass, sign) ==
  [args EXCEPT !.p = p, !.s = s, !.rp = pass.r, !.rs = sign.r, !.keys = keys,
               !.t = ThresholdOf(pass.q), !.n = CountOf(pass.q),
               !.st = ThresholdOf(sign.q), !.sn = CountOf(sign.q)]

PromptOutputs ==
  /\ at = "mint_outputs"
  /\ \E p \in IF PassphrasePreset THEN {args.p} ELSE BOOLEAN,
        s \in IF SigningPreset THEN {args.s} ELSE BOOLEAN :
       IF (~p /\ ~s) \/ (p /\ Refused(args.rp, Configured, ShardsGiven, ask.shards))
       THEN Raises("INVALID_INPUT") /\ Keep(args)
       ELSE \E pass \in IF p THEN Answers(args.rp, Configured, ShardsGiven, ask.shards, AnyQuorum)
                             ELSE {[Off EXCEPT !.q = Configured]},
               keys \in IF s /\ args.rs = Unset /\ ConfiguredSigning(Configured) = Unset /\ ~args.keys
                           /\ ask.keyShards.have # {}
                        THEN BOOLEAN ELSE {args.keys} :
              IF s /\ Refused(args.rs, ConfiguredSigning(Configured), keys, ask.keyShards)
              THEN Raises("INVALID_INPUT") /\ Keep(args)
              ELSE \E sign \in IF s THEN Answers(args.rs, ConfiguredSigning(Configured), keys, ask.keyShards,
                                                  IF pass.q # Unset THEN {Unset} \cup AnyQuorum ELSE AnyQuorum)
                               ELSE {[Off EXCEPT !.q = ConfiguredSigning(Configured)]} :
                     /\ args' = WizardArgs(p, s, keys, pass, sign)
                     /\ Go("mint_shards")
                     /\ UNCHANGED <<stream, status>>
  /\ UNCHANGED <<ask, plan, review, papers, outputs, config>>

MintNext ==
  \/ StartMint \/ MintBrowsers \/ LoadMint \/ MintFromPlan \/ RenderMinted \/ ReportMint
  \/ StartMintWizard \/ PromptKeys \/ ReadKeys \/ PromptAuthority \/ PromptOutputs
=============================================================================
