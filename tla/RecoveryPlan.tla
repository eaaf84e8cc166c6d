---------------------------- MODULE RecoveryPlan ----------------------------
(***************************************************************************)
(* How the command line turns decoded frames and key material into a       *)
(* recovery plan (recover/planning.py, recover/key_recovery.py), and the   *)
(* best-effort inspection of the same inputs that graphical frontends ask  *)
(* for first.                                                              *)
(*                                                                         *)
(* A frame is [type, doc, index, total, data].  The data of a MAIN frame   *)
(* is a chunk, that of an AUTH or KEY frame the payload it decodes to,     *)
(* NONE when it does not.  Lists of frames whose order has no effect are   *)
(* sets.  The inputs of a plan are                                         *)
(*   [frames, extra, shards : sets of frames, passphrase, unsigned]        *)
(* with the frames of the backup, further AUTH frames, shard frames, the   *)
(* passphrase or NONE, and --rescue-mode.                                  *)
(*                                                                         *)
(* Where a check only decides whether the program goes on or raises, the   *)
(* checks are conjuncts and the message is left out; where the answer      *)
(* depends on which test fails first, the tests are numbered in order.     *)
(***************************************************************************)
EXTENDS ShardSets, FrameSets, Sequences

CONSTANTS
    Hash(_),         \* BLAKE2b-256 of a ciphertext
    DocOf(_),        \* its first bytes: the document id
    Text,            \* the secrets that are UTF-8 text
    Normal(_),       \* normalize_bip39_mnemonic
    ChecksumHolds(_) \* validate_mnemonic_checksum_if_bip39

ASSUME TextAssumption == Text \subseteq Values

Least(S) == CHOOSE i \in S : \A j \in S : i <= j

-----------------------------------------------------------------------------
(* The backup. *)

AuthFrames(in) == OfType(in.frames, "auth") \cup in.extra

Loads(in) ==
    /\ ~Clash(in.frames)
    /\ OfType(in.frames, "key") = {}
    /\ in.extra # {} => ~Clash(AuthFrames(in)) /\ OfType(in.extra, "auth") = in.extra
    /\ Reassembles(OfType(in.frames, "main"))

Ciphertext(in) == Joined(OfType(in.frames, "main"))
DocHash(in) == Hash(Ciphertext(in))
DocId(in) == DocOf(DocHash(in))

-----------------------------------------------------------------------------
(* The AUTH payload: the tests of _resolve_auth_payload, in order. *)

AuthTests(A, doc, hash) ==
    LET f == CHOOSE f \in A : TRUE IN
    <<A # {}, Cardinality(A) = 1, f.doc = doc, SingleFrame(f), f.data # NONE>>
      \o IF f.data = NONE THEN <<>> ELSE <<f.data.hash = hash, f.data.genuine>>

\* The number of the first test that fails, or 0.
AuthFault(A, doc, hash) ==
    IF A = {} THEN 1
    ELSE LET failing == {i \in DOMAIN AuthTests(A, doc, hash) : ~AuthTests(A, doc, hash)[i]}
         IN IF failing = {} THEN 0 ELSE Least(failing)

\* [mutant] A second AUTH payload is forgiven too.
ForgivenTwo == {1, 2, 3, 5, 6, 7}

\* With --rescue-mode these faults only cost the verification.
Forgiven == {1, 3, 5, 6, 7}
StatusWhenForgiven == <<"skipped", "invalid", "ignored", "invalid", "invalid", "ignored", "ignored">>

AuthFaultOf(in) == AuthFault(AuthFrames(in), DocId(in), DocHash(in))

(* _resolve_auth_payload *)
AuthResolves(in) ==
    \/ AuthFaultOf(in) = 0
    \/ in.unsigned /\ AuthFaultOf(in) \in Forgiven

AuthStatus(in) ==
    IF AuthFaultOf(in) = 0 THEN "verified" ELSE StatusWhenForgiven[AuthFaultOf(in)]

SignPub(in) ==
    IF AuthFaultOf(in) = 0 THEN (CHOOSE f \in AuthFrames(in) : TRUE).data.pub ELSE NONE

(* _inspect_auth_payload: the same tests; the faults it reports as blocking issues *)
InspectedAuthBlocked(in) ==
    CASE AuthFaultOf(in) = 0 -> FALSE
      [] AuthFaultOf(in) \in {2, 4} -> TRUE
      [] OTHER -> ~in.unsigned

InspectedAuthStatus(in) ==
    CASE AuthFaultOf(in) = 0 -> "verified"
      [] AuthFaultOf(in) = 1 -> IF in.unsigned THEN "skipped" ELSE "missing"
      [] AuthFaultOf(in) = 3 -> IF in.unsigned THEN "ignored" ELSE "invalid"
      [] AuthFaultOf(in) \in {2, 4, 5} -> "invalid"
      [] OTHER -> "ignored"

-----------------------------------------------------------------------------
(* Shards: _validated_shard_payloads_from_frames. *)

Payloads(F) == {f.data : f \in F}

ShardFrameFits(f, doc, hash, unsigned, type) ==
    /\ f.type = "key" /\ SingleFrame(f) /\ f.doc = doc
    /\ f.data # NONE
    /\ f.data.header.type = type /\ f.data.header.hash = hash
    /\ ~unsigned => Signed(f.data)

\* Everything but the count: an under-quorum set is told apart from an invalid one.
ShardsFit(F, doc, hash, pub, unsigned, type) ==
    /\ F # {}
    /\ \A f \in F : ShardFrameFits(f, doc, hash, unsigned, type)
    /\ pub # NONE => \A f \in F : f.data.header.pub = pub
    /\ Distinct(Payloads(F)) /\ Consistent(Payloads(F), FALSE)

Quorate(F) == Cardinality(Payloads(F)) >= HeaderOf(Payloads(F)).threshold

-----------------------------------------------------------------------------
(* The passphrase: _resolve_passphrase and _inspect_unlock_status. *)

Acceptable(passphrase) == ChecksumHolds(Normal(passphrase))

PassphraseShardsFit(in) ==
    ShardsFit(in.shards, DocId(in), DocHash(in), SignPub(in), in.unsigned, "passphrase")

ShardsUnlock(in) ==
    PassphraseShardsFit(in) /\ Quorate(in.shards) /\ Secret(Payloads(in.shards)) \in Text

Unlocks(in) ==
    \/ /\ in.shards = {} /\ in.passphrase # NONE
       /\ Acceptable(in.passphrase)
    \/ /\ in.shards # {} /\ in.passphrase = NONE
       /\ ShardsUnlock(in) /\ Acceptable(Secret(Payloads(in.shards)))

Passphrase(in) ==
    Normal(IF in.shards = {} THEN in.passphrase ELSE Secret(Payloads(in.shards)))

\* The inspection reports these and goes on ...
UnlockBlocked(in) ==
    IF in.shards = {} THEN in.passphrase = NONE \/ ~Acceptable(in.passphrase)
    ELSE \/ ~PassphraseShardsFit(in)
         \/ ~Quorate(in.shards)
         \/ ~Acceptable(Secret(Payloads(in.shards)))

\* ... but raises on both kinds of key material, and on shards that validate and yield no text.
InspectionRaises(in) ==
    \/ ~Loads(in)
    \/ in.shards # {} /\ in.passphrase # NONE
    \/ in.shards # {} /\ PassphraseShardsFit(in) /\ Quorate(in.shards) /\ ~ShardsUnlock(in)

-----------------------------------------------------------------------------
(* build_recovery_plan and inspect_recovery_inputs *)

Plannable(in) == Loads(in) /\ AuthResolves(in) /\ Unlocks(in)

Plan(in) == [ciphertext |-> Ciphertext(in), status |-> AuthStatus(in), pub |-> SignPub(in),
             passphrase |-> Passphrase(in)]

InspectedReady(in) ==
    ~InspectionRaises(in) /\ ~InspectedAuthBlocked(in) /\ ~UnlockBlocked(in)
=============================================================================
