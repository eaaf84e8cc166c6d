----------------------------- MODULE ShardSets -----------------------------
(***************************************************************************)
(* The rules of shard documents (crypto/sharding.py): what a splitting     *)
(* issues, which collections are accepted as one set, what they recover,   *)
(* and which replacements can be minted from them.                         *)
(*                                                                         *)
(* A shard payload is its header (every field that all shards of one set   *)
(* share), its index, its share and its signature, which is modelled by    *)
(* the seed that made it: it verifies iff that seed's public key is the    *)
(* one in the header.  Ed25519 signatures are deterministic, so a payload  *)
(* signed twice is one payload.  Secrets and shares are values of one      *)
(* field; that a secret is cut into blocks that are split separately, and  *)
(* padded to the last one, is left out.                                    *)
(***************************************************************************)
EXTENDS Integers, FiniteSets

CONSTANTS
    NONE,
    MAX_SHARES,
    Values,            \* secrets and shares
    Draws,             \* what a splitting may draw: coefficients, and the set id with them
    ShareAt(_, _, _, _),  \* PyCryptodome's Shamir.split: (draw, secret, threshold, index)
    Interpolate(_, _), \* the value at x of the polynomial through some points
    PublicKey(_)       \* derive_public_key

LEGACY_SHARD_VERSION == 1
SHARD_VERSION == 2
KeyTypes == {"passphrase", "signing-seed"}

ASSUME ShardConstants ==
    /\ MAX_SHARES \in Nat \ {0}
    /\ NONE \notin Values /\ NONE \notin Draws
    /\ \A d \in Draws, s \in Values, t, i \in 1..MAX_SHARES : ShareAt(d, s, t, i) \in Values
    /\ \A Q \in SUBSET (1..MAX_SHARES) : \A f \in [Q -> Values], x \in 0..MAX_SHARES :
         Interpolate(f, x) \in Values

\* Shamir's scheme: threshold points of a splitting determine the rest, and the secret at 0.
ASSUME LagrangeExact ==
    \A d \in Draws, s \in Values, t \in 1..MAX_SHARES, Q \in SUBSET (1..MAX_SHARES) :
      Cardinality(Q) = t =>
        \A x \in 0..MAX_SHARES :
          Interpolate([i \in Q |-> ShareAt(d, s, t, i)], x)
            = IF x = 0 THEN s ELSE ShareAt(d, s, t, x)

(* decode_shard_payload, and the same rules before encoding *)
WellFormed(p) ==
    LET h == p.header IN
    /\ h.version \in {LEGACY_SHARD_VERSION, SHARD_VERSION}
    /\ h.type \in KeyTypes
    /\ h.count \in 1..MAX_SHARES /\ h.threshold \in 1..h.count
    /\ p.index \in 1..h.count /\ p.share \in Values
    /\ (h.set # NONE) = (h.version = SHARD_VERSION)

(* verify_shard *)
Signed(p) == PublicKey(p.key) = p.header.pub

-----------------------------------------------------------------------------
(* Collections. *)

Distinct(P) == \A p, q \in P : p.index = q.index => p = q

\* The n payloads of lowest index, and what they say as points of a polynomial.
Lowest(P, n) == {p \in P : Cardinality({q \in P : q.index <= p.index}) <= n}
Points(P) == [i \in {p.index : p \in P} |-> (CHOOSE p \in P : p.index = i).share]

HeaderOf(P) == (CHOOSE p \in P : TRUE).header
Source(P) == Points(Lowest(P, HeaderOf(P).threshold))

\* [mutant] A check that overlooks the set id.
ConsistentWithoutSetId(P, verify) ==
    /\ P # {}
    /\ \A p, q \in P : [p.header EXCEPT !.set = NONE] = [q.header EXCEPT !.set = NONE]
    /\ verify => \A p \in P : Signed(p)
    /\ Cardinality(P) > HeaderOf(P).threshold =>
         \A p \in P : Interpolate(Source(P), p.index) = p.share

(* validate_shard_set_consistency *)
Consistent(P, verify) ==
    /\ P # {}
    /\ \A p, q \in P : p.header = q.header
    /\ verify => \A p \in P : Signed(p)
    /\ Cardinality(P) > HeaderOf(P).threshold =>
         \A p \in P : Interpolate(Source(P), p.index) = p.share

(* _recover_secret: when it answers, and what *)
Recoverable(P, type, verify) ==
    /\ Consistent(P, verify) /\ Distinct(P)
    /\ HeaderOf(P).type = type
    /\ Cardinality(P) >= HeaderOf(P).threshold

Secret(P) == Interpolate(Source(P), 0)

-----------------------------------------------------------------------------
(* Issuing. *)

(* _split_secret *)
CanSplit(threshold, count) == 1 <= threshold /\ threshold <= count /\ count <= MAX_SHARES

Split(secret, type, threshold, count, draw, hash, seed) ==
    {[header |-> [version |-> SHARD_VERSION, type |-> type, threshold |-> threshold,
                  count |-> count, set |-> draw, hash |-> hash, pub |-> PublicKey(seed)],
      index |-> i, share |-> ShareAt(draw, secret, threshold, i), key |-> seed] : i \in 1..count}

MissingIndices(P) == (1..HeaderOf(P).count) \ {p.index : p \in P}

(* mint_replacement_shards: when it answers, and what *)
CanReplace(P, n, seed) ==
    /\ n >= 1
    /\ Consistent(P, TRUE) /\ Distinct(P)
    /\ Cardinality(P) >= HeaderOf(P).threshold
    /\ n <= Cardinality(MissingIndices(P))
    /\ PublicKey(seed) = HeaderOf(P).pub

ReplacedIndices(P, n) ==
    {i \in MissingIndices(P) : Cardinality({j \in MissingIndices(P) : j <= i}) <= n}

\* [mutant] The interpolation is asked for the position among the missing, not the index.
ReplacementsAtPosition(P, n, seed) ==
    {[header |-> HeaderOf(P), index |-> i, key |-> seed,
      share |-> Interpolate(Source(P), Cardinality({j \in ReplacedIndices(P, n) : j <= i}))]
       : i \in ReplacedIndices(P, n)}

Replacements(P, n, seed) ==
    {[header |-> HeaderOf(P), index |-> i, key |-> seed,
      share |-> Interpolate(Source(P), i)] : i \in ReplacedIndices(P, n)}
=============================================================================
