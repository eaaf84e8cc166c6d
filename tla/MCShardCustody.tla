--------------------------- MODULE MCShardCustody ---------------------------
(***************************************************************************)
(* Instances of ShardCustody: secrets and shares of a field of five, one   *)
(* backup of one frame under passphrase 3 and seed 2.                      *)
(***************************************************************************)
EXTENDS ShardCustody, ShamirField

CONSTANTS chunk

MCValues == Field
MCPublicKey(k) == <<"pub", k>>
MCHash(text) == <<"blake2b", text>>
MCDocOf(h) == "d1"
MCTooLarge(text) == FALSE
MCText == Field
MCNormal(v) == v
MCChecksumHolds(v) == TRUE

Ciphertext1 == [i \in 0..0 |-> chunk]
MCBox ==
    {[type |-> "main", doc |-> "d1", index |-> 0, total |-> 1, data |-> chunk],
     [type |-> "auth", doc |-> "d1", index |-> 0, total |-> 1,
      data |-> [hash |-> MCHash(Ciphertext1), pub |-> MCPublicKey(2), genuine |-> TRUE]]}

Papers(F) == {[type |-> "key", doc |-> "d1", index |-> 0, total |-> 1, data |-> p] : p \in F}
NewSet(secret, type, draw, seed) ==
    Papers(Split(secret, type, 2, 3, draw, MCHash(Ciphertext1), seed))
Of(F, I) == {f \in F : f.data.index \in I}
AsLegacy(F) ==
    {[f EXCEPT !.data = [@ EXCEPT !.header = [@ EXCEPT !.version = LEGACY_SHARD_VERSION,
                                                       !.set = NONE]]] : f \in F}

\* Issued with the backup: passphrase shards and, for a sealed one, shards of its seed.
Modern == NewSet(3, "passphrase", 1, 2) \cup NewSet(2, "signing-seed", 1, 2)

\* Left of two legacy splittings of each secret, some of either.
Legacy ==
    AsLegacy(Of(NewSet(3, "passphrase", 1, 2), {1, 3}) \cup Of(NewSet(3, "passphrase", 2, 2), {2}))
      \cup AsLegacy(Of(NewSet(2, "signing-seed", 1, 2), {1, 3})
                      \cup Of(NewSet(2, "signing-seed", 2, 2), {2}))

\* Another backup's shards, beside two of each set of this one.
Drawer ==
    Of(Modern, {1, 2}) \cup Of(NewSet(4, "passphrase", 1, 1) \cup NewSet(1, "signing-seed", 1, 1), {1, 3})

MCIssued == {Modern, Legacy, Drawer}
Pairs == {<<2, 3>>}
=============================================================================
