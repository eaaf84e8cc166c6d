-------------------------- MODULE MCRecoverWizard --------------------------
(***************************************************************************)
(* Instances of RecoverWizard.  One backup: the chunks a, b of             *)
(* document d1, signed with seed k1, under passphrase 3, split 2 of 3.     *)
(***************************************************************************)
EXTENDS RecoverWizard, ShamirField

CONSTANTS a, b, c, x, y   \* chunks: model values, which no AUTH or shard payload equals

MCValues == Field
MCPublicKey(k) == <<"pub", k>>
MCHash(text) == <<"blake2b", text>>
Backup == [i \in 0..1 |-> IF i = 0 THEN a ELSE b]
MCDocOf(h) == IF h = MCHash(Backup) THEN "d1" ELSE "other"
MCTooLarge(text) == FALSE
\* 4 is no text; 2 looks like a mnemonic and its checksum is wrong; 1 is 3 with odd spacing.
MCText == Field \ {4}
MCNormal(v) == IF v = 1 THEN 3 ELSE v
MCChecksumHolds(v) == v # 2
MCKey(text) == IF text = Backup THEN 3 ELSE NONE

Main(d, i, n, chunk) == [type |-> "main", doc |-> d, index |-> i, total |-> n, data |-> chunk]
Auth(d, p) == [type |-> "auth", doc |-> d, index |-> 0, total |-> 1, data |-> p]
Vouches(k, ok) == [hash |-> MCHash(Backup), pub |-> MCPublicKey(k), genuine |-> ok]
A == Main("d1", 0, 2, a)
B == Main("d1", 1, 2, b)
GoodAuth == Auth("d1", Vouches("k1", TRUE))
MCGenuineFrames == {A, B, GoodAuth}

\* Beside the backup's frames: a copy cut into three, a damaged chunk, another backup's frame,
\* AUTH frames of another key, unreadable or of another document.
MCPastedFrames ==
    MCGenuineFrames \cup
    {Main("d1", 2, 3, c), Main("d1", 1, 2, x), Main("d2", 0, 1, y),
     Auth("d1", Vouches("k2", TRUE)), Auth("d1", NONE), Auth("d2", Vouches("k1", TRUE))}

MCBackupFiles ==
    {{A, B, GoodAuth}, {A, B}, {A, GoodAuth}, {A, Main("d1", 1, 2, x), GoodAuth},
     {A, B, GoodAuth, Auth("d2", Vouches("k1", TRUE))}, {A, B, Auth("d1", Vouches("k1", FALSE))}}

MCAuthFiles == {{GoodAuth}, {Auth("d1", Vouches("k2", TRUE))}, {Auth("d1", NONE)}}

ShardFrame(p) == [type |-> "key", doc |-> "d1", index |-> 0, total |-> 1, data |-> p]
SetOf(secret, type, draw, seed) ==
    {ShardFrame(p) : p \in Split(secret, type, 2, 3, draw, MCHash(Backup), seed)}
Of(F, I) == {f \in F : f.data.index \in I}
First == SetOf(3, "passphrase", 1, "k1")
Second == SetOf(3, "passphrase", 2, "k1")

\* A set that another backup's key made.
Foreign == SetOf(0, "passphrase", 1, "k2")
BadSignature == {[f EXCEPT !.data = [@ EXCEPT !.key = "k2"]] : f \in Of(First, {3})}

\* Version 1 shards name no set: those of two splittings of one passphrase mix.
AsLegacy(F) ==
    {[f EXCEPT !.data = [@ EXCEPT !.header = [@ EXCEPT !.version = LEGACY_SHARD_VERSION,
                                                       !.set = NONE]]] : f \in F}
LegacyMixed == AsLegacy(Of(First, {1}) \cup Of(Second, {2}))

MCShardFrames ==
    First \cup Of(Second, {1, 2}) \cup Of(Foreign, {1, 2}) \cup BadSignature
      \cup Of(SetOf(1, "signing-seed", 1, "k1"), {1})

MCShardFiles == {Of(First, {1, 2}), Of(First, {1}), LegacyMixed, First \cup BadSignature,
                 Of(Foreign, {1, 2}), AsLegacy(First)}
NoFiles == {}
NoFrames == {}
=============================================================================
