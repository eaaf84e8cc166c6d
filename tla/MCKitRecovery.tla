--------------------------- MODULE MCKitRecovery ---------------------------
(***************************************************************************)
(* Instances of KitRecovery.  One backup of two frames, "a" then "b", in   *)
(* document d1; its ciphertext opens with "pw".  Its secret was split 2 of *)
(* 3; a later re-split of the same passphrase reuses document and header.  *)
(***************************************************************************)
EXTENDS KitRecovery

CONSTANTS Codec, BackupLength

MCDocs == {"d1", "d2"}
MCChunks == {"a", "b", "c", "x"}
MCBackup == IF BackupLength = 1 THEN [i \in 0..0 |-> "a"]
            ELSE [i \in 0..1 |-> IF i = 0 THEN "a" ELSE "b"]
MCDigest(c) == <<"blake2b", c>>
MCHashes == {MCDigest(c) : c \in UNION {[0..(n - 1) -> MCChunks] : n \in 1..MaxTotal}}
MCOversized(c) == c[0] = "x"
\* A damaged copy ("c" for "a") opens but does not inflate.
MCContent(c) == [key |-> IF c[0] \in {"a", "c"} THEN "pw" ELSE NONE,
                 codec |-> IF c[0] = "c" THEN "broken gzip" ELSE Codec]

\* Shares of two splittings; a mixed pair interpolates to a wrong secret.
MCShares == {"p1", "p2", "q1", "q2"}
MCInterpolate(f) ==
    IF \/ \A i \in DOMAIN f : f[i] \in {"p1", "p2"}
       \/ \A i \in DOMAIN f : f[i] \in {"q1", "q2"}
    THEN "pw" ELSE "junk"

MCHeader == [threshold |-> 2, keyType |-> "passphrase", docHash |-> MCDigest(MCBackup)]
MCOtherHeader == [MCHeader EXCEPT !.docHash = MCDigest([i \in 0..0 |-> "x"])]
MCHeaders == {MCHeader, MCOtherHeader}

Main(d, i, c) == [type |-> "main", doc |-> d, total |-> BackupLength, index |-> i, data |-> c]
Auth(d, p) == [type |-> "auth", doc |-> d, payload |-> p]
Key(d, p) == [type |-> "key", doc |-> d, payload |-> p]
AuthPayload(s, ok) == [hash |-> MCDigest(MCBackup), signature |-> s, genuine |-> ok]
Share(h, i, v, s, ok) == [header |-> h, index |-> i, share |-> v, signature |-> s, genuine |-> ok]

MCSignatures == {"s1", "s2"}
GoodAuth == Auth("d1", AuthPayload("s1", TRUE))

\* The backup box: whole and partial backups, a contradicting frame, a frame of
\* another document, and AUTH frames that are genuine, forged or unreadable.
CollectPastes ==
    {<<>>, <<Main("d1", 0, "a"), Main("d1", 1, "b")>>, <<Main("d1", 1, "b"), GoodAuth>>,
     <<Main("d1", 0, "a")>>, <<Main("d1", 0, "x")>>, <<Main("d1", 0, "c")>>, <<GoodAuth>>, <<Main("d2", 1, "a")>>,
     <<Auth("d1", AuthPayload("s2", FALSE))>>, <<Auth("d1", NONE)>>}

\* The shard box: two good shares, one of a re-splitting, one with a wrong
\* signature, two of another backup, one that does not decode.
SharePastes ==
    {<<>>, <<Key("d1", Share(MCHeader, 1, "p1", "s1", TRUE))>>,
     <<Key("d1", Share(MCHeader, 2, "p2", "s1", TRUE))>>,
     <<Key("d1", Share(MCHeader, 2, "q2", "s2", FALSE))>>,
     <<Key("d1", Share(MCOtherHeader, 1, "p1", "s1", TRUE)),
       Key("d1", Share(MCOtherHeader, 2, "p2", "s1", TRUE))>>,
     <<Key("d2", NONE)>>}
WholeBackup == {<<Main("d1", 0, "a")>>, <<Main("d1", 0, "a"), GoodAuth>>}
NoPastes == {}
=============================================================================
