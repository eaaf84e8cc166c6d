--------------------------- MODULE MCCommandLine ---------------------------
(***************************************************************************)
(* Command lines for CommandLine, in families that vary one concern each.  *)
(***************************************************************************)
EXTENDS CommandLine

\* A run that meets no difficulty.
Plain ==
  [front |-> "api", command |-> "backup", help |-> FALSE, tty |-> TRUE, init |-> FALSE,
   onboard |-> FALSE, explicit |-> Unset, parses |-> TRUE, found |-> "good",
   opts |-> [input |-> TRUE], saved |-> [dir |-> Unset, output |-> Unset], onboarded |-> Unset, configPaper |-> "A4",
   kitIndex |-> TRUE, backup |-> [key |-> TRUE, auth |-> TRUE],
   shards |-> [t |-> 2, n |-> 3, have |-> {1, 2}],
   keyShards |-> [t |-> 1, n |-> 2, have |-> {2}], files |-> 2]

BackupOpts ==
  [input |-> TRUE, sealed |-> FALSE, t |-> Unset, n |-> Unset, mode |-> Unset, st |-> Unset,
   sn |-> Unset, pass |-> Unset, words |-> Unset, chunk |-> Unset, paper |-> Unset, dir |-> "given",
   quick |-> FALSE]

MintOpts ==
  [input |-> TRUE, p |-> TRUE, s |-> TRUE, t |-> Unset, n |-> Unset, st |-> Unset, sn |-> Unset,
   rp |-> Unset, rs |-> Unset, pass |-> Unset, shards |-> "files", keys |-> FALSE, paper |-> Unset,
   dir |-> "given"]

RecoverOpts == [output |-> "given", input |-> TRUE]

OptsOf(command) ==
  CASE command = "backup" -> BackupOpts
    [] command \in {"mint", "inspect_mint"} -> [MintOpts EXCEPT !.t = 1, !.n = 2]
    [] OTHER -> RecoverOpts

ApiCommands == {"backup", "mint", "recover", "inspect_recover", "inspect_mint", "config_get", "config_set"}
CliCommands == {"backup", "mint", "recover", "kit"}

\* Every way to start: front, command, terminal, flags and the configuration that is found.
Starting ==
  { [Plain EXCEPT !.front = f, !.command = c, !.opts = OptsOf(c), !.help = h, !.tty = tty,
       !.init = init, !.onboard = tty /\ f = "home", !.explicit = e, !.parses = p, !.found = found] :
    f \in {"api", "cli", "home"}, c \in ApiCommands \cup CliCommands, h \in BOOLEAN, tty \in BOOLEAN,
    init \in BOOLEAN, e \in {Unset, "good", "broken"}, p \in BOOLEAN, found \in {"absent", "good", "broken"} }

Sensible(a) == /\ a.front = "api" => a.command \in ApiCommands /\ ~a.init
               /\ a.front # "api" => a.command \in CliCommands
               /\ a.front = "home" => ~a.help /\ a.parses /\ a.command # "kit"

\* Counts from none to above the limit, both modes, sealed or not, as the API gives them.
BackupAsked ==
  { [Plain EXCEPT !.opts = [BackupOpts EXCEPT !.sealed = s, !.t = t, !.n = n, !.mode = m, !.st = st, !.sn = sn]] :
    s \in BOOLEAN, t \in {Unset, 0, 2, 4, Text}, n \in {Unset, 1, 3, 4}, m \in {Unset, "sharded", "other"},
    st \in {Unset, 0, 1}, sn \in {Unset, 2, 4} }

\* Passphrases, word counts and chunk sizes that are refused, and a missing input.
BackupOdd ==
  { [Plain EXCEPT !.front = f, !.tty = FALSE,
       !.opts = [BackupOpts EXCEPT !.input = i, !.pass = p, !.words = w, !.chunk = c, !.paper = "Letter"]] :
    f \in {"api", "cli"}, i \in BOOLEAN, p \in {Unset, "given", "both", "empty"}, w \in {Unset, "bad"},
    c \in {Unset, "bad"} }

SavedQuorums == { [t |-> t, n |-> n, mode |-> m, st |-> st, sn |-> sn, dir |-> d, output |-> Unset] :
    t \in {Unset, 1, 3}, n \in {Unset, 2}, m \in {Unset, "sharded"}, st \in {Unset, 1, 2}, sn \in {Unset, 1},
    d \in {Unset, "saved"} }

\* Settings saved earlier under options given now; a saved pair may be half or not a quorum.
BackupDefaults ==
  { [Plain EXCEPT !.front = f, !.saved = saved,
       !.opts = [BackupOpts EXCEPT !.t = q[1], !.n = q[2], !.mode = m, !.dir = d]] :
    f \in {"api", "cli"}, saved \in SavedQuorums, q \in {<<Unset, Unset>>, <<2, 3>>, <<1, Unset>>},
    m \in {Unset, "embedded"}, d \in {Unset, "given"} }

Saves(t, n, mode, st, sn) == [t |-> t, n |-> n, mode |-> mode, st |-> st, sn |-> sn, dir |-> Unset, output |-> Unset]

\* Settings that are whole, upside down, half, or ask for a signing key split that way.
SavedAtFirstRun == { Saves(1, 2, "sharded", 2, 3), Saves(3, 2, Unset, Unset, Unset), Saves(1, Unset, Unset, Unset, Unset),
                     Saves(2, 2, "sharded", 2, 1), Saves(1, 2, "sharded", 1, Unset), Saves(1, 2, Unset, Unset, Unset) }

\* The guided backup.
BackupGuided ==
  { [Plain EXCEPT !.front = "home", !.saved = saved, !.onboarded = "sharding", !.kitIndex = FALSE,
       !.opts = [BackupOpts EXCEPT !.input = FALSE, !.sealed = s, !.dir = Unset]] :
    saved \in SavedAtFirstRun, s \in BOOLEAN }
  \cup
  { [Plain EXCEPT !.front = "cli", !.onboarded = o,
       !.opts = [BackupOpts EXCEPT !.input = FALSE, !.pass = p, !.words = w, !.t = 2, !.paper = "A4"]] :
    o \in {"page_size", "output"}, p \in {Unset, "given", "both"}, w \in {Unset, "bad"} }

Hands == { [t |-> 2, n |-> 3, have |-> h] : h \in {{}, {3}, {1, 3}, {1, 2, 3}} }
KeyHands == { [t |-> 1, n |-> 2, have |-> h] : h \in {{}, {2}} } \cup {[t |-> 2, n |-> 3, have |-> {1}]}

\* Minting from options.
MintAsked ==
  { [Plain EXCEPT !.command = "mint", !.shards = hand, !.keyShards = keyHand, !.backup = [key |-> key, auth |-> TRUE],
       !.opts = [MintOpts EXCEPT !.p = p, !.s = s, !.t = q[1], !.n = q[2], !.rp = rp, !.rs = rs, !.keys = keys,
                                 !.pass = pass]] :
    hand \in Hands, keyHand \in KeyHands, key \in BOOLEAN, p \in BOOLEAN, s \in BOOLEAN,
    q \in {<<Unset, Unset>>, <<2, 2>>, <<1, 4>>, <<Unset, 2>>}, rp \in {Unset, 0, 1, 2}, rs \in {Unset, 1, 2},
    keys \in BOOLEAN, pass \in {Unset, "given"} }

MintOdd ==
  { [Plain EXCEPT !.command = "mint", !.backup = [key |-> TRUE, auth |-> auth],
       !.opts = [MintOpts EXCEPT !.t = t, !.n = 2, !.st = st, !.sn = 2, !.shards = shards, !.rp = rp, !.input = i]] :
    auth \in BOOLEAN, t \in {1, Text}, st \in {Unset, 1, 3}, shards \in {Unset, "files", "scan"}, rp \in {Unset, 1},
    i \in BOOLEAN }

\* Minting from answers.
MintGuided ==
  { [Plain EXCEPT !.front = f, !.command = "mint", !.shards = hand, !.keyShards = keyHand,
       !.backup = [key |-> key, auth |-> TRUE],
       !.opts = [MintOpts EXCEPT !.input = FALSE, !.t = q[1], !.n = q[2], !.rp = rp, !.rs = rs, !.shards = Unset]] :
    f \in {"cli", "home"}, hand \in Hands, keyHand \in KeyHands, key \in BOOLEAN, q \in {<<Unset, Unset>>, <<2, 3>>},
    rp \in {Unset, 1}, rs \in {Unset, 1} }

Recovering ==
  { [Plain EXCEPT !.front = f, !.command = "recover", !.files = k, !.saved.output = saved,
       !.opts = [RecoverOpts EXCEPT !.output = o]] :
    f \in {"api", "cli"}, k \in 1..2, saved \in {Unset, "saved"}, o \in {Unset, "given"} }
  \cup { [Plain EXCEPT !.command = "config_set", !.opts = [RecoverOpts EXCEPT !.input = FALSE]] }

MCInvocations ==
  { a \in Starting : Sensible(a) } \cup BackupAsked \cup BackupOdd \cup BackupDefaults \cup BackupGuided
    \cup MintAsked \cup MintOdd \cup MintGuided \cup Recovering
=============================================================================
