----------------------------- MODULE CommandRun -----------------------------
(***************************************************************************)
(* One run of the `ethernity` program: what it was asked, how far it is,   *)
(* what it wrote to stdout and what it left on disk.  The commands are     *)
(* BackupCommand, MintCommand and the scripts of CommandLine; this module  *)
(* holds what they share: the state, the event stream of the API and what  *)
(* becomes of an exception.                                                *)
(***************************************************************************)
EXTENDS Integers, Sequences, FiniteSets

CONSTANTS
  Unset,       \* Python's None
  Text,        \* an option's value that is no number
  MaxShards    \* the largest share count (255 in the code)

\* What an option can say besides a number or a flag.
Names == {"embedded", "sharded", "other", "given", "generate", "both", "empty", "good", "bad", "A4", "Letter",
          "files", "scan", "saved", "typed", "stdout"}

ASSUME UnsetAssumption ==
  /\ Unset \notin Int \cup Names \cup [t : Int, n : Int]
  /\ Text \notin Int \cup {Unset}
ASSUME MaxShardsAssumption == MaxShards \in Nat

VARIABLES
  ask,       \* the command line and the world it meets; never changes
  at,        \* the next step of the program
  args,      \* the options of the command, merged with the saved defaults
  plan,      \* what the command has resolved to do
  review,    \* what a wizard showed before it asked to proceed
  stream,    \* the events written to stdout, oldest first
  papers,    \* the files written to the staging directory, oldest first
  outputs,   \* the files published
  config,    \* the user's configuration file: "absent", "good" or "broken"
  status     \* the exit code

vars == <<ask, at, args, plan, review, stream, papers, outputs, config, status>>

Running == -1
Api == ask.front = "api"

Go(step) == at' = step
Keep(var) == UNCHANGED var

(***************************************************************************)
(* Events.                                                                 *)
(***************************************************************************)
Started == [type |-> "started", command |-> ask.command]
Phase(p) == [type |-> "phase", phase |-> p]
Progress(p, done, total) == [type |-> "progress", phase |-> p, done |-> done, total |-> total]
Warning(code) == [type |-> "warning", code |-> code]
Artifact(file) == [type |-> "artifact", file |-> file]
Result(about) == [type |-> "result", about |-> about]
ErrorEvent(code) == [type |-> "error", code |-> code]

\* Outside the API no sink is active and an event goes nowhere.
Emit(events) == stream' = IF Api THEN stream \o events ELSE stream

(***************************************************************************)
(* The end of a command.                                                   *)
(***************************************************************************)
Exits(code) == /\ status' = code
               /\ Go("done")

\* An exception that reaches _run_cli or _run_ndjson_command.
Raises(code) == /\ Emit(<<ErrorEvent(code)>>)
                /\ Exits(2)

\* A KeyboardInterrupt that reaches them.
Cancels == /\ Emit(<<ErrorEvent("CANCELLED")>>)
           /\ Exits(130)

\* What a command returns: a wizard the user declined returns 1.
Returns(code) == /\ Exits(code)
                 /\ UNCHANGED stream

\* A step that reports events and goes on.
Works(from, to, events) ==
  /\ at = from
  /\ Emit(events)
  /\ Go(to)
  /\ UNCHANGED <<ask, args, plan, review, papers, outputs, config, status>>
=============================================================================
