----------------------------- MODULE StateFile -----------------------------
(***************************************************************************)
(* The command-line programs of examples/ have one shape: a command loads  *)
(* the program's state file, makes requests of the node one after another, *)
(* and saves the file.  Nothing locks the file, fs::write empties it       *)
(* before it writes, and a command may stop at every step: by an error, or *)
(* because it is killed.  This module has the file, the requests and the   *)
(* commands; the programs, each in a module of its own, say which steps    *)
(* their commands take.                                                    *)
(*                                                                         *)
(* kept and trouble are history: what the file should be by the commands   *)
(* that returned Ok, and what the programs do not guard against.           *)
(***************************************************************************)
EXTENDS Naturals, Sequences, FiniteSets, SequencesExt

CONSTANTS
  Program,     \* the programs to be checked; one runs in a behaviour
  Proc,        \* processes a user runs commands in
  Absent,      \* there is no state file
  Torn,        \* an emptied file, or part of one: it does not parse
  MaxCommands  \* bound: commands begun

VARIABLES
  program,   \* the program that is run
  file,      \* its state file
  node,      \* what the node holds: contents, grantee lists, and the feed's updates in
             \* the order they were stored (two at one index are a matter of Feeds)
  dir,       \* the files of a watched directory
  job,       \* the command each process is in: its next step, and its loaded state
  commands,  \* commands begun
  kept,      \* the file as the commands that returned Ok should have left it
  trouble    \* overlapping commands, a save cut short, a feed ahead of the file

vars == <<program, file, node, dir, job, commands, kept, trouble>>

Idle == [at |-> "idle"]

Goto(c, j) == job' = [job EXCEPT ![c] = j]

InCommand(c) == job[c].at # "idle"

\* A command loads the state st, and is then at its first step.
Begin(c, j) ==
  /\ ~InCommand(c) /\ commands < MaxCommands
  /\ commands' = commands + 1
  /\ Goto(c, j)
  /\ trouble' = IF \E d \in Proc : InCommand(d) THEN trouble \cup {"overlap"} ELSE trouble
  /\ UNCHANGED <<program, file, node, dir, kept>>

\* load: an error unless the file is there and parses; or, in other programs, the
\* default in its place.
Loads == file \notin {Absent, Torn}
LoadedOr(default) == IF Loads THEN file ELSE default

\* A map with one entry inserted.
Set(f, k, v) == [x \in DOMAIN f \cup {k} |-> IF x = k THEN v ELSE f[x]]

\* A request of the node that is carried out; its answer may be lost.
Request(c, held, j) ==
  /\ node' = held
  /\ Goto(c, j) \/ Goto(c, Idle)
  /\ UNCHANGED <<program, file, dir, commands, kept, trouble>>

Upload(c, content, j) == Request(c, [node EXCEPT !.stored = @ \cup {content}], j)

\* update_feed_with_reference; from here until the save the feed is ahead.
UpdateFeed(c, ref, j) ==
  /\ node' = [node EXCEPT !.feed = Append(@, ref)]
  /\ Goto(c, j) \/ Goto(c, Idle)
  /\ trouble' = trouble \cup {"ahead"}
  /\ UNCHANGED <<program, file, dir, commands, kept>>

\* save: fs::write empties the file, and then writes the new state.
Truncate(c) ==
  /\ job[c].at = "save"
  /\ file' = Torn
  /\ Goto(c, [job[c] EXCEPT !.at = "write"])
  /\ UNCHANGED <<program, node, dir, commands, kept, trouble>>

\* The commands ran one after another, and none was stopped while it wrote.
InTurn == trouble \cap {"overlap", "cut"} = {}

\* What counts is the change of the command to what was kept, not to what it loaded.
Write(c, change) ==
  /\ job[c].at = "write"
  /\ file' = job[c].st
  /\ kept' = IF InTurn THEN change ELSE kept
  /\ Goto(c, Idle)
  /\ trouble' = trouble \ {"ahead"}
  /\ UNCHANGED <<program, node, dir, commands>>

\* An error, before or after a request has had its effect, or the end of the process.
Stop(c) ==
  /\ InCommand(c)
  /\ Goto(c, Idle)
  /\ trouble' = IF job[c].at = "write" THEN trouble \cup {"cut"} ELSE trouble
  /\ UNCHANGED <<program, file, node, dir, commands, kept>>

\* A command that has returned Ok stays done, and one that has failed has done
\* nothing to the file, as long as commands run in turn.  A file that is missing is
\* as good as an empty one where the program takes the default for it.
OkCommandsKept == InTurn /\ (\A c \in Proc : job[c].at # "write") => file = kept
=============================================================================
