------------------------------- MODULE Pinner -------------------------------
(***************************************************************************)
(* swarm-pinner: a loop of passes over a directory.  A pass loads the      *)
(* state, uploads and pins every file it has no entry for, checks all      *)
(* entries, and saves; an error ends the pass before it saves, and the     *)
(* next one begins again.                                                  *)
(***************************************************************************)
EXTENDS StateFile

CONSTANTS
  Path,      \* paths, as numbers in the order of the listing
  Content,   \* contents of files
  NoFile,    \* there is no file
  MaxErrors  \* bound: passes that meet an error

VARIABLE errors  \* of the passes so far

NoPins == [p \in {} |-> p]

Pinned(st) == DOMAIN st

\* The files listed, less those that have an entry.
New(st) == SetToSortSeq({p \in Path : dir[p] # NoFile /\ p \notin Pinned(st)}, <)

StartPass(c) ==
  LET st == LoadedOr(NoPins)
  IN  /\ job[c].at = "sleep"
      /\ Goto(c, [at |-> "upload", st |-> st, todo |-> New(st)])
      /\ UNCHANGED <<program, file, node, dir, commands, kept, trouble, errors>>

StartPinner(c) ==
  /\ Begin(c, [at |-> "sleep"])
  /\ UNCHANGED errors

\* The next new file is read and uploaded with pin set.
PinNext(c) ==
  LET j == job[c]
      p == Head(j.todo)
  IN  /\ j.at = "upload" /\ j.todo # <<>> /\ dir[p] # NoFile
      /\ node' = [node EXCEPT !.stored = @ \cup {dir[p]}]
      /\ Goto(c, [j EXCEPT !.todo = Tail(@),
                           !.st = Set(@, p, [of |-> dir[p], ok |-> TRUE])])
      /\ UNCHANGED <<program, file, dir, commands, kept, trouble, errors>>

\* A file that cannot be read any more, or a request that fails, carried out or not.
PassError(c) ==
  LET j == job[c]
  IN  /\ j.at = "upload" /\ j.todo # <<>>
      /\ \/ /\ dir[Head(j.todo)] = NoFile
            /\ UNCHANGED <<node, errors>>
         \/ /\ dir[Head(j.todo)] # NoFile /\ errors < MaxErrors
            /\ errors' = errors + 1
            /\ node' \in {node, [node EXCEPT !.stored = @ \cup {dir[Head(j.todo)]}]}
      /\ Goto(c, [at |-> "sleep"])
      /\ UNCHANGED <<program, file, dir, commands, kept, trouble>>

\* Mutant: an entry that is not found is dropped, to be uploaded anew.
RecheckDropping(c) ==
  LET j == job[c]
  IN  /\ j.at = "upload" /\ j.todo = <<>>
      /\ \E found \in SUBSET Pinned(j.st) :
           Goto(c, [at |-> "save", st |-> [p \in found |-> j.st[p]]])
      /\ UNCHANGED <<program, file, node, dir, commands, kept, trouble, errors>>

\* Phase 2: every entry is checked; the answer, or its failure, is noted.
Recheck(c) ==
  LET j == job[c]
  IN  /\ j.at = "upload" /\ j.todo = <<>>
      /\ \E found \in SUBSET Pinned(j.st) :
           Goto(c, [at |-> "save",
                    st |-> [p \in Pinned(j.st) |-> [j.st[p] EXCEPT !.ok = p \in found]]])
      /\ UNCHANGED <<program, file, node, dir, commands, kept, trouble, errors>>

PassSaves(c) ==
  \/ Truncate(c) /\ UNCHANGED errors
  \/ /\ job[c].at = "write"
     /\ file' = job[c].st
     /\ Goto(c, [at |-> "sleep"])
     /\ UNCHANGED <<program, node, dir, commands, kept, trouble, errors>>

\* The directory is the user's.
FileAppears(p, content) ==
  /\ dir[p] = NoFile /\ commands < MaxCommands
  /\ commands' = commands + 1
  /\ dir' = [dir EXCEPT ![p] = content]
  /\ UNCHANGED <<program, file, node, job, kept, trouble, errors>>

FileGoes(p) ==
  /\ dir[p] # NoFile /\ commands < MaxCommands
  /\ commands' = commands + 1
  /\ dir' = [dir EXCEPT ![p] = NoFile]
  /\ UNCHANGED <<program, file, node, job, kept, trouble, errors>>

Pass(c) == StartPass(c) \/ PinNext(c) \/ PassError(c) \/ Recheck(c) \/ PassSaves(c)

PinnerStep(c) ==
  /\ program = "pinner"
  /\ \/ StartPinner(c) \/ Pass(c) \/ (Stop(c) /\ UNCHANGED errors)
     \/ \E p \in Path : FileGoes(p) \/ \E x \in Content : FileAppears(p, x)

\* Unless the process ends, every file that stays is pinned and entered, although an
\* error throws away what its pass had uploaded, and files come and go.
AllGetPinned ==
  \A p \in Path :
    (program = "pinner" /\ dir[p] # NoFile)
      ~> \/ dir[p] = NoFile
         \/ \A c \in Proc : ~InCommand(c)
         \/ Loads /\ p \in Pinned(file)
=============================================================================
