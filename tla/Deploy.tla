------------------------------- MODULE Deploy -------------------------------
(***************************************************************************)
(* swarm-deploy: sites published through a feed, with a local history to   *)
(* roll back to; swarm-blog: the same without a history.                   *)
(***************************************************************************)
EXTENDS StateFile

CONSTANTS Site  \* contents of a directory, or of a blog's posts

DeployInit(c) ==
  /\ file = Absent
  /\ Begin(c, [at |-> "manifest", cmd |-> "init", st |-> <<>>])

DeployManifest(c) ==
  /\ job[c].at = "manifest"
  /\ Request(c, node, [job[c] EXCEPT !.at = "save"])

\* cmd_push: upload_collection, then the feed.
Push(c, site) ==
  /\ Loads
  /\ Begin(c, [at |-> "collection", cmd |-> "push", site |-> site, st |-> file])

Collection(c) ==
  /\ job[c].at = "collection"
  /\ Upload(c, job[c].site, [job[c] EXCEPT !.at = "feed"])

\* cmd_rollback: the reference comes out of the history; the feed alone is updated.
Rollback(c, i) ==
  /\ Loads /\ i \in DOMAIN file
  /\ Begin(c, [at |-> "feed", cmd |-> "rollback", site |-> file[i], st |-> file])

\* Mutant: an error of the feed update is overlooked.
RowAnyway(c) ==
  /\ job[c].at = "feed" /\ job[c].cmd # "publish"
  /\ \/ UpdateFeed(c, job[c].site, [job[c] EXCEPT !.at = "save", !.st = Append(@, job[c].site)])
     \/ Request(c, node, [job[c] EXCEPT !.at = "save", !.st = Append(@, job[c].site)])

\* The row of the history is added once the feed points at the site.
DeployFeed(c) ==
  /\ job[c].at = "feed"
  /\ UpdateFeed(c, job[c].site,
       IF job[c].cmd = "publish" THEN Idle
       ELSE [job[c] EXCEPT !.at = "save", !.st = Append(@, job[c].site)])

Deployed(j, rows) == IF j.cmd = "init" THEN <<>> ELSE Append(rows, j.site)

\* swarm-blog publishes the posts it finds and saves nothing.
BlogPublish(c, site) ==
  /\ Loads
  /\ Begin(c, [at |-> "collection", cmd |-> "publish", site |-> site, st |-> file])

DeployStep(c) ==
  /\ program \in {"deploy", "blog"}
  /\ \/ DeployInit(c) \/ DeployManifest(c) \/ Collection(c) \/ DeployFeed(c)
     \/ \E s \in Site : IF program = "blog" THEN BlogPublish(c, s) ELSE Push(c, s)
     \/ \E i \in 1..MaxCommands : program = "deploy" /\ Rollback(c, i)
     \/ Truncate(c) \/ Write(c, Deployed(job[c], kept)) \/ Stop(c)

\* Every row of the history was live, in that order: at any time, with overlapping
\* commands and after any failure, the history is part of the sequence of updates the
\* node stored (cmd_push and cmd_rollback add a row after the update), so that a
\* rollback returns to a version visitors have seen.
HistoryWasLive ==
  program = "deploy" /\ Loads =>
    \E shown \in [DOMAIN file -> DOMAIN node.feed] :
      /\ \A i, k \in DOMAIN file : i < k => shown[i] < shown[k]
      /\ \A i \in DOMAIN file : file[i] = node.feed[shown[i]]
=============================================================================
