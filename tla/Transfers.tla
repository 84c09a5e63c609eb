------------------------------ MODULE Transfers ------------------------------
(***************************************************************************)
(* What the client sends for an upload or a download: its headers, from    *)
(* the options (file/data.rs, file/chunk.rs, file/bzz.rs), and for the     *)
(* directory of upload_collection the entries of the archive, read file by *)
(* file while others write, create and remove them.                        *)
(*                                                                         *)
(* The walk gets the names of a directory in any order; of a file that     *)
(* comes or goes meanwhile it may or may not get the name.  A file is      *)
(* opened after its name and type were read, and is written as a whole.    *)
(* Paths are numbers, in the order of the paths, directories resolved.     *)
(***************************************************************************)
EXTENDS Options

CONSTANTS
  FilePath,   \* paths in the directory
  Unpackable, \* those among them that do not fit an archive's header
  Content,    \* contents of a file
  LINK,       \* a symbolic link, or another special file
  Transfer,   \* the transfers that are made: a kind with its options
  WRITES      \* bound: changes to the directory

\* The options have their types, for which nought is not None.
UploadOptions(o) ==
  {o.pin, o.encrypt, o.deferred, o.act} \subseteq BOOLEAN \cup {None} /\ o.tag \in Nat

DownloadOptions(o) == o.fallback \in BOOLEAN \cup {None}

ASSUME TransfersAssumption ==
  /\ FilePath \subseteq Nat /\ Unpackable \subseteq FilePath /\ WRITES \in Nat
  /\ None \notin BOOLEAN \cup Nat \cup Content /\ LINK \notin Content
  /\ \A t \in Transfer :
       \/ t.kind \in {"chunk", "data", "file", "collection"} /\ UploadOptions(t.options)
       \/ t.kind = "download" /\ DownloadOptions(t.options)

VARIABLES
  transfer, \* what is transferred, with its options
  step,     \* "walk", "open", "tell", "pack", then "sent" or "refused"
  files,    \* what is at each path; None is nothing
  was,      \* what has been at each path since the walk began
  listed,   \* the paths the walk has come to
  opening,  \* the file it is about to open
  entries,  \* what it has read
  told,     \* the paths the progress callback was given
  sent,     \* the headers of the request
  writes    \* changes so far

transferVars == <<transfer, step, files, was, listed, opening, entries, told, sent, writes>>

Collections == transfer.kind = "collection"

TransferInit ==
  /\ transfer \in Transfer
  /\ step = IF Collections THEN "walk" ELSE "pack"
  /\ files \in IF Collections THEN [FilePath -> Content \cup {None, LINK}]
               ELSE {[p \in FilePath |-> None]}
  /\ was = [p \in FilePath |-> {files[p]}]
  /\ listed = {} /\ opening = None
  /\ entries = <<>> /\ told = <<>> /\ sent = <<>> /\ writes = 0

-----------------------------------------------------------------------------
(* The directory.                                                          *)

Rewritten ==
  /\ step \in {"walk", "open"} /\ writes < WRITES
  /\ \E p \in FilePath, c \in Content \cup {None, LINK} :
       /\ c # files[p]
       /\ files' = [files EXCEPT ![p] = c]
       /\ was' = [was EXCEPT ![p] = @ \cup {c}]
  /\ writes' = writes + 1
  /\ UNCHANGED <<transfer, step, listed, opening, entries, told, sent>>

-----------------------------------------------------------------------------
(* upload_collection: the directory is walked, ...                         *)

Unchanged == UNCHANGED <<transfer, files, was, writes>>

WalkLists(p) ==
  /\ step = "walk" /\ p \notin listed /\ files[p] # None
  /\ listed' = listed \cup {p}
  /\ IF files[p] = LINK THEN UNCHANGED <<step, opening>>
                        ELSE step' = "open" /\ opening' = p
  /\ Unchanged /\ UNCHANGED <<entries, told, sent>>

\* Opening follows a link that took the place of the file, and reads another.
WalkOpens ==
  /\ step = "open"
  /\ \/ /\ files[opening] = None
        /\ step' = "refused" /\ UNCHANGED entries
     \/ /\ files[opening] # None
        /\ step' = "walk"
        /\ \E c \in IF files[opening] = LINK THEN Content ELSE {files[opening]} :
             entries' = Append(entries, [path |-> opening, data |-> c])
  /\ opening' = None
  /\ Unchanged /\ UNCHANGED <<listed, told, sent>>

\* Mutant: the entries stay in the order of the directory.
WalkEndsUnsorted ==
  /\ step = "walk"
  /\ \A p \in FilePath : p \in listed \/ None \in was[p]
  /\ step' = "tell"
  /\ Unchanged /\ UNCHANGED <<listed, opening, entries, told, sent>>

\* Entries in the order of their paths.
Sorted(found) ==
  CHOOSE s \in [1..Cardinality(found) -> found] :
    \A i, j \in 1..Cardinality(found) : i < j => s[i].path < s[j].path

\* ... and ends with every name that was there all the time.
WalkEnds ==
  /\ step = "walk"
  /\ \A p \in FilePath : p \in listed \/ None \in was[p]
  /\ step' = "tell"
  /\ entries' = Sorted(Range(entries))
  /\ Unchanged /\ UNCHANGED <<listed, opening, told, sent>>

\* The callback is given every entry before anything is packed.
Tells ==
  /\ step = "tell"
  /\ IF Len(told) = Len(entries) THEN step' = "pack" /\ UNCHANGED told
     ELSE told' = Append(told, entries[Len(told) + 1].path) /\ UNCHANGED step
  /\ Unchanged /\ UNCHANGED <<listed, opening, entries, sent>>

-----------------------------------------------------------------------------
(* ... packed and sent; other transfers begin here.                        *)

\* The type of upload_file comes from the options, else from the argument; the
\* header of the options is sent beside it.
FileType(o) == CASE o.content_type # None -> o.content_type
                 [] o.content_type = None /\ o.argument # None -> o.argument
                 [] OTHER -> "application/octet-stream"

OctetStream == Header("Content-Type", "application/octet-stream")

UploadChunk(o) == OctetStream \o PrepareUpload(o)
UploadData(o)  == OctetStream \o PrepareRedundant(o)
UploadFile(o)  == Header("Content-Type", FileType(o)) \o PrepareFile(o)
DownloadData(o) == PrepareDownload(o)

UploadCollectionEntries(o) ==
  Header("Content-Type", "application/x-tar") \o Header("Swarm-Collection", TRUE)
    \o PrepareCollection(o)

Headers ==
  LET o == transfer.options
  IN  CASE transfer.kind = "chunk"      -> UploadChunk(o)
        [] transfer.kind = "data"       -> UploadData(o)
        [] transfer.kind = "file"       -> UploadFile(o)
        [] transfer.kind = "collection" -> UploadCollectionEntries(o)
        [] transfer.kind = "download"   -> DownloadData(o)

Packs == \A i \in DOMAIN entries : entries[i].path \notin Unpackable

\* What is no header value makes the request fail before it is sent.
Buildable(headers) == \A i \in DOMAIN headers : Safe(headers[i][2])

Sends ==
  /\ step = "pack"
  /\ IF (Collections => Packs /\ ValidCollection(transfer.options)) /\ Buildable(Headers)
     THEN step' = "sent" /\ sent' = Headers
     ELSE step' = "refused" /\ UNCHANGED sent
  /\ Unchanged /\ UNCHANGED <<listed, opening, entries, told>>

TransferNext ==
  \/ Rewritten \/ (\E p \in FilePath : WalkLists(p)) \/ WalkOpens \/ WalkEnds \/ Tells \/ Sends

TransferSpec == TransferInit /\ [][TransferNext]_transferVars

-----------------------------------------------------------------------------
(* Correctness.                                                            *)

Unset(v) == v \in {None, 0}

\* What the node does, by the headers it reads, is what the options mean, with its
\* own defaults where they say nothing: it defers, and falls back, unless told not to.
UploadMeant ==
  LET o == transfer.options
      Sent(name, default) == ReadAs(sent, name, default)
  IN  /\ Sent("Swarm-Pin", FALSE) = (o.pin = TRUE)
      /\ Sent("Swarm-Encrypt", FALSE) = (o.encrypt = TRUE)
      /\ Sent("Swarm-Act", FALSE) = (o.act = TRUE)
      /\ Sent("Swarm-Deferred-Upload", TRUE) = (o.deferred # FALSE)
      /\ Sent("Swarm-Tag", 0) = o.tag
      /\ Sent("Swarm-Act-History-Address", None) = o.act_history_address
      /\ Sent("Swarm-Redundancy-Level", 0) =
           IF transfer.kind = "chunk" \/ Unset(o.redundancy_level) THEN 0 ELSE o.redundancy_level
      /\ Sent("Content-Type", None) =
           CASE transfer.kind = "file" -> FileType(o)
             [] Collections -> "application/x-tar"
             [] OTHER -> "application/octet-stream"
      /\ Collections => /\ Sent("Swarm-Index-Document", None) = o.index_document
                        /\ Sent("Swarm-Error-Document", None) = o.error_document

DownloadMeant ==
  LET o == transfer.options
      Sent(name, default) == ReadAs(sent, name, default)
  IN  /\ Sent("Swarm-Redundancy-Strategy", None) = o.redundancy_strategy
      /\ Sent("Swarm-Redundancy-Fallback-Mode", TRUE) = (o.fallback # FALSE)
      /\ Sent("Swarm-Chunk-Retrieval-Timeout", 0) = IF Unset(o.timeout_ms) THEN 0 ELSE o.timeout_ms
      /\ Sent("Swarm-Act", FALSE) <=>
           \/ o.act_publisher # None /\ Safe(o.act_publisher)
           \/ o.act_history_address # None \/ ~Unset(o.act_timestamp)

\* The archive: of every path one entry at most, in order, with a content that the
\* file had at some moment of the walk (or of what a link in its place leads to);
\* an entry of every file that was there all the time, and none of what was never a
\* file; and the callback was given just these.
ArchiveTrue ==
  /\ \A i, j \in DOMAIN entries : i < j => entries[i].path < entries[j].path
  /\ \A i \in DOMAIN entries :
       entries[i].data \in was[entries[i].path] \/ LINK \in was[entries[i].path]
  /\ \A p \in FilePath : was[p] \subseteq Content => \E i \in DOMAIN entries : entries[i].path = p
  /\ told = [i \in DOMAIN entries |-> entries[i].path]

\* What is sent says what is meant: no header has two values for the node to choose
\* from, each option has the effect on the node that it names, and a collection is
\* the files of its directory, although they change while they are read.
SentIsMeant ==
  step = "sent" =>
    /\ \A i \in DOMAIN sent : Cardinality(Values(sent, sent[i][1])) = 1
    /\ IF transfer.kind = "download" THEN DownloadMeant ELSE UploadMeant
    /\ Collections => ArchiveTrue
=============================================================================
