------------------------------ MODULE MCWire --------------------------------
(***************************************************************************)
(* The wire between client and node, in three parts of which one runs: a   *)
(* websocket session, an HTTP call with its answer, and the request of an  *)
(* upload or a download.                                                   *)
(*                                                                         *)
(* Answers as long as the cap and longer, framed anyhow; options unset,    *)
(* false, true and nought; a directory of three paths, one of them too     *)
(* long, that may be empty or full, with files replaced by links.          *)
(***************************************************************************)
EXTENDS ChunkStream, Http, Transfers, TLC

CONSTANTS c1, c2, bad, r1

VARIABLE part

wire == <<part, vars, httpVars, transferVars>>

Flag == {None, TRUE, FALSE}

AnyOptions ==
  [pin : Flag, encrypt : {None, TRUE}, tag : {0, 7}, deferred : Flag, act : Flag,
   act_history_address : {None, r1}, redundancy_level : {None, 0, 2}]

SomeOptions ==
  {o \in AnyOptions : /\ o.pin = TRUE /\ o.encrypt = None /\ o.act = None /\ o.tag = 7
                      /\ o.deferred = FALSE /\ o.act_history_address = None /\ o.redundancy_level = 2}

FileOptions == [content_type : {None, "text/html", bad}, argument : {None, "text/plain"}]

CollectionOptions ==
  {[index_document |-> None, error_document |-> "404.html"],
   [index_document |-> bad, error_document |-> None]}

AnyDownload ==
  [redundancy_strategy : {None, 0, 1}, fallback : Flag, timeout_ms : {None, 0, 5},
   act_publisher : {None, r1, bad}, act_history_address : {None, r1}, act_timestamp : {None, 0, 9}]

Transfers ==
  {[kind |-> k, options |-> o] : k \in {"data", "chunk"}, o \in AnyOptions}
    \cup {[kind |-> "file", options |-> f @@ o] : f \in FileOptions, o \in SomeOptions}
    \cup {[kind |-> "collection", options |-> c @@ o] : c \in CollectionOptions, o \in SomeOptions}
    \cup {[kind |-> "download", options |-> o] : o \in AnyDownload}

\* A call is about the pins, the data or the tag: the others are nothing then.
OneSubject ==
  \/ ~shelf.retrievable /\ shelf.tag = Nothing
  \/ shelf.pins = {} /\ (~shelf.retrievable \/ shelf.tag = Nothing)

\* The parts that do not run stay in some first state.
Idle ==
  /\ part # "http" => shelf = [pins |-> {}, retrievable |-> FALSE, tag |-> Nothing]
  /\ part # "transfer" =>
       /\ transfer = [kind |-> "data", options |-> CHOOSE o \in AnyOptions : TRUE]
       /\ files = [p \in FilePath |-> None]

WireInit ==
  /\ part \in {"session", "http", "transfer"}
  /\ Init /\ HttpInit /\ TransferInit
  /\ OneSubject /\ Idle

WireNext ==
  /\ UNCHANGED part
  /\ \/ part = "session"  /\ Next         /\ UNCHANGED <<httpVars, transferVars>>
     \/ part = "http"     /\ HttpNext     /\ UNCHANGED <<vars, transferVars>>
     \/ part = "transfer" /\ TransferNext /\ UNCHANGED <<vars, httpVars>>

WireSpec == WireInit /\ [][WireNext]_wire /\ WF_vars(CallStep) /\ WF_vars(NodeTakes)
=============================================================================
