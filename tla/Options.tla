------------------------------- MODULE Options -------------------------------
(***************************************************************************)
(* How the options of an upload or a download become headers               *)
(* (api/options.rs), and what a node makes of them.  An option that is not *)
(* set is None; headers are pairs of a name and a value, in their order.   *)
(* The postage batch, which every upload names, is left out.               *)
(***************************************************************************)
EXTENDS Naturals, Sequences, FiniteSets, SequencesExt

CONSTANTS
  None,
  Forbidden  \* texts with a carriage return, a line feed or a NUL, and keys off the curve

Header(name, value) == <<<<name, value>>>>
Given(name, value)  == IF value = None THEN <<>> ELSE Header(name, value)

\* A tag, a redundancy level, a timeout or a time of 0 is not sent.
Positive(name, n) == IF n \in {None, 0} THEN <<>> ELSE Header(name, n)

Safe(text) == text \notin Forbidden

PushUploadOptions(o) ==
  Given("Swarm-Pin", o.pin) \o Given("Swarm-Encrypt", o.encrypt) \o Positive("Swarm-Tag", o.tag)
    \o Given("Swarm-Deferred-Upload", o.deferred) \o Given("Swarm-Act", o.act)
    \o Given("Swarm-Act-History-Address", o.act_history_address)

Redundancy(o) == Positive("Swarm-Redundancy-Level", o.redundancy_level)

PrepareUpload(o)    == PushUploadOptions(o)
PrepareRedundant(o) == PrepareUpload(o) \o Redundancy(o)
PrepareFile(o)      == PrepareUpload(o) \o Given("Content-Type", o.content_type) \o Redundancy(o)

SafeText(name, text) == IF text # None /\ Safe(text) THEN Header(name, text) ELSE <<>>

PrepareCollection(o) ==
  PrepareUpload(o) \o SafeText("Swarm-Index-Document", o.index_document)
    \o SafeText("Swarm-Error-Document", o.error_document) \o Redundancy(o)

ValidCollection(o) == Safe(o.index_document) /\ Safe(o.error_document)

\* A key off the curve has no short form to send.
PrepareDownload(o) ==
  LET act == SafeText("Swarm-Act-Publisher", o.act_publisher)
               \o Given("Swarm-Act-History-Address", o.act_history_address)
               \o Positive("Swarm-Act-Timestamp", o.act_timestamp)
  IN  Given("Swarm-Redundancy-Strategy", o.redundancy_strategy)
        \o Given("Swarm-Redundancy-Fallback-Mode", o.fallback)
        \o Positive("Swarm-Chunk-Retrieval-Timeout", o.timeout_ms)
        \o act \o (IF act = <<>> THEN <<>> ELSE Header("Swarm-Act", TRUE))

-----------------------------------------------------------------------------
(* The node takes the first header of a name.                              *)

Values(headers, name) == {h[2] : h \in {g \in Range(headers) : g[1] = name}}

ReadAs(headers, name, default) ==
  IF Values(headers, name) = {} THEN default
  ELSE headers[CHOOSE i \in DOMAIN headers :
         headers[i][1] = name /\ \A j \in 1 .. i - 1 : headers[j][1] # name][2]
=============================================================================
