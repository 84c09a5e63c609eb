-------------------------------- MODULE Http --------------------------------
(***************************************************************************)
(* One call of the client (client.rs) of those that ask the node about its *)
(* pins, a tag, or whether data can be had (api/endpoints.rs), while other *)
(* clients change the same.  An answer is a status and a body that arrives *)
(* in frames; the client bounds what it takes in, and turns the answer     *)
(* into a result.  The client keeps nothing from one call for the next, so *)
(* there is one; the others' changes include those of a request whose      *)
(* caller has given up.                                                    *)
(*                                                                         *)
(* A JSON document is its values and CLOSE; what comes before CLOSE does   *)
(* not parse without it.                                                   *)
(***************************************************************************)
EXTENDS Naturals, Sequences, FiniteSets, SequencesExt

CONSTANTS
  Root,                    \* references that may be pinned
  MAX_JSON_RESPONSE_BYTES,
  RESPONSE_BODY_CAP,
  PAGE,                    \* bound: the longest error page
  CHANGES,                 \* bound: changes by others
  CLOSE,                   \* what ends a document
  NEWLINE

ASSUME HttpAssumption ==
  /\ {MAX_JSON_RESPONSE_BYTES, RESPONSE_BODY_CAP, PAGE, CHANGES} \subseteq Nat
  /\ IsFiniteSet(Root) /\ NEWLINE \notin Root \cup {CLOSE}

VARIABLES
  shelf,   \* what the node has: its pins, whether data can be had, its tag
  seen,    \* the shelf as it has been since the call was made
  changes, \* changes by others so far
  request, \* the call: its kind and reference
  stage,   \* "none", "sent", "head" (the status is known), "done"
  answer,  \* status, and the length if the node declares it
  walking, \* the roots a check of the pins has yet to go through
  unread,  \* bytes of the body on their way
  buffer,  \* bytes of the body that were read
  result   \* what the call returned

asking   == <<request, stage, answer, walking, unread, buffer, result>>
httpVars == <<shelf, seen, changes, asking>>

Nothing == 0    \* no declared length, no reference, no tag

Tag   == 1..2
Shelf == [pins : SUBSET Root, retrievable : BOOLEAN, tag : Tag \cup {Nothing}]

OfPins == {"pin", "unpin", "get_pin", "list_pins", "check_pins", "check_pin"}
OfData == {"is_retrievable"}
OfTag  == {"get_tag", "update_tag", "delete_tag"}
Call   == OfPins \cup OfData \cup OfTag

OfOneRoot == {"pin", "unpin", "get_pin", "check_pin"}

HttpInit ==
  /\ shelf \in Shelf /\ seen = {} /\ changes = 0
  /\ request = [call |-> "none", root |-> Nothing] /\ stage = "none"
  /\ answer = [status |-> 0, length |-> Nothing]
  /\ walking = {} /\ unread = <<>> /\ buffer = <<>>
  /\ result = [is |-> "pending"]

-----------------------------------------------------------------------------
(* The node and its other clients.                                         *)

\* They change what the call is about; the rest has no part in it.
OthersChange ==
  /\ stage \in {"sent", "head"} /\ changes < CHANGES
  /\ changes' = changes + 1
  /\ \/ \E r \in Root : \E pins \in {shelf.pins \cup {r}, shelf.pins \ {r}} :
          request.call \in OfPins /\ shelf' = [shelf EXCEPT !.pins = pins]
     \/ request.call \in OfData /\ shelf' = [shelf EXCEPT !.retrievable = ~@]
     \/ \E t \in Tag \cup {Nothing} : request.call \in OfTag /\ shelf' = [shelf EXCEPT !.tag = t]
  /\ seen' = seen \cup {shelf'}
  /\ UNCHANGED asking

\* What the request does to the node.
Served ==
  CASE request.call = "pin"   -> [shelf EXCEPT !.pins = @ \cup {request.root}]
    [] request.call = "unpin" -> [shelf EXCEPT !.pins = @ \ {request.root}]
    [] request.call = "update_tag" -> [shelf EXCEPT !.tag = IF @ = Nothing THEN @ ELSE 2]
    [] request.call = "delete_tag" -> [shelf EXCEPT !.tag = Nothing]
    [] OTHER -> shelf

Missing == \/ request.call = "get_pin" /\ request.root \notin shelf.pins
           \/ request.call \in OfTag /\ shelf.tag = Nothing

Document(values) == Append(values, CLOSE)

\* The name of a tag, and so the document, may be of any length n.
Body(n) ==
  CASE request.call = "list_pins" -> Document(SetToSeq(shelf.pins))
    [] request.call = "is_retrievable" -> Document(<<shelf.retrievable>>)
    [] request.call = "get_tag" -> Document([i \in 1..n |-> shelf.tag])
    [] OTHER -> <<>>

Answers(status, body, declared) ==
  /\ stage = "sent" /\ stage' = "head"
  /\ answer' = [status |-> status, length |-> IF declared THEN Len(body) ELSE Nothing]
  /\ unread' = body

NodeServes ==
  /\ ~Missing
  /\ \E declared \in BOOLEAN, n \in {1, MAX_JSON_RESPONSE_BYTES} : Answers(200, Body(n), declared)
  /\ shelf' = Served /\ seen' = seen \cup {shelf'}
  /\ walking' = CASE request.call = "check_pins" -> shelf.pins
                  [] request.call = "check_pin"  -> shelf.pins \cap {request.root}
                  [] OTHER -> {}
  /\ UNCHANGED <<changes, request, buffer, result>>

\* 404 for what is not there, 500 for what it fails in.
NodeRefuses ==
  /\ \E status \in {500} \cup (IF Missing THEN {404} ELSE {}), n \in 0..PAGE :
       Answers(status, [i \in 1..n |-> i], TRUE)
  /\ UNCHANGED <<shelf, seen, changes, request, walking, buffer, result>>

\* The pins are checked one after the other, a line for each, of those that are
\* still there; lines may be blank.
NodeChecks ==
  /\ stage = "head"
  /\ \E r \in walking, blank \in {<<>>, <<NEWLINE>>} :
       /\ walking' = walking \ {r}
       /\ unread' = IF r \in shelf.pins THEN unread \o Document(<<r>>) \o <<NEWLINE>> \o blank
                                        ELSE unread
  /\ UNCHANGED <<shelf, seen, changes, request, stage, answer, buffer, result>>

-----------------------------------------------------------------------------
(* The client.                                                             *)

Ask(call, root) ==
  /\ stage = "none" /\ stage' = "sent"
  /\ request' = [call |-> call, root |-> root]
  /\ seen' = {shelf}
  /\ UNCHANGED <<shelf, changes, answer, walking, unread, buffer, result>>

Success == answer.status = 200

Reads == stage = "head" /\ (~Success \/ request.call \in {"list_pins", "check_pins", "check_pin",
                                                          "is_retrievable", "get_tag"})

Fails(why)       == [is |-> "error", why |-> why]
ResponseError(b) == [is |-> "error", why |-> "response", status |-> answer.status, body |-> b]
Value(v)         == [is |-> "ok", value |-> v]

Ends(r) ==
  /\ result' = r /\ stage' = "done" /\ unread' = <<>> /\ walking' = {}
  /\ UNCHANGED <<shelf, seen, changes, request, answer>>

\* Mutant: any error response stands for "not pinned".
RefusedAsAbsent(error) ==
  IF request.call = "get_pin" THEN Value(FALSE) ELSE error

\* get_pin takes a 404, and nothing else, for its answer.
Refused(error) ==
  IF request.call = "get_pin" /\ answer.status = 404 THEN Value(FALSE) ELSE error

\* The calls that have no use for a body.
ReturnsAtHead ==
  /\ stage = "head" /\ Success /\ ~Reads
  /\ Ends(Value(TRUE)) /\ UNCHANGED buffer

\* read_capped: first the declared length, then every frame.  An error page is
\* read as it is.
TooLong(n) == Success /\ n > MAX_JSON_RESPONSE_BYTES

RejectsLength ==
  /\ Reads /\ buffer = <<>> /\ TooLong(answer.length)
  /\ Ends(Fails("too long")) /\ UNCHANGED buffer

ReadsFrame(n) ==
  /\ Reads /\ ~TooLong(answer.length) /\ n \in 1..Len(unread)
  /\ IF TooLong(Len(buffer) + n)
     THEN Ends(Fails("too long")) /\ UNCHANGED buffer
     ELSE /\ buffer' = buffer \o SubSeq(unread, 1, n)
          /\ unread' = SubSeq(unread, n + 1, Len(unread))
          /\ UNCHANGED <<shelf, seen, changes, request, stage, answer, walking, result>>

\* The values of a document, if it is one.
Parses(bytes) == bytes # <<>> /\ Last(bytes) = CLOSE /\ CLOSE \notin Range(Front(bytes))

\* A line: as much as there is between two ends of a line, and not blank.
IsLine(bytes, i, j) ==
  /\ i <= j /\ \A k \in i..j : bytes[k] # NEWLINE
  /\ i = 1 \/ bytes[i - 1] = NEWLINE
  /\ j = Len(bytes) \/ bytes[j + 1] = NEWLINE

Lines(bytes) ==
  {SubSeq(bytes, p[1], p[2]) :
     p \in {q \in (1..Len(bytes)) \X (1..Len(bytes)) : IsLine(bytes, q[1], q[2])}}

Parsed(bytes) ==
  IF request.call \in {"check_pins", "check_pin"}
  THEN IF \A line \in Lines(bytes) : Parses(line)
       THEN Value({Head(line) : line \in Lines(bytes)}) ELSE Fails("json")
  ELSE IF ~Parses(bytes) THEN Fails("json")
  ELSE IF request.call = "list_pins" THEN Value(Range(Front(bytes)))
  ELSE Value(Head(bytes))

BodyEnds ==
  /\ Reads /\ ~TooLong(answer.length) /\ unread = <<>> /\ walking = {}
  /\ IF Success THEN Ends(Parsed(buffer))
     ELSE Ends(Refused(ResponseError(
            SubSeq(buffer, 1, IF Len(buffer) < RESPONSE_BODY_CAP THEN Len(buffer)
                              ELSE RESPONSE_BODY_CAP))))
  /\ UNCHANGED buffer

\* The connection goes: an error page is then empty, anything else an error.
HttpLost ==
  /\ stage = "sent" \/ (Reads /\ ~TooLong(answer.length))
  /\ Ends(IF stage = "head" /\ ~Success THEN Refused(ResponseError(<<>>)) ELSE Fails("transport"))
  /\ UNCHANGED buffer

-----------------------------------------------------------------------------
HttpNext ==
  \/ \E call \in Call : IF call \in OfOneRoot THEN \E r \in Root : Ask(call, r)
                                              ELSE Ask(call, Nothing)
  \/ OthersChange \/ NodeServes \/ NodeRefuses \/ NodeChecks
  \/ ReturnsAtHead \/ RejectsLength \/ (\E n \in 1..Len(unread) : ReadsFrame(n))
  \/ BodyEnds \/ HttpLost

HttpSpec == HttpInit /\ [][HttpNext]_httpVars

-----------------------------------------------------------------------------
(* Correctness.                                                            *)

Throughout == {r \in Root : \A s \in seen : r \in s.pins}
AtTimes    == {r \in Root : \E s \in seen : r \in s.pins}
Scope      == IF request.call = "check_pin" THEN {request.root} ELSE Root

\* Whether the node was in a state s that the answer v describes.
Describes(v, s) ==
  CASE request.call = "pin"   -> request.root \in s.pins
    [] request.call = "unpin" -> request.root \notin s.pins
    [] request.call = "get_pin"        -> v = (request.root \in s.pins)
    [] request.call = "list_pins"      -> v = s.pins
    [] request.call = "is_retrievable" -> v = s.retrievable
    [] request.call = "get_tag"        -> v = s.tag /\ v # Nothing
    [] request.call = "update_tag"     -> s.tag = 2
    [] request.call = "delete_tag"     -> s.tag = Nothing

\* A call that returns Ok tells the truth about a moment between its start and its
\* end, however the node fails, its body is cut into frames, and others change it
\* meanwhile: "not pinned" too, for which only a 404 may stand.  A check of the pins
\* goes on for a while: it leaves out none that was there throughout, and makes up
\* none.  Nothing longer than the cap is ever taken in from a success, and an error
\* carries no more than the beginning of its page.
AnswersTrue ==
  /\ result.is = "ok" =>
       IF request.call \in {"check_pins", "check_pin"}
       THEN Throughout \cap Scope \subseteq result.value /\ result.value \subseteq AtTimes \cap Scope
       ELSE \E s \in seen : Describes(result.value, s)
  /\ Success => Len(buffer) <= MAX_JSON_RESPONSE_BYTES
  /\ result.is = "error" /\ result.why = "response" =>
       Len(result.body) <= RESPONSE_BODY_CAP /\ IsPrefix(result.body, buffer)
=============================================================================
