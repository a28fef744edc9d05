------------------------------ MODULE Envelope ------------------------------
(***************************************************************************)
(* What FormationClient makes of the JSON it receives: unwrap_envelope for *)
(* a response, the exception of an error frame and parse_ui_widgets for a  *)
(* stream.  A place of a document is "absent", a "string", an "object" or  *)
(* "other"; a value returned is named by the place it is from.             *)
(***************************************************************************)
EXTENDS Integers

Kinds == {"absent", "string", "object", "other"}

\* Places of a response, as they are named in it.
Places == {"data", "data.request_id", "data.idempotency_key",
           "request", "request.id", "request.idempotency_key"}

\* A document: an array or a number has no places; those in data and in request
\* are there when data and request are objects.
IsDocument(d) ==
  /\ d.object \in BOOLEAN
  /\ d.at \in [Places -> Kinds]
  /\ ~d.object => \A p \in Places : d.at[p] = "absent"
  /\ d.at["data"] # "object" =>
       d.at["data.request_id"] = "absent" /\ d.at["data.idempotency_key"] = "absent"
  /\ d.at["request"] # "object" =>
       d.at["request.id"] = "absent" /\ d.at["request.idempotency_key"] = "absent"

Holds(d, place) == d.at[place] # "absent"

\* The place a key of the result is from: the data's own, else the request's.
Surfaced(d, own, other) ==
  IF Holds(d, own) THEN own ELSE IF Holds(d, other) THEN other ELSE "absent"

\* unwrap_envelope: the document itself, its data, or its data with up to two
\* keys more; what else is in the envelope is gone.
UnwrapEnvelope(d) ==
  CASE ~Holds(d, "data") -> [value |-> "document"]
    [] Holds(d, "data") /\ d.at["data"] # "object" -> [value |-> "data"]
    [] d.at["data"] = "object" ->
         [value |-> "data with keys",
          request_id |-> Surfaced(d, "data.request_id", "request.id"),
          idempotency_key |->
            Surfaced(d, "data.idempotency_key", "request.idempotency_key")]
-----------------------------------------------------------------------------
(* Frames of a stream.                                                     *)

ErrorPlaces == {"type", "code", "error", "message"}

\* Data of an error frame: empty, no JSON object, or an object.
IsFrame(f) ==
  /\ f.form \in {"empty", "text", "object"}
  /\ f.at \in [ErrorPlaces -> Kinds]
  /\ f.form # "object" => \A p \in ErrorPlaces : f.at[p] = "absent"

\* The first of the places that is there.
FirstOf(f, places) ==
  LET there == {i \in DOMAIN places : f.at[places[i]] # "absent"}
  IN  IF there = {} THEN "absent" ELSE places[CHOOSE i \in there : \A j \in there : i <= j]

\* Mutant of ErrorOf: the message is read whatever became of the code.
ErrorOfBoth(f) ==
  LET code    == FirstOf(f, <<"type", "code", "error">>)
      message == FirstOf(f, <<"error", "message">>)
      string(place) == place # "absent" /\ f.at[place] = "string"
  IN  [code    |-> IF string(code) THEN code ELSE "STREAM_ERROR",
       message |-> IF string(message) THEN message
                   ELSE IF f.form = "empty" THEN "stream error" ELSE "data"]

\* get<std::string> of a place that holds no string ends the try block: what
\* was read by then stays, and the rest is as it was.
ErrorOf(f) ==
  LET code == FirstOf(f, <<"type", "code", "error">>)
      both == ErrorOfBoth(f)
  IN  IF code # "absent" /\ f.at[code] # "string"
      THEN [both EXCEPT !.message = "data"] ELSE both

\* Events of a stream as parse_ui_widgets sees them: the name, the data and the
\* place "ui" in it.
UiFrames ==
  {e \in [event : {"ui", "message"}, form : {"text", "object", "other"},
          ui : {"absent", "array", "other"}] : e.form # "object" => e.ui = "absent"}

\* An array without elements when there is nothing to show.
ParseUiWidgets(e) ==
  IF e.event = "ui" /\ e.form = "object" /\ e.ui = "array" THEN "ui" ELSE "no widgets"
=============================================================================
