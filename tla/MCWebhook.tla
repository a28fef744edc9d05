------------------------------ MODULE MCWebhook ------------------------------
(***************************************************************************)
(* Secrets, stamps and documents for the run of Webhook.                   *)
(***************************************************************************)
EXTENDS Webhook, TLC

TwoKeys == {"old", "new"}

\* Around the clock's range, and so old that the difference to the clock
\* overflows three bits.
MCStamps == {-4, 0, 3}

Root(name) == At("", 0, name)
Fill(places, kind) == [x \in places |-> kind]

\* A document with these places, its content and options of these lengths.
Doc(at, items, options) ==
  [form |-> "object", at |-> at, length |-> [content |-> items, options |-> options]]

Plain    == Fill({Root(f) : f \in Fields}, "string")
Item1(f) == At("content", 1, f)
Asks(kind) == Root("clarification") :> "object" @@ At("clarification", 0, "options") :> kind

MCPayloads ==
  { [Doc(<<>>, 0, 0) EXCEPT !.form = "invalid"],
    [Doc(<<>>, 0, 0) EXCEPT !.form = "other"],
    Doc(<<>>, 0, 0),
    Doc([Plain EXCEPT ![Root("userId")] = "other"], 0, 0),
    \* An item with every field, one without, and one that is a string.
    Doc(Plain @@ Root("content") :> "array" @@ Item1("") :> "object"
          @@ Fill({Item1(f) : f \in ItemFields}, "string")
          @@ At("content", 2, "") :> "object" @@ At("content", 3, "") :> "string", 3, 0),
    \* content that is an object, with the name of a field in it.
    Doc(Root("content") :> "object" @@ At("content", 0, "text") :> "string"
          @@ Root("error") :> "string", 0, 0),
    Doc(Root("error") :> "object"
          @@ Fill({At("error", 0, f) : f \in ErrorFields}, "string"), 0, 0),
    Doc(Root("error") :> "object" @@ At("error", 0, "code") :> "other", 0, 0),
    Doc(Asks("array") @@ At("clarification", 0, "question") :> "string"
          @@ Fill({At("options", 1, ""), At("options", 2, "")}, "string"), 0, 2),
    Doc(Asks("array") @@ At("options", 1, "") :> "string"
          @@ At("options", 2, "") :> "object" @@ At("options", 2, "text") :> "string", 0, 2),
    Doc(Asks("object") @@ At("options", 0, "text") :> "string", 0, 0) }
=============================================================================
