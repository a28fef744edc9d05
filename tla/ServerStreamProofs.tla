------------------------- MODULE ServerStreamProofs --------------------------
(***************************************************************************)
(* Proofs about a streaming call of ServerClient or of Transport, for      *)
(* every set of responses: the control state, and the events delivered.    *)
(***************************************************************************)
EXTENDS ServerStreamProps, SseReferenceProofs
-----------------------------------------------------------------------------
(* The inductive invariant of what is delivered.                           *)

\* How much of the body has arrived, and how much of it the getline loop has
\* taken.
arrived  == Len(body) - Len(wire)
parsed   == arrived - Len(response_body)
consumed == SubSeq(body, 1, parsed)

\* Chunking loses and repeats nothing, and neither does getline.
BodyInParts ==
  /\ Len(wire) <= Len(body)
  /\ wire = SubSeq(body, arrived + 1, Len(body))
  /\ response_body \in Text
  /\ pc \in {"init", "perform"} => response_body = received /\ parser = NewParser
  /\ pc = "parse" => /\ Len(response_body) <= arrived
                     /\ response_body = SubSeq(body, parsed + 1, arrived)

\* What some lines leave in current_event and data_parts.
ServerAfter(lines) ==
  [event |-> ServerNamed(Unfinished(lines)), data |-> ServerData(Unfinished(lines))]

\* The loop has interpreted the lines it took, unless it took the whole text
\* and its last line had no end.
LinesParsed ==
  pc = "parse" =>
    \/ /\ Closed(consumed)
       /\ parser = ServerAfter(CompleteLines(consumed))
       /\ calls = LineEvents(CompleteLines(consumed))
    \/ response_body = <<>> /\ calls = ServerEvents(received)

\* The handler has had the first events of what arrived ...
FirstEvents == calls \in Seq(Event) /\ Begins(calls, ServerEvents(received))

\* ... and all of them when a call that parsed returned.
AllWhenReturned ==
  pc = "done" /\ outcome = "returned" /\ result # "none" /\ Parses(result) =>
    calls = ServerEvents(received)

EventInv == BodyInParts /\ LinesParsed /\ FirstEvents /\ AllWhenReturned
-----------------------------------------------------------------------------
\* The handle is released on every way out but a payload dump() refuses
\* (server_client.cpp:126-154, transport.cpp:100-132).
HandleReleased ==
  pc = "done" => (handle = "open" <=> outcome = "body")

\* What the theorems need of the types.
Types ==
  /\ response.body \in Text
  /\ wire \in Text
  /\ result \in {"none", "OK", "RECV_ERROR"}

BeforeTransferEnds ==
  pc \in {"init", "perform"} => result = "none" /\ calls = <<>> /\ outcome = "running"

Handles ==
  /\ pc \in {"init", "parse"} => handle = "none"
  /\ pc = "parse" => outcome = "running"

\* Only what Parses lets through reaches the handler, and a transfer without an
\* error has brought everything.
Parsed ==
  /\ pc = "parse" => result # "none" /\ Parses(result)
  /\ calls # <<>> => result # "none" /\ Parses(result)
  /\ result = "OK" => wire = <<>>

IInv == Types /\ BeforeTransferEnds /\ Handles /\ Parsed /\ HandleReleased

LEMMA InitIInv == Init => IInv
<1>1. \A r \in Responses : r.body \in Text
  BY ServerStreamAssumption
<1> QED  BY <1>1 DEF Init, IInv, Types, BeforeTransferEnds, Handles, Parsed, HandleReleased

LEMMA NextIInv == IInv /\ [Next]_vars => IInv'
<1> SUFFICES ASSUME IInv, [Next]_vars  PROVE IInv'
  OBVIOUS
<1> USE DEF IInv, Types, BeforeTransferEnds, Handles, Parsed, HandleReleased, Parses
<1>1. CASE InitFails
  BY <1>1 DEF InitFails
<1>2. CASE DumpThrows
  BY <1>2 DEF DumpThrows
<1>3. CASE Start
  BY <1>3 DEF Start
<1>4. CASE ReceiveChunk
  <2>1. PICK n \in 1 .. Len(wire) : wire' = SubSeq(wire, n + 1, Len(wire))
    BY <1>4 DEF ReceiveChunk
  <2>2. wire' \in Text
    <3>1. Len(wire) \in Nat
      BY LenProperties DEF Text
    <3> QED  BY <2>1, <3>1, SubText
  <2> QED  BY <1>4, <2>2 DEF ReceiveChunk
<1>5. CASE PeerCloses
  BY <1>5 DEF PeerCloses, Performed, Cleanup
<1>6. CASE ConnectionBreaks
  BY <1>6 DEF ConnectionBreaks, Performed, Cleanup
<1>7. CASE ParseLine
  <2>1. /\ pc = "parse"
        /\ UNCHANGED <<client, response, wire, handle, result>>
        /\ \/ UNCHANGED <<pc, outcome>>
           \/ pc' = "done" /\ outcome' = "handler"
    BY <1>7 DEF ParseLine
  <2> QED  BY <2>1
<1>8. CASE EndOfText
  BY <1>8 DEF EndOfText
<1>9. CASE UNCHANGED vars
  BY <1>9 DEF vars
<1> QED
  BY <1>1, <1>2, <1>3, <1>4, <1>5, <1>6, <1>7, <1>8, <1>9 DEF Next, Client, Peer, Finished

LEMMA Invariance == Spec => []IInv
<1> QED  BY InitIInv, NextIInv, PTL DEF Spec

\* Transport gives up the whole of a transfer that failed, however it was cut
\* into chunks and wherever it broke (transport.cpp:134).
THEOREM NothingOfAFailure == Spec => []AllOrNothing
<1>1. IInv => AllOrNothing
  <2> SUFFICES ASSUME IInv, client = "transport", calls # <<>>
               PROVE  result = "OK" /\ received = body
    BY DEF AllOrNothing
  <2>1. result = "OK" /\ wire = <<>>
    BY DEF IInv, Types, Parsed, Parses
  <2>2. Len(wire) = 0 /\ Len(body) \in Nat /\ body \in Text
    BY <2>1, EmptySeq, LenProperties DEF IInv, Types, body, Text
  <2>3. SubSeq(body, 1, Len(body)) = body
    BY <2>2, SubSeqFull DEF Text
  <2> QED  BY <2>1, <2>2, <2>3 DEF received
<1> QED  BY <1>1, Invariance, PTL

\* No stream of ServerClient or of Transport keeps its easy handle, but the one
\* whose payload dump() refuses.
THEOREM HandleIsReleased == Spec => []HandleReleased
<1>1. IInv => HandleReleased
  BY DEF IInv
<1> QED  BY <1>1, Invariance, PTL
-----------------------------------------------------------------------------
(* The text of a field.                                                    *)

\* n is where the first character of s that is no space stands.
Unspaced(s, n) ==
  /\ n \in 1 .. Len(s) + 1
  /\ \A i \in 1 .. n - 1 : s[i] = SPACE
  /\ n = Len(s) + 1 \/ s[n] # SPACE

\* Every text has such a place, perhaps behind its end.
LEMMA UnspacedExists ==
  ASSUME NEW s \in Text
  PROVE  \E n \in 1 .. Len(s) + 1 : Unspaced(s, n)
<1> DEFINE R == {p \in Nat \X Nat : p[1] < p[2]}
           U == {i \in 1 .. Len(s) + 1 : i = Len(s) + 1 \/ s[i] # SPACE}
<1>0. Len(s) \in Nat
  BY EndsType
<1>1. IsWellFoundedOn(R, Nat)
  BY NatLessThanWellFounded DEF OpToRel
<1>2. U \subseteq Nat /\ U # {}
  <2>1. Len(s) + 1 \in U
    BY <1>0
  <2>2. U \subseteq Nat
    BY <1>0
  <2> HIDE DEF U
  <2> QED  BY <2>1, <2>2
<1>3. PICK k \in U : \A j \in U : ~(<<j, k>> \in R)
  <2> HIDE DEF R, U
  <2> QED  BY <1>1, <1>2, WFMin
<1>4. k \in 1 .. Len(s) + 1 /\ k \in Nat /\ (k = Len(s) + 1 \/ s[k] # SPACE)
  BY <1>0
<1>5. ASSUME NEW i \in 1 .. k - 1  PROVE s[i] = SPACE
  <2>1. i \in 1 .. Len(s) + 1 /\ i \in Nat /\ i < k
    BY <1>0, <1>4
  <2>2. i \notin U
    BY <1>3, <1>4, <2>1
  <2> QED  BY <2>1, <2>2
<1> QED  BY <1>4, <1>5 DEF Unspaced

\* The loop over value.front() == ' ' strips up to that place (server_client.cpp:171).
LEMMA StripSpacesIs ==
  ASSUME NEW s \in Text, NEW n, Unspaced(s, n)
  PROVE  StripSpaces(s) = SubSeq(s, n, Len(s))
<1> DEFINE t == Append(s, LF)
           I == {i \in 1 .. Len(t) : t[i] # SPACE}
<1>1. /\ Len(t) = Len(s) + 1 /\ Len(s) \in Nat
      /\ \A i \in 1 .. Len(s) : t[i] = s[i]
      /\ t[Len(s) + 1] = LF
  <2>1. LF \in Token
    BY DEF Token
  <2> QED  BY <2>1, AppendProperties, LenProperties DEF Text
<1> HIDE DEF t
<1>2. n \in 1 .. Len(t) /\ \A i \in 1 .. n - 1 : i \in 1 .. Len(s)
  BY <1>1 DEF Unspaced
<1>3. t[n] # SPACE
  <2>1. n = Len(s) + 1 \/ n \in 1 .. Len(s)
    BY <1>1 DEF Unspaced
  <2>2. LF # SPACE
    BY DEF LF, SPACE
  <2> QED  BY <1>1, <2>1, <2>2 DEF Unspaced
<1>4. n \in I /\ \A i \in I : i >= n
  <2>1. n \in I
    BY <1>2, <1>3
  <2>2. ASSUME NEW i \in I, ~(i >= n)  PROVE FALSE
    <3>1. i \in 1 .. n - 1
      BY <1>1, <1>2, <2>2
    <3> QED  BY <1>1, <1>2, <3>1 DEF Unspaced
  <2> QED  BY <2>1, <2>2
<1>5. Min(I) = n
  <2>1. \A i \in I : i \in Int
    BY <1>1
  <2> HIDE DEF I
  <2>2. \A i \in I : (\A j \in I : i <= j) => i = n
    BY <1>4, <2>1
  <2> QED  BY <1>2, <1>4, <2>1, <2>2 DEF Min
<1>6. SelectInSeq(t, LAMBDA c : c # SPACE) = n
  <2>1. SelectInSeq(t, LAMBDA c : c # SPACE) = IF I # {} THEN Min(I) ELSE 0
    BY DEF SelectInSeq
  <2> HIDE DEF I
  <2> QED  BY <1>4, <1>5, <2>1
<1> QED  BY <1>6 DEF StripSpaces, t

\* Stripping spaces makes a text.
LEMMA StripSpacesText ==
  ASSUME NEW s \in Text
  PROVE  StripSpaces(s) \in Text
<1>0. Len(s) \in Nat
  BY EndsType
<1>1. PICK n \in 1 .. Len(s) + 1 : Unspaced(s, n)
  BY UnspacedExists
<1>2. n \in Nat \ {0} /\ Len(s) \in 0 .. Len(s)
  BY <1>0
<1>3. StripSpaces(s) = SubSeq(s, n, Len(s))
  BY <1>1, StripSpacesIs
<1> QED  BY <1>2, <1>3, SubText

\* The text of a field is a text.
LEMMA FieldTextText ==
  ASSUME NEW line \in Text
  PROVE  FieldText(line) \in Text
<1>1. Len(line) \in 0 .. Len(line) /\ 3 \in Nat \ {0}
  BY EndsType
<1>2. SubSeq(line, 3, Len(line)) \in Text
  BY <1>1, SubText
<1> QED  BY <1>2, StripSpacesText DEF FieldText

\* line.rfind("event:", 0) == 0: the name and the colon are how the line begins.
LEMMA StartsWithIs ==
  ASSUME NEW line \in Text, NEW name
  PROVE  StartsWith(line, name) <=> Len(line) >= 2 /\ line[1] = name /\ line[2] = COLON
<1> DEFINE head == <<name, COLON>>
<1>0. Len(line) \in Nat
  BY EndsType
<1>1. Len(head) = 2 /\ head[1] = name /\ head[2] = COLON /\ head \in Seq({name, COLON})
  OBVIOUS
<1>2. SubSeq(head, 1, 2) = head
  <2> HIDE DEF head
  <2> QED  BY <1>1, SubSeqFull
<1>3. StartsWith(line, name) <=> 2 <= Len(line) /\ head = SubSeq(line, 1, 2)
  BY <1>1, <1>2 DEF StartsWith, IsPrefix
<1>4. Len(line) >= 2 => /\ SubSeq(line, 1, 2) \in Seq(Token) /\ Len(SubSeq(line, 1, 2)) = 2
                        /\ SubSeq(line, 1, 2)[1] = line[1] /\ SubSeq(line, 1, 2)[2] = line[2]
  <2> SUFFICES ASSUME Len(line) >= 2
               PROVE  /\ SubSeq(line, 1, 2) \in Seq(Token) /\ Len(SubSeq(line, 1, 2)) = 2
                      /\ SubSeq(line, 1, 2)[1] = line[1] /\ SubSeq(line, 1, 2)[2] = line[2]
    OBVIOUS
  <2>1. PICK z \in Nat : z = 0
    OBVIOUS
  <2>2. 2 \in Nat /\ 2 <= Len(line) /\ 0 + 1 = 1
    BY <1>0
  <2>3. /\ Part(line, 0, 2) \in Text /\ Len(Part(line, 0, 2)) = 2
        /\ \A i \in 1 .. 2 : Part(line, 0, 2)[i] = line[i]
    BY <2>2, FromStart
  <2> QED  BY <2>2, <2>3 DEF Part, Text
<1> DEFINE sub == SubSeq(line, 1, 2)
<1>5. head \in Seq(Token \cup {name, COLON}) /\ (Len(line) >= 2 => sub \in Seq(Token \cup {name, COLON}))
  <2> HIDE DEF head, sub
  <2>1. \A i \in 1 .. Len(head) : head[i] \in Token \cup {name, COLON}
    BY <1>1, ElementOfSeq
  <2> QED  BY <1>1, <1>4 DEF sub
<1>6. ASSUME Len(line) >= 2, line[1] = name, line[2] = COLON  PROVE head = sub
  <2> HIDE DEF head, sub
  <2>1. \A i \in 1 .. 2 : i = 1 \/ i = 2
    OBVIOUS
  <2>2. sub[1] = line[1] /\ sub[2] = line[2] /\ Len(sub) = 2
    BY <1>4, <1>6 DEF sub
  <2>3. \A i \in 1 .. 2 : head[i] = sub[i]
    BY <1>1, <1>6, <2>1, <2>2
  <2> QED  BY <1>1, <1>5, <1>6, <2>2, <2>3, SeqEqual
<1> HIDE DEF head, sub
<1>7. head = SubSeq(line, 1, 2) /\ Len(line) >= 2 => line[1] = name /\ line[2] = COLON
  BY <1>1, <1>4
<1>8. 2 <= Len(line) <=> Len(line) >= 2
  BY <1>0
<1> QED  BY <1>3, <1>6, <1>7, <1>8 DEF sub
-----------------------------------------------------------------------------
(* What ServerClient makes of a frame.                                     *)

Starting(name) == {line \in Text : StartsWith(line, name)}
FieldTexts     == [line \in Text |-> FieldText(line)]

\* The definitions of ServerStreamProps in the terms of the lemmas on sifting.
LEMMA ServerFieldsAre ==
  ASSUME NEW frame \in Seq(Text)
  PROVE  /\ ServerFields(frame, "event") = Places(frame, Starting("event"))
         /\ ServerFields(frame, "data") = Places(frame, Starting("data"))
         /\ ServerData(frame) = Sifted(frame, FieldTexts, Starting("data"))
<1>1. \A i \in 1 .. Len(frame) : frame[i] \in Text
  BY ElementOfSeq
<1>2. \A name : ServerFields(frame, name) = Places(frame, Starting(name))
  BY <1>1 DEF ServerFields, Places, Starting
<1>3. [i \in 1 .. Len(frame) |-> FieldText(frame[i])] = Images(frame, FieldTexts)
  BY <1>1 DEF Images, FieldTexts
<1> QED  BY <1>2, <1>3 DEF ServerData, Sifted

\* The text of a field as a function.
LEMMA FieldTextsType == Maps(FieldTexts, Text, Text)
<1>1. \A line \in Text : FieldText(line) \in Text
  BY FieldTextText
<1> QED  BY <1>1 DEF FieldTexts, Maps

\* An event line names the frame anew, any other keeps its name.
LEMMA ServerNamedAppend ==
  ASSUME NEW frame \in Seq(Text), NEW line \in Text
  PROVE  ServerNamed(Append(frame, line)) =
           IF StartsWith(line, "event") THEN FieldText(line) ELSE ServerNamed(frame)
<1> DEFINE more == Append(frame, line)
           T == Starting("event")
<1>1. more \in Seq(Text) /\ (line \in T <=> StartsWith(line, "event"))
  BY AppendProperties DEF Starting
<1>2. /\ ServerFields(frame, "event") = Places(frame, T)
      /\ ServerFields(more, "event") = Places(more, T)
  BY <1>1, ServerFieldsAre
<1> HIDE DEF T
<1>3. line \in T => Places(more, T) # {} /\ Latest(more, T) = line
  BY LatestMore
<1>4. line \notin T => /\ Places(more, T) = Places(frame, T)
                       /\ Places(frame, T) # {} => Latest(more, T) = Latest(frame, T)
  BY LatestSame
<1> HIDE DEF more
<1>5. CASE line \in T
  <2>1. ServerNamed(more) = FieldText(line)
    BY <1>2, <1>3, <1>5 DEF ServerNamed, Latest
  <2> QED  BY <1>1, <1>5, <2>1 DEF more
<1>6. CASE line \notin T
  <2>1. ServerNamed(more) = ServerNamed(frame)
    BY <1>2, <1>4, <1>6 DEF ServerNamed, Latest
  <2> QED  BY <1>1, <1>6, <2>1 DEF more
<1> QED  BY <1>5, <1>6

\* A data line adds to the data, any other adds nothing.
LEMMA ServerDataAppend ==
  ASSUME NEW frame \in Seq(Text), NEW line \in Text
  PROVE  ServerData(Append(frame, line)) =
           IF StartsWith(line, "data") THEN Append(ServerData(frame), FieldText(line))
                                       ELSE ServerData(frame)
<1> DEFINE more == Append(frame, line)
           T == Starting("data")
           f == FieldTexts
<1>1. /\ more \in Seq(Text) /\ (line \in T <=> StartsWith(line, "data"))
      /\ Maps(f, Text, Text) /\ f[line] = FieldText(line)
  BY AppendProperties, FieldTextsType DEF Starting, FieldTexts
<1>2. ServerData(frame) = Sifted(frame, f, T) /\ ServerData(more) = Sifted(more, f, T)
  BY <1>1, ServerFieldsAre
<1> HIDE DEF T, f
<1>3. /\ line \in T => Sifted(more, f, T) = Append(Sifted(frame, f, T), f[line])
      /\ line \notin T => Sifted(more, f, T) = Sifted(frame, f, T)
  <2>1. ASSUME line \in T
        PROVE  Sifted(Append(frame, line), f, T) = Append(Sifted(frame, f, T), f[line])
    BY <1>1, <2>1, SiftedMore
  <2>2. ASSUME line \notin T
        PROVE  Sifted(Append(frame, line), f, T) = Sifted(frame, f, T)
    BY <1>1, <2>2, SiftedSame
  <2> QED  BY <2>1, <2>2
<1> HIDE DEF more
<1> QED  BY <1>1, <1>2, <1>3 DEF more

\* A frame without lines has neither a name nor data.
LEMMA ServerEmptyFrame ==
  ServerNamed(<<>>) = <<>> /\ ServerData(<<>>) = <<>>
<1>1. <<>> \in Seq(Text) /\ Len(<<>>) = 0
  BY EmptySeq
<1>2. ServerFields(<<>>, "event") = {}
  BY <1>1 DEF ServerFields
<1>3. ServerData(<<>>) = <<>>
  <2>1. ServerData(<<>>) = Sifted(<<>>, FieldTexts, Starting("data"))
    BY <1>1, ServerFieldsAre
  <2>2. Sifted(<<>>, FieldTexts, Starting("data")) = <<>>
    BY FieldTextsType, SiftedEmpty
  <2> QED  BY <2>1, <2>2
<1> QED  BY <1>2, <1>3 DEF ServerNamed

\* The types of what ServerClient reads from a frame.
LEMMA ServerFrameTypes ==
  ASSUME NEW frame \in Seq(Text)
  PROVE  /\ ServerNamed(frame) \in Text /\ ServerData(frame) \in Seq(Text)
         /\ ServerEvent(frame) \in Event
<1>1. ServerNamed(frame) \in Text
  <2> DEFINE names == ServerFields(frame, "event")
  <2>0. names \in SUBSET (1 .. Len(frame)) /\ Len(frame) \in Nat
    BY LenProperties DEF ServerFields
  <2>1. CASE names = {}
    BY <2>1, EmptySeq DEF ServerNamed, Text
  <2>2. CASE names # {}
    <3> HIDE DEF names
    <3>1. Max(names) \in 1 .. Len(frame)
      BY <2>0, <2>2, LastExists
    <3>2. FieldText(frame[Max(names)]) \in Text
      BY <3>1, ElementOfSeq, FieldTextText
    <3> QED  BY <2>2, <3>2 DEF ServerNamed, names
  <2> QED  BY <2>1, <2>2
<1>2. ServerData(frame) \in Seq(Text)
  BY ServerFieldsAre, FieldTextsType, SiftedType
<1> DEFINE p == [event |-> ServerNamed(frame), data |-> ServerData(frame)]
<1>3. p \in Parser
  BY <1>1, <1>2 DEF Parser
<1>4. ServerEvent(frame) = FrameEvent(p)
  BY DEF ServerEvent
<1> HIDE DEF p
<1> QED  BY <1>1, <1>2, <1>3, <1>4, FrameEventType
-----------------------------------------------------------------------------
(* What it makes of some lines.                                            *)

WithData == {frame \in Seq(Text) : ServerData(frame) # <<>>}
EventIn  == [frame \in Seq(Text) |-> ServerEvent(frame)]

\* The events of some lines, sifted from their frames.
LEMMA LineEventsAre ==
  ASSUME NEW lines \in Seq(Text)
  PROVE  /\ LineEvents(lines) = Sifted(Frames(lines), EventIn, WithData)
         /\ Maps(EventIn, Seq(Text), Event)
         /\ LineEvents(lines) \in Seq(Event)
<1> DEFINE fs == Frames(lines)
<1>1. fs \in Seq(Seq(Text))
  BY FramesType
<1>2. Maps(EventIn, Seq(Text), Event)
  <2>1. \A frame \in Seq(Text) : ServerEvent(frame) \in Event
    BY ServerFrameTypes
  <2> QED  BY <2>1 DEF EventIn, Maps
<1>3. LineEvents(lines) = At([k \in 1 .. Len(fs) |-> ServerEvent(fs[k])],
                             {k \in 1 .. Len(fs) : ServerData(fs[k]) # <<>>})
  BY DEF LineEvents
<1> HIDE DEF fs
<1>4. \A k \in 1 .. Len(fs) : fs[k] \in Seq(Text)
  BY <1>1, ElementOfSeq
<1>5. [k \in 1 .. Len(fs) |-> ServerEvent(fs[k])] = Images(fs, EventIn)
  BY <1>4 DEF Images, EventIn
<1>6. {k \in 1 .. Len(fs) : ServerData(fs[k]) # <<>>} = Places(fs, WithData)
  BY <1>4 DEF Places, WithData
<1>7. LineEvents(lines) = Sifted(fs, EventIn, WithData)
  BY <1>3, <1>5, <1>6 DEF Sifted
<1>8. Sifted(fs, EventIn, WithData) \in Seq(Event)
  BY <1>1, <1>2, SiftedType
<1> QED  BY <1>2, <1>7, <1>8 DEF fs

\* What is made of some lines stands when more lines come.
LEMMA LineEventsBelow ==
  ASSUME NEW lines \in Seq(Text), NEW more \in Seq(Text), Begins(lines, more)
  PROVE  Begins(LineEvents(lines), LineEvents(more))
<1> DEFINE fs == Frames(lines)
           gs == Frames(more)
<1>1. fs \in Seq(Seq(Text)) /\ gs \in Seq(Seq(Text)) /\ Begins(fs, gs)
  BY FramesType, FramesBelow
<1>2. /\ LineEvents(lines) = Sifted(fs, EventIn, WithData)
      /\ LineEvents(more) = Sifted(gs, EventIn, WithData)
      /\ Maps(EventIn, Seq(Text), Event)
  BY LineEventsAre
<1> HIDE DEF fs, gs
<1> QED  BY <1>1, <1>2, SiftedBelow

\* No lines leave a new parser and no event.
LEMMA ServerNoLines ==
  ServerAfter(<<>>) = NewParser /\ LineEvents(<<>>) = <<>>
<1>1. <<>> \in Seq(Text) /\ Len(<<>>) = 0
  BY EmptySeq
<1>2. Blanks(<<>>) = {}
  BY <1>1 DEF Blanks
<1>3. Unfinished(<<>>) = <<>>
  <2>1. Unfinished(<<>>) = SubSeq(<<>>, 0 + 1, Len(<<>>))
    BY <1>2 DEF Unfinished, Left, LastOf
  <2>2. 0 + 1 \in Int /\ Len(<<>>) \in Int /\ Len(<<>>) < 0 + 1
    BY <1>1
  <2> QED  BY <2>1, <2>2, SubSeqEmpty
<1>4. Frames(<<>>) = <<>>
  <2>1. Len(Frames(<<>>)) = 0 /\ Frames(<<>>) \in Seq(Seq(Text))
    BY <1>1, <1>2, PiecesType, FS_EmptySet DEF Frames
  <2> QED  BY <2>1, EmptySeq
<1>5. LineEvents(<<>>) = <<>>
  BY <1>1, <1>4, LineEventsAre, SiftedEmpty
<1> QED  BY <1>3, <1>5, ServerEmptyFrame DEF ServerAfter, NewParser

\* What the body of the getline loop does with a line, case by case: no line is
\* both an event and a data line (server_client.cpp:157-181).
LEMMA LineResultIs ==
  ASSUME NEW p, NEW line \in Text
  PROVE  /\ line = <<>> => LineResult(p, line) = BlankLine(p)
         /\ line # <<>> /\ StartsWith(line, "event") =>
              LineResult(p, line) = Nothing([p EXCEPT !.event = FieldText(line)])
         /\ line # <<>> /\ StartsWith(line, "data") =>
              LineResult(p, line) = Nothing([p EXCEPT !.data = Append(p.data, FieldText(line))])
         /\ line # <<>> /\ ~StartsWith(line, "event") /\ ~StartsWith(line, "data") =>
              LineResult(p, line) = Nothing(p)
         /\ ~(StartsWith(line, "event") /\ StartsWith(line, "data"))
<1>1. ~(StartsWith(line, "event") /\ StartsWith(line, "data"))
  BY StartsWithIs
<1>2. line = <<>> => ~StartsWith(line, "event") /\ ~StartsWith(line, "data")
  BY StartsWithIs, EmptySeq
<1> QED  BY <1>1, <1>2 DEF LineResult

\* A line takes the parser after some lines to the parser after one more, and
\* yields the event that line completes, if any.
LEMMA ServerLineInterpreted ==
  ASSUME NEW lines \in Seq(Text), NEW line \in Text, NEW p, p = ServerAfter(lines)
  PROVE  /\ LineResult(p, line).parser = ServerAfter(Append(lines, line))
         /\ LineResult(p, line).kind \in {"none", "event"}
         /\ LineResult(p, line).kind = "none" =>
              LineEvents(Append(lines, line)) = LineEvents(lines)
         /\ LineResult(p, line).kind = "event" =>
              LineEvents(Append(lines, line)) =
                Append(LineEvents(lines), LineResult(p, line).event)
<1> DEFINE u == Unfinished(lines)
           fs == Frames(lines)
           more == Append(lines, line)
           r == LineResult(p, line)
<1>1. /\ u \in Seq(Text) /\ fs \in Seq(Seq(Text)) /\ more \in Seq(Text)
      /\ LineEvents(lines) = Sifted(fs, EventIn, WithData)
      /\ Maps(EventIn, Seq(Text), Event)
  BY UnfinishedType, FramesType, LineEventsAre, AppendProperties
<1>2. LineEvents(more) = Sifted(Frames(more), EventIn, WithData)
  BY <1>1, LineEventsAre
<1>3. p \in Parser /\ p.event = ServerNamed(u) /\ p.data = ServerData(u)
  BY <1>1, ServerFrameTypes DEF ServerAfter, Parser
<1>4. CASE line = <<>>
  <2>1. Frames(more) = Append(fs, u) /\ Unfinished(more) = <<>>
    BY <1>4, FrameMore
  <2>2. ServerAfter(more) = NewParser
    BY <2>1, ServerEmptyFrame DEF ServerAfter, NewParser
  <2>3. /\ u \in WithData => LineEvents(more) = Append(LineEvents(lines), EventIn[u])
        /\ u \notin WithData => LineEvents(more) = LineEvents(lines)
    <3> HIDE DEF u, fs, more
    <3>1. /\ u \in WithData => Sifted(Append(fs, u), EventIn, WithData) =
                                 Append(Sifted(fs, EventIn, WithData), EventIn[u])
          /\ u \notin WithData => Sifted(Append(fs, u), EventIn, WithData) =
                                    Sifted(fs, EventIn, WithData)
      <4>1. ASSUME u \in WithData
            PROVE  Sifted(Append(fs, u), EventIn, WithData) =
                     Append(Sifted(fs, EventIn, WithData), EventIn[u])
        BY <1>1, <4>1, SiftedMore
      <4>2. ASSUME u \notin WithData
            PROVE  Sifted(Append(fs, u), EventIn, WithData) = Sifted(fs, EventIn, WithData)
        BY <1>1, <4>2, SiftedSame
      <4> QED  BY <4>1, <4>2
    <3> QED  BY <1>1, <1>2, <2>1, <3>1
  <2>4. r = BlankLine(p)
    BY <1>4, LineResultIs
  <2>5. EventIn[u] = FrameEvent(p) /\ (u \in WithData <=> p.data # <<>>)
    BY <1>1, <1>3 DEF EventIn, ServerEvent, ServerAfter, WithData
  <2> HIDE DEF u, fs, more, r
  <2>6. /\ r.parser = NewParser /\ r.event = FrameEvent(p)
        /\ r.kind = IF p.data = <<>> THEN "none" ELSE "event"
    BY <2>4 DEF BlankLine
  <2> QED  BY <2>2, <2>3, <2>5, <2>6 DEF r, more
<1>5. CASE line # <<>>
  <2> DEFINE v == Append(u, line)
             q == [event |-> ServerNamed(v), data |-> ServerData(v)]
  <2>1. Frames(more) = fs /\ Unfinished(more) = v
    BY <1>5, FrameGoesOn
  <2>2. LineEvents(more) = LineEvents(lines) /\ ServerAfter(more) = q
    BY <1>1, <1>2, <2>1 DEF ServerAfter
  <2>3. /\ ServerNamed(v) = IF StartsWith(line, "event") THEN FieldText(line) ELSE p.event
        /\ ServerData(v) = IF StartsWith(line, "data") THEN Append(p.data, FieldText(line)) ELSE p.data
    <3> HIDE DEF u
    <3> QED  BY <1>1, <1>3, ServerNamedAppend, ServerDataAppend
  <2>4. ~(StartsWith(line, "event") /\ StartsWith(line, "data"))
    BY LineResultIs
  <2>5. \E w \in {[p EXCEPT !.event = FieldText(line)],
                  [p EXCEPT !.data = Append(p.data, FieldText(line))], p} : q = w /\ r = Nothing(w)
    <3> HIDE DEF v, u
    <3>1. CASE StartsWith(line, "event")
      <4>1. q = [p EXCEPT !.event = FieldText(line)]
        BY <1>3, <2>3, <2>4, <3>1 DEF Parser
      <4>2. r = Nothing([p EXCEPT !.event = FieldText(line)])
        BY <1>5, <3>1, LineResultIs
      <4> HIDE DEF q, r
      <4> QED  BY <4>1, <4>2
    <3>2. CASE StartsWith(line, "data")
      <4>1. q = [p EXCEPT !.data = Append(p.data, FieldText(line))]
        <5> DEFINE d == Append(p.data, FieldText(line))
        <5>1. q = [event |-> p.event, data |-> d]
          BY <2>3, <2>4, <3>2
        <5> HIDE DEF d, q
        <5>2. q = [p EXCEPT !.data = d]
          BY <1>3, <5>1 DEF Parser
        <5> QED  BY <5>2 DEF d
      <4>2. r = Nothing([p EXCEPT !.data = Append(p.data, FieldText(line))])
        BY <1>5, <3>2, LineResultIs
      <4> HIDE DEF q, r
      <4> QED  BY <4>1, <4>2
    <3>3. CASE ~StartsWith(line, "event") /\ ~StartsWith(line, "data")
      <4>1. q = p
        BY <1>3, <2>3, <3>3 DEF Parser
      <4>2. r = Nothing(p)
        BY <1>5, <3>3, LineResultIs
      <4> HIDE DEF q, r
      <4> QED  BY <4>1, <4>2
    <3> QED  BY <3>1, <3>2, <3>3
  <2> HIDE DEF q, r, more
  <2>6. r.parser = q /\ r.kind = "none"
    BY <2>5, NothingIs
  <2> QED  BY <2>2, <2>6 DEF r, more
<1> QED  BY <1>4, <1>5
-----------------------------------------------------------------------------
(* The events delivered.                                                   *)

\* Where the call stands in the body.
LEMMA Parts ==
  ASSUME Types, BodyInParts
  PROVE  /\ body \in Text /\ Len(body) \in Nat
         /\ arrived \in Nat /\ arrived <= Len(body) /\ Len(wire) = Len(body) - arrived
         /\ received = Part(body, 0, arrived) /\ received \in Text /\ Len(received) = arrived
         /\ wire = Part(body, arrived, Len(body))
<1>1. /\ body \in Text /\ Len(body) \in Nat /\ wire \in Text /\ Len(wire) \in Nat
  BY EndsType DEF Types, body
<1>2. arrived \in Nat /\ arrived <= Len(body) /\ Len(wire) = Len(body) - arrived /\ 0 + 1 = 1
  BY <1>1 DEF arrived, BodyInParts
<1>3. received = Part(body, 0, arrived)
  BY <1>2 DEF received, arrived, Part
<1>4. received \in Text /\ Len(received) = arrived
  BY <1>1, <1>2, <1>3, FromStart
<1>5. wire = Part(body, arrived, Len(body))
  BY DEF BodyInParts, Part
<1> QED  BY <1>1, <1>2, <1>3, <1>4, <1>5

\* Where the getline loop stands in the text.
LEMMA Reading ==
  ASSUME Types, BodyInParts, pc = "parse"
  PROVE  /\ parsed \in Nat /\ parsed <= arrived
         /\ Len(response_body) = arrived - parsed
         /\ consumed = Part(body, 0, parsed) /\ consumed \in Text
         /\ response_body = Part(body, parsed, arrived) /\ response_body \in Text
<1>1. /\ body \in Text /\ Len(body) \in Nat /\ arrived \in Nat /\ arrived <= Len(body)
      /\ Len(response_body) <= arrived /\ Len(response_body) \in Nat
      /\ response_body \in Text /\ response_body = Part(body, parsed, arrived)
  BY Parts, EndsType DEF BodyInParts, Part
<1>2. /\ parsed \in Nat /\ parsed <= arrived /\ parsed <= Len(body)
      /\ Len(response_body) = arrived - parsed /\ 0 + 1 = 1
  BY <1>1 DEF parsed
<1>3. consumed = Part(body, 0, parsed)
  BY <1>2 DEF consumed, Part
<1>4. consumed \in Text
  BY <1>1, <1>2, <1>3, FromStart
<1> QED  BY <1>1, <1>2, <1>3, <1>4

\* What takes nothing from the body leaves its parts what they were.
LEMMA SameParts ==
  ASSUME UNCHANGED <<response, wire>>
  PROVE  body' = body /\ arrived' = arrived /\ received' = received
<1>1. body' = body
  BY DEF body
<1> QED  BY <1>1 DEF arrived, received

\* The events of a text are a sequence of events.
LEMMA ServerEventsType ==
  ASSUME NEW t \in Text
  PROVE  /\ ServerEvents(t) \in Seq(Event)
         /\ Begins(<<>>, ServerEvents(t)) /\ Begins(ServerEvents(t), ServerEvents(t))
         /\ <<>> \in Seq(Event)
<1>1. ServerEvents(t) \in Seq(Event)
  BY AllLinesType, LineEventsAre DEF ServerEvents
<1>2. Len(ServerEvents(t)) \in Nat /\ Len(<<>>) = 0 /\ <<>> \in Seq(Event)
  BY <1>1, LenProperties, EmptySeq
<1> QED  BY <1>1, <1>2 DEF Begins

\* Nothing has arrived, and nothing has been delivered.
LEMMA InitEvents == Init => EventInv
<1> SUFFICES ASSUME Init  PROVE EventInv
  OBVIOUS
<1>1. /\ body \in Text /\ wire = body /\ Len(body) \in Nat
      /\ pc = "init" /\ parser = NewParser /\ calls = <<>> /\ response_body = <<>>
  <2>1. body \in Text /\ wire = body
    BY ServerStreamAssumption DEF Init, body
  <2> QED  BY <2>1, EndsType DEF Init
<1>2. arrived = 0 /\ received = <<>> /\ 0 + 1 = 1
  <2>1. Len(body) - Len(wire) = 0
    BY <1>1
  <2> QED  BY <2>1, SubSeqEmpty DEF arrived, received
<1>3. BodyInParts
  <2>1. SubSeq(body, 1, Len(body)) = body
    BY <1>1, SubSeqFull DEF Text
  <2> QED  BY <1>1, <1>2, <2>1, EmptyText DEF BodyInParts
<1>4. FirstEvents
  BY <1>1, <1>2, EmptyText, ServerEventsType DEF FirstEvents
<1> QED  BY <1>1, <1>3, <1>4 DEF EventInv, LinesParsed, AllWhenReturned

\* write_callback appends to response_body and delivers nothing.
LEMMA ReceiveEvents ==
  ASSUME IInv, EventInv, ReceiveChunk
  PROVE  EventInv'
<1>1. PICK n \in 1 .. Len(wire) : /\ response_body' = response_body \o SubSeq(wire, 1, n)
                                  /\ wire' = SubSeq(wire, n + 1, Len(wire))
  BY DEF ReceiveChunk
<1>2. /\ pc = "perform" /\ pc' = "perform"
      /\ UNCHANGED <<response, parser, calls>> /\ body' = body
      /\ Types /\ BodyInParts /\ calls = <<>>
      /\ response_body = received /\ parser = NewParser
  BY DEF ReceiveChunk, IInv, EventInv, BeforeTransferEnds, BodyInParts, body
<1> DEFINE b == body
           a == arrived
<1>3. /\ b \in Text /\ Len(b) \in Nat /\ a \in Nat /\ a <= Len(b) /\ Len(wire) = Len(b) - a
      /\ response_body = Part(b, 0, a) /\ wire = Part(b, a, Len(b))
      /\ 0 \in Nat /\ 0 <= a /\ 0 + 1 = 1
  BY <1>2, Parts
<1>4. n \in Nat /\ a + n \in Nat /\ n \in 1 .. (Len(b) - a) /\ a + n <= Len(b)
  BY <1>3
<1>5. /\ wire' = Part(b, a + n, Len(b)) /\ Len(wire') = Len(b) - (a + n)
      /\ response_body' = Part(b, 0, a + n) /\ Part(b, 0, a + n) \in Text
  <2> HIDE DEF a, b
  <2>1. /\ SubSeq(Part(b, a, Len(b)), n + 1, Len(b) - a) = Part(b, a + n, Len(b))
        /\ Len(Part(b, a + n, Len(b))) = Len(b) - (a + n)
        /\ Part(b, 0, a) \o SubSeq(Part(b, a, Len(b)), 1, n) = Part(b, 0, a + n)
        /\ Part(b, 0, a + n) \in Text
    <3>1. PICK p \in Nat : p = 0
      OBVIOUS
    <3>2. p <= a
      BY <1>3, <3>1
    <3>3. /\ SubSeq(Part(b, a, Len(b)), n + 1, Len(b) - a) = Part(b, a + n, Len(b))
          /\ Len(Part(b, a + n, Len(b))) = Len(b) - (a + n)
          /\ Part(b, p, a) \o SubSeq(Part(b, a, Len(b)), 1, n) = Part(b, p, a + n)
          /\ Part(b, 0, a + n) \in Text
      <4>1. p \in Nat /\ a \in Nat /\ b \in Text /\ p <= a /\ a <= Len(b) /\ n \in 1 .. (Len(b) - a)
        BY <1>3, <1>4, <3>2
      <4> QED  BY ONLY <4>1, ChunkMoves
    <3>4. Part(b, 0, a) \o SubSeq(Part(b, a, Len(b)), 1, n) = Part(b, 0, a + n)
      BY <3>1, <3>3, Zenon
    <3> QED  BY <3>3, <3>4
  <2> QED  BY <1>1, <1>3, <2>1
<1>6. arrived' = a + n
  BY <1>2, <1>3, <1>4, <1>5 DEF arrived
<1>7. received' = Part(b, 0, a + n)
  <2>1. Len(body) - Len(wire') = a + n
    BY <1>3, <1>4, <1>5
  <2> QED  BY <1>2, <1>3, <2>1 DEF received, Part
<1>8. BodyInParts'
  <2>1. Len(wire') <= Len(body') /\ wire' = SubSeq(body', arrived' + 1, Len(body'))
    BY <1>2, <1>3, <1>4, <1>5, <1>6 DEF Part
  <2> QED  BY <1>2, <1>5, <1>7, <2>1 DEF BodyInParts
<1>9. FirstEvents'
  BY <1>2, <1>5, <1>7, ServerEventsType DEF FirstEvents
<1> QED  BY <1>2, <1>8, <1>9 DEF EventInv, LinesParsed, AllWhenReturned

\* The transfer ends: the text collected is the text parsed.
LEMMA PerformedEvents ==
  ASSUME IInv, EventInv, pc = "perform", NEW code, Performed(code)
  PROVE  EventInv'
<1>1. /\ UNCHANGED <<response, wire, response_body, parser, calls, client>>
      /\ result' = code
      /\ \/ Parses(code) /\ pc' = "parse"
         \/ ~Parses(code) /\ pc' = "done"
  BY DEF Performed
<1>2. /\ Types /\ BodyInParts /\ FirstEvents /\ calls = <<>>
      /\ response_body = received /\ parser = NewParser
      /\ body' = body /\ arrived' = arrived /\ received' = received
  BY <1>1, SameParts DEF IInv, EventInv, BeforeTransferEnds, BodyInParts
<1>3. /\ received \in Text /\ Len(received) = arrived /\ arrived \in Nat
      /\ received = Part(body, 0, arrived) /\ 0 + 1 = 1
  BY <1>2, Parts
<1>4. parsed' = 0 /\ consumed' = <<>>
  <2>1. parsed' = 0
    BY <1>1, <1>2, <1>3 DEF parsed
  <2> QED  BY <2>1, SubSeqEmpty DEF consumed
<1>5. BodyInParts'
  <2>1. Len(response_body') <= arrived' /\ response_body' = SubSeq(body', parsed' + 1, arrived')
    BY <1>1, <1>2, <1>3, <1>4 DEF Part
  <2> QED  BY <1>1, <1>2, <2>1 DEF BodyInParts
<1>6. LinesParsed'
  BY <1>1, <1>2, <1>4, EmptyText, ServerNoLines DEF LinesParsed
<1>7. FirstEvents'
  BY <1>1, <1>2 DEF FirstEvents
<1>8. AllWhenReturned'
  BY <1>1 DEF AllWhenReturned, Parses
<1> QED  BY <1>5, <1>6, <1>7, <1>8 DEF EventInv

\* What getline leaves of a text.
LEMMA GetlineIs ==
  ASSUME NEW s \in Text
  PROVE  /\ Has(LF, s) => \E k \in 1 .. Len(s) :
              /\ FindsAt(LF, s, k)
              /\ Getline(s).line = SubSeq(s, 1, k - 1)
              /\ Getline(s).left = SubSeq(s, k + 1, Len(s))
         /\ ~Has(LF, s) => Getline(s).line = s /\ Getline(s).left = <<>>
<1> DEFINE k == CHOOSE i \in 1 .. Len(s) : FindsAt(LF, s, i)
<1>1. Has(LF, s) => k \in 1 .. Len(s) /\ FindsAt(LF, s, k)
  BY FindSucceeds DEF Text
<1>2. Has(LF, s) => Getline(s) = [line |-> SubSeq(s, 1, k - 1), left |-> SubSeq(s, k + 1, Len(s))]
  BY DEF Getline
<1>3. ~Has(LF, s) => Getline(s) = [line |-> s, left |-> <<>>]
  BY DEF Getline
<1> HIDE DEF k
<1>4. ASSUME Has(LF, s)
      PROVE  /\ k \in 1 .. Len(s) /\ FindsAt(LF, s, k)
             /\ Getline(s).line = SubSeq(s, 1, k - 1)
             /\ Getline(s).left = SubSeq(s, k + 1, Len(s))
  BY <1>1, <1>2, <1>4
<1>5. ASSUME ~Has(LF, s)  PROVE Getline(s).line = s /\ Getline(s).left = <<>>
  BY <1>3, <1>5
<1> QED  BY <1>4, <1>5

\* One turn of the getline loop on a line that has an end.
LEMMA LineTaken ==
  ASSUME NEW t \in Text, NEW a \in Nat, a <= Len(t), NEW c \in Nat, c <= a,
         Closed(Part(t, 0, c)), Has(LF, Part(t, c, a))
  PROVE  \E m \in Nat :
           /\ c <= m /\ m <= a /\ Closed(Part(t, 0, m))
           /\ Getline(Part(t, c, a)).left = Part(t, m, a)
           /\ StripCR(Getline(Part(t, c, a)).line) \in Text
           /\ CompleteLines(Part(t, 0, m)) =
                Append(CompleteLines(Part(t, 0, c)), StripCR(Getline(Part(t, c, a)).line))
           /\ CompleteLines(Part(t, 0, c)) \in Seq(Text)
<1> DEFINE w == Part(t, c, a)
<1>1. w \in Text /\ Len(w) = a - c /\ Len(t) \in Nat
  BY PartIs, EndsType
<1>2. PICK k \in 1 .. Len(w) : /\ FindsAt(LF, w, k)
                               /\ Getline(w).line = SubSeq(w, 1, k - 1)
                               /\ Getline(w).left = SubSeq(w, k + 1, Len(w))
  <2> HIDE DEF w
  <2> QED  BY <1>1, GetlineIs DEF w
<1>3. k \in 1 .. (a - c) /\ c + k \in Nat /\ c <= c + k /\ c + k <= a
  BY <1>1, <1>2
<1>4. /\ CompleteLines(Part(t, 0, c + k)) =
           Append(CompleteLines(Part(t, 0, c)), StripCR(SubSeq(w, 1, k - 1)))
      /\ Closed(Part(t, 0, c + k))
      /\ SubSeq(w, k + 1, a - c) = Part(t, c + k, a)
  BY <1>2, <1>3, LineConsumed
<1>5. StripCR(SubSeq(w, 1, k - 1)) \in Text
  <2>1. 1 \in Nat \ {0} /\ k - 1 \in 0 .. Len(w)
    BY <1>1, <1>2
  <2> HIDE DEF w
  <2> QED  BY <1>1, <2>1, SubText, StripCRText
<1>6. CompleteLines(Part(t, 0, c)) \in Seq(Text)
  <2>1. Part(t, 0, c) \in Text
    BY <1>1, FromStart
  <2> QED  BY <2>1, CompleteLinesType
<1> HIDE DEF w
<1>7. /\ Getline(w).left = Part(t, c + k, a)
      /\ StripCR(Getline(w).line) \in Text
      /\ CompleteLines(Part(t, 0, c + k)) =
           Append(CompleteLines(Part(t, 0, c)), StripCR(Getline(w).line))
  BY <1>1, <1>2, <1>4, <1>5
<1> QED  BY <1>3, <1>4, <1>6, <1>7 DEF w

\* The last turn, on a line without an end.
LEMMA RestTaken ==
  ASSUME NEW t \in Text, NEW a \in Nat, a <= Len(t), NEW c \in Nat, c < a,
         Closed(Part(t, 0, c)), ~Has(LF, Part(t, c, a))
  PROVE  /\ Getline(Part(t, c, a)).left = <<>>
         /\ StripCR(Getline(Part(t, c, a)).line) \in Text
         /\ AllLines(Part(t, 0, a)) =
              Append(CompleteLines(Part(t, 0, c)), StripCR(Getline(Part(t, c, a)).line))
         /\ CompleteLines(Part(t, 0, c)) \in Seq(Text)
<1> DEFINE w == Part(t, c, a)
<1>1. c <= a /\ w \in Text /\ Len(w) = a - c /\ w # <<>> /\ Len(t) \in Nat
  <2>1. c <= a /\ Len(t) \in Nat
    BY EndsType
  <2>2. w \in Text /\ Len(w) = a - c
    BY <2>1, PartIs
  <2>3. Len(w) # 0
    BY <2>2
  <2> QED  BY <2>1, <2>2, <2>3, EmptySeq
<1>2. Getline(w).line = w /\ Getline(w).left = <<>>
  BY <1>1, GetlineIs
<1>3. /\ CompleteLines(Part(t, 0, a)) = CompleteLines(Part(t, 0, c))
      /\ Unterminated(Part(t, 0, a)) = w
  BY <1>1, RestUnterminated
<1>4. StripCR(w) \in Text
  BY <1>1, StripCRText
<1>5. CompleteLines(Part(t, 0, c)) \in Seq(Text)
  <2>1. Part(t, 0, c) \in Text
    BY <1>1, FromStart
  <2> QED  BY <2>1, CompleteLinesType
<1> HIDE DEF w
<1>6. AllLines(Part(t, 0, a)) = Append(CompleteLines(Part(t, 0, c)), StripCR(w))
  BY <1>1, <1>3 DEF AllLines
<1> QED  BY <1>2, <1>4, <1>5, <1>6 DEF w

\* A text all of whose lines have an end.
LEMMA AllConsumed ==
  ASSUME NEW t \in Text, Closed(t)
  PROVE  AllLines(t) = CompleteLines(t)
<1>1. Unterminated(t) = <<>>
  <2>1. Len(t) \in Nat
    BY EndsType
  <2> QED  BY <2>1, SubSeqEmpty DEF Unterminated, Left, Closed
<1> QED  BY <1>1 DEF AllLines

\* One turn of the getline loop takes the next line, or the rest of the text.
LEMMA ParseEvents ==
  ASSUME IInv, EventInv, ParseLine
  PROVE  EventInv'
<1> DEFINE line == StripCR(Getline(response_body).line)
           r    == LineResult(parser, line)
           old  == CompleteLines(consumed)
           more == Append(old, line)
<1>1. /\ pc = "parse" /\ response_body # <<>>
      /\ response_body' = Getline(response_body).left
      /\ UNCHANGED <<client, response, wire, result>>
      /\ parser' = r.parser
      /\ \/ r.kind = "none" /\ UNCHANGED <<pc, calls, outcome>>
         \/ /\ r.kind = "event" /\ calls' = Append(calls, r.event)
            /\ \/ UNCHANGED <<pc, outcome>>
               \/ pc' = "done" /\ outcome' = "handler"
  BY DEF ParseLine
<1>2. /\ Types /\ BodyInParts /\ LinesParsed /\ outcome = "running"
      /\ body' = body /\ arrived' = arrived /\ received' = received
  BY <1>1, SameParts DEF IInv, EventInv, Handles
<1>3. /\ body \in Text /\ Len(body) \in Nat
      /\ arrived \in Nat /\ arrived <= Len(body) /\ Len(wire) = Len(body) - arrived
      /\ received = Part(body, 0, arrived) /\ received \in Text
      /\ wire = Part(body, arrived, Len(body))
  BY <1>2, Parts
<1>4. /\ parsed \in Nat /\ parsed <= arrived /\ Len(response_body) = arrived - parsed
      /\ consumed = Part(body, 0, parsed) /\ consumed \in Text
      /\ response_body = Part(body, parsed, arrived) /\ response_body \in Text
  BY <1>1, <1>2, Reading
<1>5. /\ Closed(consumed) /\ parser = ServerAfter(old) /\ calls = LineEvents(old)
      /\ parsed < arrived
  <2>1. Len(response_body) # 0
    BY <1>1, <1>4, EmptySeq DEF Text
  <2>2. parsed < arrived
    BY <1>3, <1>4, <2>1
  <2>3. Closed(consumed) /\ parser = ServerAfter(old) /\ calls = LineEvents(old)
    BY <1>1, <1>2 DEF LinesParsed
  <2> QED  BY <2>2, <2>3
<1> HIDE DEF line, r, old, more
\* The lines taken with this one, and what is left of the text.
<1>6. /\ line \in Text /\ old \in Seq(Text) /\ response_body' \in Text
      /\ \/ /\ BodyInParts' /\ Closed(consumed') /\ CompleteLines(consumed') = more
            /\ Begins(more, AllLines(received))
         \/ response_body' = <<>> /\ AllLines(received) = more /\ BodyInParts'
  <2>1. CASE Has(LF, response_body)
    <3>1. PICK m \in Nat :
            /\ parsed <= m /\ m <= arrived /\ Closed(Part(body, 0, m))
            /\ Getline(Part(body, parsed, arrived)).left = Part(body, m, arrived)
            /\ StripCR(Getline(Part(body, parsed, arrived)).line) \in Text
            /\ CompleteLines(Part(body, 0, m)) =
                 Append(CompleteLines(Part(body, 0, parsed)),
                        StripCR(Getline(Part(body, parsed, arrived)).line))
            /\ CompleteLines(Part(body, 0, parsed)) \in Seq(Text)
      BY <1>3, <1>4, <1>5, <2>1, LineTaken
    <3>2. /\ line \in Text /\ old \in Seq(Text) /\ response_body' = Part(body, m, arrived)
          /\ CompleteLines(Part(body, 0, m)) = more
      BY <1>1, <1>4, <3>1 DEF line, old, more
    <3>3. response_body' \in Text /\ Len(response_body') = arrived - m
      BY <1>3, <3>1, <3>2, PartIs
    <3>4. parsed' = m /\ 0 + 1 = 1
      BY <1>2, <1>3, <3>1, <3>3 DEF parsed
    <3>5. consumed' = Part(body, 0, m)
      BY <1>2, <3>4 DEF consumed, Part
    <3>6. Begins(more, AllLines(received))
      <4>1. Part(body, 0, m) \in Text /\ Begins(Part(body, 0, m), received)
        <5>1. m <= Len(body)
          BY <1>3, <3>1
        <5>2. Part(body, 0, m) \in Text
          BY <1>3, <5>1, FromStart
        <5> QED  BY <1>3, <3>1, <5>2, PartsBegin
      <4>2. /\ Begins(more, CompleteLines(received)) /\ more \in Seq(Text)
            /\ CompleteLines(received) \in Seq(Text)
        BY <1>3, <3>2, <4>1, CompleteLinesBelow, CompleteLinesType
      <4>3. Begins(CompleteLines(received), AllLines(received)) /\ AllLines(received) \in Seq(Text)
        BY <1>3, AllLinesType
      <4> QED  BY <4>2, <4>3, BeginsTrans
    <3>7. BodyInParts'
      <4>1. /\ Len(response_body') <= arrived'
            /\ response_body' = SubSeq(body', parsed' + 1, arrived')
        BY <1>2, <1>3, <3>1, <3>2, <3>3, <3>4 DEF Part
      <4>2. pc' \notin {"init", "perform"}
        BY <1>1
      <4> QED  BY <1>1, <1>2, <3>3, <4>1, <4>2 DEF BodyInParts
    <3> QED  BY <3>1, <3>2, <3>3, <3>5, <3>6, <3>7
  <2>2. CASE ~Has(LF, response_body)
    <3>1. /\ Getline(Part(body, parsed, arrived)).left = <<>>
          /\ StripCR(Getline(Part(body, parsed, arrived)).line) \in Text
          /\ AllLines(Part(body, 0, arrived)) =
               Append(CompleteLines(Part(body, 0, parsed)),
                      StripCR(Getline(Part(body, parsed, arrived)).line))
          /\ CompleteLines(Part(body, 0, parsed)) \in Seq(Text)
      BY <1>3, <1>4, <1>5, <2>2, RestTaken
    <3>2. /\ line \in Text /\ old \in Seq(Text) /\ response_body' = <<>>
          /\ AllLines(received) = more
      BY <1>1, <1>3, <1>4, <3>1 DEF line, old, more
    <3>3. response_body' \in Text /\ Len(response_body') = 0
      BY <3>2, EmptyText, EmptySeq
    <3>4. BodyInParts'
      <4>1. parsed' = arrived
        BY <1>2, <1>3, <3>3 DEF parsed
      <4>2. SubSeq(body, arrived + 1, arrived) = <<>>
        BY <1>3, SubSeqEmpty
      <4>3. pc' \notin {"init", "perform"}
        BY <1>1
      <4> QED  BY <1>1, <1>2, <1>3, <3>2, <3>3, <4>1, <4>2, <4>3 DEF BodyInParts
    <3> QED  BY <3>2, <3>3, <3>4
  <2> QED  BY <2>1, <2>2
<1>7. /\ parser' = ServerAfter(more) /\ more \in Seq(Text) /\ calls' = LineEvents(more)
      /\ calls' \in Seq(Event)
  <2>1. /\ r.parser = ServerAfter(more)
        /\ r.kind = "none" => LineEvents(more) = LineEvents(old)
        /\ r.kind = "event" => LineEvents(more) = Append(LineEvents(old), r.event)
    BY <1>5, <1>6, ServerLineInterpreted DEF r, more
  <2>2. more \in Seq(Text)
    BY <1>6, AppendProperties DEF more
  <2> QED  BY <1>1, <1>5, <2>1, <2>2, LineEventsAre
<1>8. LinesParsed'
  BY <1>2, <1>6, <1>7 DEF LinesParsed, ServerEvents
<1>9. FirstEvents'
  <2>1. Begins(more, AllLines(received)) /\ AllLines(received) \in Seq(Text)
    <3>1. AllLines(received) \in Seq(Text) /\ Begins(more, more)
      <4>1. Len(more) \in Nat
        BY <1>7, LenProperties
      <4> QED  BY <1>3, <4>1, AllLinesType DEF Begins
    <3> QED  BY <1>6, <3>1
  <2> QED  BY <1>2, <1>7, <2>1, LineEventsBelow DEF FirstEvents, ServerEvents
<1>10. AllWhenReturned'
  BY <1>1, <1>2 DEF AllWhenReturned
<1> QED  BY <1>6, <1>8, <1>9, <1>10 DEF EventInv

\* The end of the text: everything in it has been interpreted.
LEMMA EndEvents ==
  ASSUME IInv, EventInv, EndOfText
  PROVE  EventInv'
<1>1. /\ pc = "parse" /\ response_body = <<>> /\ pc' = "done"
      /\ UNCHANGED <<client, response, wire, response_body, parser, result, calls>>
  BY DEF EndOfText
<1>2. /\ Types /\ BodyInParts /\ LinesParsed /\ FirstEvents
      /\ body' = body /\ arrived' = arrived /\ received' = received
  BY <1>1, SameParts DEF IInv, EventInv
<1>3. calls = ServerEvents(received)
  <2>1. CASE Closed(consumed) /\ calls = LineEvents(CompleteLines(consumed))
    <3>1. /\ received \in Text /\ received = Part(body, 0, arrived) /\ arrived \in Nat
          /\ parsed \in Nat /\ parsed <= arrived /\ Len(response_body) = arrived - parsed
          /\ consumed = Part(body, 0, parsed)
      BY <1>1, <1>2, Parts, Reading
    <3>2. consumed = received
      <4>1. parsed = arrived
        BY <1>1, <3>1, EmptySeq
      <4> QED  BY <3>1, <4>1
    <3>3. AllLines(received) = CompleteLines(received)
      BY <2>1, <3>1, <3>2, AllConsumed
    <3> QED  BY <2>1, <3>2, <3>3 DEF ServerEvents
  <2> QED  BY <1>1, <1>2, <2>1 DEF LinesParsed
<1> QED  BY <1>1, <1>2, <1>3
         DEF EventInv, BodyInParts, LinesParsed, FirstEvents, AllWhenReturned

\* A step outside the transfer and the parser changes nothing of this.
LEMMA OtherEvents ==
  ASSUME IInv, EventInv, InitFails \/ DumpThrows \/ Start \/ UNCHANGED vars
  PROVE  EventInv'
<1>1. UNCHANGED <<client, response, wire, response_body, parser, result, calls>>
  BY DEF InitFails, DumpThrows, Start, vars
<1>2. /\ body' = body /\ arrived' = arrived /\ received' = received
      /\ parsed' = parsed /\ consumed' = consumed
  <2>1. body' = body /\ arrived' = arrived /\ received' = received
    BY <1>1, SameParts
  <2>2. parsed' = parsed
    BY <1>1, <2>1 DEF parsed
  <2> QED  BY <2>1, <2>2 DEF consumed
<1>3. CASE UNCHANGED vars
  BY <1>1, <1>2, <1>3
     DEF vars, EventInv, BodyInParts, LinesParsed, FirstEvents, AllWhenReturned, Parses
<1>4. CASE InitFails \/ DumpThrows \/ Start
  <2>1. pc = "init" /\ result = "none" /\ pc' \in {"perform", "done"}
    BY <1>4 DEF InitFails, DumpThrows, Start, IInv, BeforeTransferEnds
  <2> QED  BY <1>1, <1>2, <2>1
           DEF EventInv, BodyInParts, LinesParsed, FirstEvents, AllWhenReturned
<1> QED  BY <1>3, <1>4

\* The invariant is inductive, given that of the control state.
LEMMA NextEvents == IInv /\ EventInv /\ [Next]_vars => EventInv'
<1> SUFFICES ASSUME IInv, EventInv, [Next]_vars  PROVE EventInv'
  OBVIOUS
<1>1. CASE ReceiveChunk
  BY <1>1, ReceiveEvents
<1>2. CASE PeerCloses
  BY <1>2, PerformedEvents DEF PeerCloses
<1>3. CASE ConnectionBreaks
  BY <1>3, PerformedEvents DEF ConnectionBreaks
<1>4. CASE ParseLine
  BY <1>4, ParseEvents
<1>5. CASE EndOfText
  BY <1>5, EndEvents
<1>6. CASE InitFails \/ DumpThrows \/ Start \/ UNCHANGED vars
  BY <1>6, OtherEvents
<1> QED
  BY <1>1, <1>2, <1>3, <1>4, <1>5, <1>6 DEF Next, Client, Peer, Finished

\* So both hold in every reachable state.
LEMMA EventInvHolds == Spec => [](IInv /\ EventInv)
<1>1. Init => IInv /\ EventInv
  BY InitIInv, InitEvents
<1>2. IInv /\ EventInv /\ [Next]_vars => (IInv /\ EventInv)'
  BY NextIInv, NextEvents
<1> QED  BY <1>1, <1>2, PTL DEF Spec
-----------------------------------------------------------------------------
(* A cut between the lines of a text.                                      *)

\* A text is closed up to its last line feed.
LEMMA ClosedUpTo ==
  ASSUME NEW s \in Text, NEW c, c = LastOf(Ends(s))
  PROVE  /\ c \in 0 .. Len(s) /\ Closed(Part(s, 0, c)) /\ ~Has(LF, Part(s, c, Len(s)))
         /\ Unterminated(s) = Part(s, c, Len(s))
<1>1. Len(s) \in Nat /\ Ends(s) \in SUBSET (1 .. Len(s))
  BY EndsType
<1>2. c \in 0 .. Len(s) /\ \A i \in Ends(s) : i <= c
  <2> DEFINE P == Ends(s)
             l == Len(s)
  <2>1. l \in Nat /\ P \in SUBSET (1 .. l)
    BY <1>1
  <2> HIDE DEF P, l
  <2>2. P # {} => Max(P) \in 1 .. l /\ \A i \in P : i <= Max(P)
    BY <2>1, LastExists
  <2>3. c = IF P = {} THEN 0 ELSE Max(P)
    BY DEF LastOf, P
  <2> QED  BY <2>1, <2>2, <2>3 DEF P, l
<1> DEFINE q == Part(s, 0, c)
<1>3. q \in Text /\ Len(q) = c /\ Begins(q, s)
  BY <1>1, <1>2, FromStart, PartsBegin
<1> HIDE DEF q
<1>4. Ends(q) = Ends(s)
  <2>1. Ends(q) = {i \in Ends(s) : i <= Len(q)}
    BY <1>3, EndsBelow
  <2> QED  BY <1>2, <1>3, <2>1
<1>5. Closed(q)
  BY <1>3, <1>4 DEF Closed
<1>6. ~Has(LF, Part(s, c, Len(s)))
  <2>1. /\ Len(Part(s, c, Len(s))) = Len(s) - c
        /\ \A i \in 1 .. Len(s) - c : Part(s, c, Len(s))[i] = s[c + i]
    <3> DEFINE l == Len(s)
    <3>1. c \in Nat /\ l \in Nat /\ c <= l /\ l <= Len(s)
      BY <1>1, <1>2
    <3> HIDE DEF l
    <3>2. Len(Part(s, c, l)) = l - c /\ \A i \in 1 .. l - c : Part(s, c, l)[i] = s[c + i]
      BY <3>1, PartIs
    <3> QED  BY <3>2 DEF l
  <2>2. ASSUME NEW i \in 1 .. Len(s) - c, s[c + i] = LF  PROVE FALSE
    <3>1. c + i \in 1 .. Len(s) /\ c + i > c
      BY <1>1, <1>2
    <3>2. c + i \in Ends(s)
      BY <2>2, <3>1 DEF Ends
    <3> QED  BY <1>1, <1>2, <3>1, <3>2
  <2> QED  BY <2>1, <2>2 DEF Has
<1> QED  BY <1>2, <1>5, <1>6 DEF q, Unterminated, Left, Part

\* The first n characters of a text whose carriage returns all end lines hold
\* no event that the text does not have.
LEMMA CutText ==
  ASSUME NEW t \in Text, ReturnsEndLines(t), NEW n \in Nat, n <= Len(t)
  PROVE  Begins(ServerEvents(Part(t, 0, n)), ServerEvents(t))
<1> DEFINE s == Part(t, 0, n)
           c == LastOf(Ends(s))
           rest == Unterminated(s)
           old == CompleteLines(s)
<1>1. /\ Len(t) \in Nat /\ s \in Text /\ Len(s) = n /\ Begins(s, t)
      /\ \A i \in 1 .. n : s[i] = t[i]
  BY EndsType, FromStart, PartsBegin
<1>2. /\ old \in Seq(Text) /\ AllLines(t) \in Seq(Text) /\ CompleteLines(t) \in Seq(Text)
      /\ Begins(old, CompleteLines(t)) /\ Begins(CompleteLines(t), AllLines(t))
      /\ rest \in Text /\ StripCR(rest) \in Text
  BY <1>1, CompleteLinesBelow, AllLinesType, StripCRText
<1>3. Begins(old, AllLines(t))
  BY <1>2, BeginsTrans
<1>4. Begins(LineEvents(old), LineEvents(AllLines(t)))
  BY <1>2, <1>3, LineEventsBelow
<1>5. CASE rest = <<>>
  BY <1>4, <1>5 DEF ServerEvents, AllLines
<1>6. CASE rest # <<>> /\ StripCR(rest) # <<>>
  <2> DEFINE last == StripCR(rest)
  <2>1. AllLines(s) = Append(old, last)
    BY <1>6 DEF AllLines
  <2> HIDE DEF last, old, s
  <2>2. LineEvents(Append(old, last)) = LineEvents(old)
    <3>1. last \in Text /\ last # <<>> /\ Append(old, last) \in Seq(Text)
      BY <1>2, <1>6, AppendProperties DEF last
    <3>2. Frames(Append(old, last)) = Frames(old)
      BY <1>2, <3>1, FrameGoesOn
    <3> QED  BY <3>2 DEF LineEvents
  <2> QED  BY <1>4, <2>1, <2>2 DEF ServerEvents, s
<1>7. CASE rest # <<>> /\ StripCR(rest) = <<>>
  <2>1. /\ c \in Nat /\ c <= n /\ Closed(Part(s, 0, c)) /\ ~Has(LF, Part(s, c, n))
        /\ rest = Part(s, c, n)
    <3> HIDE DEF s
    <3> QED  BY <1>1, ClosedUpTo
  <2>2. Len(rest) = n - c /\ Len(rest) \in Nat \ {0}
    <3>1. Len(rest) = n - c
      <4> HIDE DEF s, c, rest
      <4>1. n <= Len(s) /\ s \in Text
        BY <1>1
      <4>2. Len(Part(s, c, n)) = n - c
        BY <2>1, <4>1, PartIs
      <4> QED  BY <2>1, <4>2
    <3>2. Len(rest) # 0
      <4> HIDE DEF rest
      <4> QED  BY <1>2, <1>7, EmptySeq DEF Text
    <3> HIDE DEF rest
    <3> QED  BY <1>2, <2>1, <3>1, <3>2
  <2>3. n - c = 1 /\ rest[1] = CR
    <3> HIDE DEF rest, c, s
    <3> DEFINE l == Len(rest) - 1
    <3>1. rest[Len(rest)] = CR /\ StripCR(rest) = SubSeq(rest, 1, l)
      BY <1>7 DEF StripCR
    <3>2. Len(Part(rest, 0, l)) = l /\ 0 + 1 = 1
      <4>1. l \in Nat /\ l <= Len(rest)
        BY <2>2
      <4> HIDE DEF l
      <4> QED  BY <1>2, <4>1, FromStart
    <3>3. l = 0
      BY <1>7, <3>1, <3>2, EmptySeq DEF Part
    <3> QED  BY <2>2, <3>1, <3>3
  <2>4. CASE n = Len(t)
    <3>1. s = t
      BY <1>1, <2>4, PartsBegin
    <3> QED  BY <3>1, ServerEventsType
  <2>5. CASE n # Len(t)
    <3> DEFINE m == n + 1
               w == Part(t, c, m)
    <3> HIDE DEF s, c, rest, old
    <3>1. /\ m \in Nat /\ m <= Len(t) /\ c <= m /\ m - c = 2 /\ c + 2 = m /\ c + 1 = n
          /\ c <= Len(t) /\ n \in 1 .. Len(t) - 1 /\ 2 \in 1 .. (m - c)
      BY <1>1, <2>1, <2>3, <2>5
    <3>2. t[n] = CR /\ t[m] = LF
      <4>1. rest[1] = s[c + 1]
        <5>1. 1 \in 1 .. n - c
          BY <2>3
        <5>2. n <= Len(s) /\ s \in Text
          BY <1>1
        <5>3. \A i \in 1 .. n - c : Part(s, c, n)[i] = s[c + i]
          BY <2>1, <5>2, PartIs
        <5> QED  BY <2>1, <5>1, <5>3
      <4>2. s[c + 1] = t[n]
        BY <1>1, <3>1
      <4>3. t[n] = CR
        BY <2>3, <4>1, <4>2
      <4> QED  BY <3>1, <4>3 DEF ReturnsEndLines
    <3>3. w \in Text /\ Len(w) = 2 /\ w[1] = CR /\ w[2] = LF
      <4> HIDE DEF m
      <4>1. w \in Text /\ Len(w) = m - c /\ \A i \in 1 .. m - c : w[i] = t[c + i]
        BY <3>1, <2>1, PartIs
      <4>2. 1 \in 1 .. m - c /\ 2 \in 1 .. m - c
        BY <3>1
      <4> QED  BY <3>1, <3>2, <4>1, <4>2
    <3>4. FindsAt(LF, w, 2)
      <4>1. \A j \in 1 .. (2 - 1) : j = 1
        OBVIOUS
      <4>2. CR # LF
        BY DEF CR, LF
      <4> HIDE DEF w
      <4> QED  BY <3>3, <4>1, <4>2 DEF FindsAt
    <3>5. Part(s, 0, c) = Part(t, 0, c) /\ rest = Part(t, c, n)
      <4>1. PICK z \in Nat : z = 0
        OBVIOUS
      <4>2. z <= n /\ z + c = c /\ z + n = n /\ n - z = n /\ z + z = 0 /\ z <= c
        BY <2>1, <4>1
      <4>3. Part(Part(t, z, n), c, n) = Part(t, z + c, z + n)
        BY <1>1, <2>1, <4>2, PartOfPart
      <4>4. Part(Part(t, z, n), z, c) = Part(t, z + z, z + c)
        BY <1>1, <2>1, <4>2, PartOfPart
      <4> QED  BY <2>1, <4>1, <4>2, <4>3, <4>4 DEF s
    <3>6. CompleteLines(Part(t, 0, c)) = old
      <4>1. CompleteLines(Part(t, 0, n)) = CompleteLines(Part(t, 0, c))
        BY <1>1, <2>1, <3>5, RestUnterminated
      <4> QED  BY <4>1 DEF old, s
    <3>7. SubSeq(w, 1, 2 - 1) = rest
      <4>1. PICK z \in Nat : z = 0
        OBVIOUS
      <4>2. /\ 1 \in Nat /\ z <= 1 /\ 1 <= m - c /\ c + z = c /\ 2 - 1 = 1 /\ z + 1 = 1
        BY <2>1, <3>1, <4>1
      <4> HIDE DEF m
      <4>3. Part(Part(t, c, m), z, 1) = Part(t, c + z, c + 1)
        BY <2>1, <3>1, <4>2, PartOfPart
      <4> QED  BY <3>1, <3>5, <4>2, <4>3 DEF Part
    <3>8. CompleteLines(Part(t, 0, m)) = Append(old, StripCR(rest))
      <4>1. Closed(Part(t, 0, c)) /\ FindsAt(LF, Part(t, c, m), 2)
        BY <2>1, <3>4, <3>5
      <4> HIDE DEF m, w
      <4>2. CompleteLines(Part(t, 0, c + 2)) =
              Append(CompleteLines(Part(t, 0, c)), StripCR(SubSeq(Part(t, c, m), 1, 2 - 1)))
        BY <2>1, <3>1, <4>1, LineConsumed
      <4> QED  BY <3>1, <3>6, <3>7, <4>2 DEF w
    <3>9. AllLines(s) = CompleteLines(Part(t, 0, m))
      BY <1>7, <3>8 DEF AllLines, rest, old
    <3>10. AllLines(s) \in Seq(Text) /\ Begins(AllLines(s), CompleteLines(t))
      <4> HIDE DEF m
      <4>1. Part(t, 0, m) \in Text /\ Begins(Part(t, 0, m), t)
        BY <3>1, FromStart, PartsBegin
      <4> QED  BY <3>9, <4>1, CompleteLinesBelow, CompleteLinesType
    <3>11. Begins(AllLines(s), AllLines(t))
      BY <1>2, <3>10, BeginsTrans
    <3> QED  BY <1>2, <3>10, <3>11, LineEventsBelow DEF ServerEvents, s
  <2> QED  BY <2>4, <2>5
<1> QED  BY <1>5, <1>6, <1>7
-----------------------------------------------------------------------------
(* Where the two parsers agree.                                            *)

\* A value loses its one leading space to either parser.
LEMMA OneSpace ==
  ASSUME NEW raw \in Text, raw # <<>>, raw[1] = SPACE
  PROVE  Tail(raw) \in Text /\ StripSpaces(Tail(raw)) = StripSpaces(raw)
<1> DEFINE rest == Tail(raw)
           l == Len(raw)
<1>1. /\ l \in Nat \ {0} /\ rest \in Text /\ Len(rest) = l - 1
      /\ rest = Part(raw, 1, l)
      /\ \A i \in 1 .. l - 1 : rest[i] = raw[i + 1]
  <2>1. l \in Nat /\ l # 0
    BY LenProperties, EmptySeq DEF Text
  <2>2. rest = SubSeq(raw, 1 + 1, l)
    <3>1. 1 + 1 = 2
      OBVIOUS
    <3> QED  BY <3>1, TailIsSubSeq DEF Text
  <2>3. rest \in Text /\ Len(rest) = l - 1 /\ \A i \in 1 .. l - 1 : rest[i] = raw[i + 1]
    BY HeadTailProperties DEF Text
  <2> QED  BY <2>1, <2>2, <2>3 DEF Part
<1> HIDE DEF rest, l
<1>2. PICK n \in 1 .. Len(rest) + 1 : Unspaced(rest, n)
  BY <1>1, UnspacedExists
<1>3. n \in Nat /\ n <= l /\ n - 1 \in Nat /\ n - 1 <= l - 1 /\ 1 + (n - 1) = n /\ 1 + (l - 1) = l
  BY <1>1, <1>2
<1>4. Unspaced(raw, n + 1)
  <2>1. n + 1 \in 1 .. Len(raw) + 1
    BY <1>1, <1>2 DEF l
  <2>2. ASSUME NEW i \in 1 .. (n + 1) - 1  PROVE raw[i] = SPACE
    <3>1. CASE i = 1
      BY <3>1
    <3>2. CASE i # 1
      <4>1. i - 1 \in 1 .. n - 1 /\ i - 1 \in 1 .. l - 1 /\ (i - 1) + 1 = i
        BY <1>1, <1>3, <3>2
      <4> QED  BY <1>1, <1>2, <4>1 DEF Unspaced
    <3> QED  BY <3>1, <3>2
  <2>3. n + 1 = Len(raw) + 1 \/ raw[n + 1] # SPACE
    <3>1. CASE n = Len(rest) + 1
      BY <1>1, <3>1 DEF l
    <3>2. CASE n # Len(rest) + 1
      <4>1. n \in 1 .. l - 1
        BY <1>1, <1>2, <3>2
      <4> QED  BY <1>1, <1>2, <3>2, <4>1 DEF Unspaced
    <3> QED  BY <3>1, <3>2
  <2> QED  BY <2>1, <2>2, <2>3 DEF Unspaced
<1>5. StripSpaces(rest) = SubSeq(rest, n, l - 1) /\ StripSpaces(raw) = SubSeq(raw, n + 1, l)
  BY <1>1, <1>2, <1>4, StripSpacesIs DEF l
<1>6. Part(rest, n - 1, l - 1) = Part(raw, n, l)
  <2>1. 1 \in Nat /\ l \in Nat /\ 1 <= l /\ l <= Len(raw) /\ l - 1 \in Nat
    BY <1>1 DEF l
  <2> DEFINE x == n - 1
             y == l - 1
  <2>2. x \in Nat /\ y \in Nat /\ x <= y /\ y <= l - 1 /\ 1 + x = n /\ 1 + y = l
    BY <1>3, <2>1
  <2> HIDE DEF x, y
  <2>3. Part(Part(raw, 1, l), x, y) = Part(raw, 1 + x, 1 + y)
    BY <2>1, <2>2, PartOfPart
  <2> QED  BY <1>1, <2>2, <2>3 DEF x, y
<1>7. (n - 1) + 1 = n
  BY <1>3
<1> QED  BY <1>1, <1>5, <1>6, <1>7 DEF Part, rest

\* On a plain line the two parsers find the same field with the same value.
LEMMA PlainField ==
  ASSUME NEW line \in Text, Plain(line), NEW name \in {"event", "data"}
  PROVE  /\ IsField(line, name) <=> StartsWith(line, name)
         /\ StartsWith(line, name) => Value(line) = FieldText(line)
<1>1. Len(line) \in Nat /\ name # COLON
  BY EndsType DEF COLON
<1>2. line # <<name>>
  BY DEF Plain
<1>3. ASSUME IsField(line, name)  PROVE StartsWith(line, name)
  <2>1. Field(line) = <<name>> /\ Has(COLON, line)
    BY <1>2, <1>3 DEF IsField, Field
  <2> DEFINE c == ColonAt(line)
             d == c - 1
  <2>2. FindsAt(COLON, line, c)
    BY <2>1, ColonAtFinds
  <2>3. Field(line) = SubSeq(line, 1, d)
    BY <2>1 DEF Field
  <2> HIDE DEF c
  <2>4. c \in 1 .. Len(line) /\ line[c] = COLON /\ d \in Nat /\ d <= Len(line) /\ 0 + 1 = 1
    BY <1>1, <2>2 DEF FindsAt
  <2>5. Len(<<name>>) = 1 /\ <<name>>[1] = name
    OBVIOUS
  <2>6. Len(Part(line, 0, d)) = d /\ \A i \in 1 .. d : Part(line, 0, d)[i] = line[i]
    <3> HIDE DEF d
    <3> QED  BY <2>4, FromStart
  <2>7. Part(line, 0, d) = <<name>>
    <3> HIDE DEF d
    <3> QED  BY <2>1, <2>3, <2>4 DEF Part
  <2>8. d = 1
    <3> HIDE DEF d
    <3> QED  BY <2>5, <2>6, <2>7
  <2>9. c = 2 /\ line[1] = name /\ line[2] = COLON
    <3>1. c = 2
      BY <2>4, <2>8
    <3>2. 1 \in 1 .. d
      BY <2>8
    <3> HIDE DEF d
    <3> QED  BY <2>4, <2>5, <2>6, <2>7, <3>1, <3>2
  <2> QED  BY <1>1, <2>4, <2>9, StartsWithIs
<1>4. ASSUME StartsWith(line, name)
      PROVE  IsField(line, name) /\ Value(line) = FieldText(line)
  <2>1. Len(line) >= 2 /\ line[1] = name /\ line[2] = COLON
    BY <1>4, StartsWithIs
  <2>2. FindsAt(COLON, line, 2)
    <3>1. 2 \in 1 .. Len(line) /\ \A j \in 1 .. (2 - 1) : j = 1
      BY <1>1, <2>1
    <3> QED  BY <1>1, <2>1, <3>1 DEF FindsAt
  <2>3. Has(COLON, line) /\ ColonAt(line) = 2
    <3>1. 2 \in 1 .. Len(line)
      BY <2>2 DEF FindsAt
    <3>2. Has(COLON, line)
      BY <2>1, <3>1 DEF Has
    <3>3. FindsAt(COLON, line, ColonAt(line))
      BY <3>2, ColonAtFinds
    <3> QED  BY <1>1, <2>2, <3>2, <3>3, FindIsUnique
  <2> DEFINE raw == SubSeq(line, 3, Len(line))
  <2>4. /\ Field(line) = SubSeq(line, 1, 1)
        /\ Value(line) = IF raw # <<>> /\ raw[1] = SPACE THEN Tail(raw) ELSE raw
        /\ FieldText(line) = StripSpaces(raw)
    <3>1. 2 - 1 = 1 /\ 2 + 1 = 3
      OBVIOUS
    <3>2. Field(line) = SubSeq(line, 1, 2 - 1)
      BY <2>3 DEF Field
    <3>3. Value(line) = LET v == SubSeq(line, 2 + 1, Len(line))
                        IN  IF v # <<>> /\ v[1] = SPACE THEN Tail(v) ELSE v
      BY <2>3 DEF Value
    <3> QED  BY <3>1, <3>2, <3>3 DEF FieldText
  <2>5. Field(line) = <<name>>
    <3>1. /\ Len(Part(line, 0, 1)) = 1 /\ \A i \in 1 .. 1 : Part(line, 0, 1)[i] = line[i]
          /\ Part(line, 0, 1) \in Text
      <4>1. 1 \in Nat /\ 1 <= Len(line)
        BY <1>1, <2>1
      <4> QED  BY <4>1, FromStart
    <3> DEFINE f == Part(line, 0, 1)
    <3>2. f \in Seq(Token) /\ Len(f) = 1 /\ f[1] = name /\ 0 + 1 = 1
      BY <2>1, <3>1 DEF Text
    <3> HIDE DEF f
    <3>3. f = <<name>>
      <4>1. f = [i \in 1 .. 1 |-> f[i]]
        BY <3>2
      <4> QED  BY <3>2, <4>1
    <3> QED  BY <2>4, <3>2, <3>3 DEF Part, f
  <2>6. IsField(line, name)
    BY <1>1, <2>1, <2>5 DEF IsField
  <2>7. raw \in Text
    <3>1. 3 \in Nat \ {0} /\ Len(line) \in 0 .. Len(line)
      BY <1>1
    <3> QED  BY <3>1, SubText
  <2>8. StripSpaces(Value(line)) = Value(line)
    BY <2>5 DEF Plain
  <2> HIDE DEF raw
  <2>9. CASE raw # <<>> /\ raw[1] = SPACE
    <3>1. StripSpaces(Tail(raw)) = StripSpaces(raw)
      BY <2>7, <2>9, OneSpace
    <3> QED  BY <2>4, <2>6, <2>8, <2>9, <3>1
  <2>10. CASE ~(raw # <<>> /\ raw[1] = SPACE)
    BY <2>4, <2>6, <2>8, <2>10
  <2> QED  BY <2>9, <2>10
<1> QED  BY <1>3, <1>4

\* On a frame of plain lines the two parsers make the same event.
LEMMA PlainFrame ==
  ASSUME NEW frame \in Seq(Text), \A i \in 1 .. Len(frame) : Plain(frame[i])
  PROVE  ServerData(frame) = DataOf(frame) /\ ServerEvent(frame) = EventOf(frame)
<1>1. \A i \in 1 .. Len(frame) : frame[i] \in Text
  BY ElementOfSeq
<1>2. /\ ServerFields(frame, "event") = Fields(frame, "event")
      /\ ServerFields(frame, "data") = Fields(frame, "data")
  BY <1>1, PlainField DEF ServerFields, Fields
<1>3. /\ Fields(frame, "event") \in SUBSET (1 .. Len(frame)) /\ Len(frame) \in Nat
      /\ Fields(frame, "data") \in SUBSET (1 .. Len(frame))
  BY FieldsType
<1>4. ServerNamed(frame) = Named(frame)
  <2> DEFINE names == Fields(frame, "event")
  <2>1. CASE names = {}
    BY <1>2, <2>1 DEF ServerNamed, Named
  <2>2. CASE names # {}
    <3> HIDE DEF names
    <3>1. Max(names) \in names /\ Max(names) \in 1 .. Len(frame)
      BY <1>3, <2>2, LastExists DEF names
    <3>2. FieldText(frame[Max(names)]) = Value(frame[Max(names)])
      <4>1. StartsWith(frame[Max(names)], "event")
        BY <1>2, <3>1 DEF names, ServerFields
      <4> QED  BY <1>1, <3>1, <4>1, PlainField
    <3> QED  BY <1>2, <2>2, <3>2 DEF ServerNamed, Named, names
  <2> QED  BY <2>1, <2>2
<1>5. ServerData(frame) = DataOf(frame)
  <2> DEFINE P == Fields(frame, "data")
             n == Cardinality(P)
             texts == [i \in 1 .. Len(frame) |-> FieldText(frame[i])]
             values == [i \in 1 .. Len(frame) |-> Value(frame[i])]
  <2>1. ASSUME NEW k \in 1 .. n  PROVE texts[Kth(P, k)] = values[Kth(P, k)]
    <3> DEFINE i == Kth(P, k)
    <3>1. i \in P /\ i \in 1 .. Len(frame)
      <4> HIDE DEF P
      <4> QED  BY <1>3, KthExists DEF P
    <3> HIDE DEF i
    <3>2. StartsWith(frame[i], "data")
      BY <1>2, <3>1 DEF ServerFields
    <3>3. FieldText(frame[i]) = Value(frame[i])
      BY <1>1, <3>1, <3>2, PlainField
    <3> QED  BY <3>1, <3>3 DEF i
  <2>2. ServerData(frame) = At(texts, P) /\ DataOf(frame) = At(values, P)
    BY <1>2 DEF ServerData, DataOf
  <2> HIDE DEF P, texts, values
  <2> QED  BY <2>1, <2>2 DEF At
<1> QED  BY <1>4, <1>5 DEF ServerEvent, EventOf

\* The lines of the frames are lines of the text.
LEMMA FrameLines ==
  ASSUME NEW lines \in Seq(Text), NEW k \in 1 .. Len(Frames(lines)),
         NEW i \in 1 .. Len(Frames(lines)[k])
  PROVE  \E j \in 1 .. Len(lines) : Frames(lines)[k][i] = lines[j]
<1> DEFINE P == Blanks(lines)
           a == From(P, k)
           b == Kth(P, k) - 1
<1>1. Len(lines) \in Nat /\ P \in SUBSET (1 .. Len(lines))
  BY BlanksType
<1>2. /\ Frames(lines)[k] = SubSeq(lines, a, b) /\ a \in 1 .. Len(lines) + 1
      /\ Kth(P, k) \in 1 .. Len(lines)
  <2> HIDE DEF P
  <2> QED  BY <1>1, PiecesType DEF Frames, P
<1>3. a \in Nat \ {0} /\ b \in 0 .. Len(lines) /\ a \in Int /\ b \in Int
  BY <1>1, <1>2
<1> HIDE DEF a, b, P
<1>4. \A x \in a .. b : lines[x] \in Text
  BY <1>1, <1>3, ElementOfSeq
<1>5. /\ Len(SubSeq(lines, a, b)) = IF a <= b THEN b - a + 1 ELSE 0
      /\ \A x \in 1 .. b - a + 1 : SubSeq(lines, a, b)[x] = lines[a + x - 1]
  BY <1>3, <1>4, SubSeqProperties
<1>6. i \in 1 .. b - a + 1 /\ a + i - 1 \in 1 .. Len(lines)
  BY <1>1, <1>2, <1>3, <1>5
<1> QED  BY <1>2, <1>5, <1>6

\* So they make the same events of plain lines, where there is data.
LEMMA PlainLines ==
  ASSUME NEW lines \in Seq(Text), \A i \in 1 .. Len(lines) : Plain(lines[i])
  PROVE  LineEvents(lines) = DataEvents(Frames(lines))
<1> DEFINE fs == Frames(lines)
<1>1. fs \in Seq(Seq(Text))
  BY FramesType
<1>2. ASSUME NEW k \in 1 .. Len(fs)
      PROVE  ServerData(fs[k]) = DataOf(fs[k]) /\ ServerEvent(fs[k]) = EventOf(fs[k])
  <2>1. fs[k] \in Seq(Text)
    BY <1>1, ElementOfSeq
  <2>2. \A i \in 1 .. Len(fs[k]) : Plain(fs[k][i])
    BY FrameLines
  <2> HIDE DEF fs
  <2> QED  BY <2>1, <2>2, PlainFrame
<1> HIDE DEF fs
<1>3. [k \in 1 .. Len(fs) |-> ServerEvent(fs[k])] = [k \in 1 .. Len(fs) |-> EventOf(fs[k])]
  BY <1>2
<1>4. {k \in 1 .. Len(fs) : ServerData(fs[k]) # <<>>} = {k \in 1 .. Len(fs) : DataOf(fs[k]) # <<>>}
  BY <1>2
<1> QED  BY <1>3, <1>4 DEF LineEvents, DataEvents, fs
-----------------------------------------------------------------------------

\* Wherever a connection breaks and whenever the handler throws, what it has
\* had are the first events of the whole body (server_client.cpp:152-184).
THEOREM NothingTruncated == Spec => []NoTruncatedEvent
<1>1. IInv /\ EventInv => NoTruncatedEvent
  <2> SUFFICES ASSUME IInv, EventInv, ReturnsEndLines(body)
               PROVE  IsPrefix(calls, ServerEvents(body))
    BY DEF NoTruncatedEvent
  <2>1. /\ body \in Text /\ received \in Text /\ received = Part(body, 0, arrived)
        /\ arrived \in Nat /\ arrived <= Len(body)
    BY Parts DEF IInv, EventInv
  <2>2. calls \in Seq(Event) /\ Begins(calls, ServerEvents(received))
    BY DEF EventInv, FirstEvents
  <2>3. Begins(ServerEvents(received), ServerEvents(body))
    BY <2>1, CutText
  <2>4. ServerEvents(received) \in Seq(Event) /\ ServerEvents(body) \in Seq(Event)
    BY <2>1, ServerEventsType
  <2>5. Begins(calls, ServerEvents(body))
    BY <2>2, <2>3, <2>4, BeginsTrans
  <2> QED  BY <2>2, <2>4, <2>5, BeginsIsPrefix
<1> QED  BY <1>1, EventInvHolds, PTL

\* On a body both parsers read alike the two clients deliver the same events,
\* but for those without a data line and the frame no blank line ends.
THEOREM ClientsAgree == Spec => []AgreesWithFormationClient
<1>1. IInv /\ EventInv => AgreesWithFormationClient
  <2> SUFFICES ASSUME IInv, EventInv, pc = "done", outcome = "returned", result = "OK",
                      PlainText(body)
               PROVE  calls = DataEvents(Frames(AllLines(body)))
    BY DEF AgreesWithFormationClient
  <2>1. body \in Text /\ wire = <<>> /\ received \in Text /\ Len(received) = Len(body) - Len(wire)
        /\ received = Part(body, 0, arrived) /\ Len(received) = arrived
    BY Parts DEF IInv, EventInv, Parsed
  <2>2. received = body
    <3>1. arrived = Len(body)
      BY <2>1, EndsType, EmptySeq
    <3>2. 0 + 1 = 1 /\ SubSeq(body, 1, Len(body)) = body
      BY <2>1, SubSeqFull DEF Text
    <3> QED  BY <2>1, <3>1, <3>2 DEF Part
  <2>3. calls = ServerEvents(body)
    BY <2>2 DEF EventInv, AllWhenReturned, Parses
  <2>4. AllLines(body) \in Seq(Text)
    BY <2>1, AllLinesType
  <2> QED  BY <2>3, <2>4, PlainLines DEF ServerEvents, PlainText
<1> QED  BY <1>1, EventInvHolds, PTL

\* A call that parsed and returned has delivered every event of what arrived,
\* after a failure of the transfer too.
THEOREM EverythingIsDelivered == Spec => []AllWhenReturned
<1>1. EventInv => AllWhenReturned
  BY DEF EventInv
<1> QED  BY <1>1, EventInvHolds, PTL
=============================================================================
