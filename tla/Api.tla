--------------------------------- MODULE Api ---------------------------------
(***************************************************************************)
(* A client and its calls: the configuration it was made with, the request *)
(* a method asks for, what libcurl and the server (external) see of it,    *)
(* and what the caller gets of the answer.  How the transfer goes and ends *)
(* is in Request, FormationStream and ServerStream.                        *)
(*                                                                         *)
(* Arguments go into a path and a query as they come: nothing is escaped.  *)
(***************************************************************************)
EXTENDS Endpoints, Auth, Envelope

CONSTANTS
  Ids,        \* the arguments of paths, as texts
  Users,      \* user ids, as texts; <<>> is the default
  Digests,    \* HMACs, as byte sequences
  Documents,  \* bodies of responses
  Frames,     \* data of error frames
  MaxSlashes  \* a bound on the slashes a configured URL ends with

ASSUME ApiAssumption ==
  /\ MaxSlashes \in Nat
  /\ \A d \in Documents : IsDocument(d)
  /\ \A f \in Frames : IsFrame(f)
  /\ Ids \subseteq Seq(STRING) /\ Users \subseteq Seq(STRING)
  /\ Digests \subseteq Seq(Byte)

VARIABLES
  config,   \* FormationConfig or ServerConfig
  call,     \* the running call and its arguments
  request,  \* what was sent, or that the method threw before
  reply,    \* what the server answered last, to this call or the one before
  result    \* what reached the caller of it

vars == <<config, call, request, reply, result>>

Clients  == {"formation", "server"}
Payloads == {"null", "empty", "object", "mixed", "array"}

\* url is FormationConfig::base_url or ServerConfig::url; a FormationConfig
\* without it needs server_url and formation_id.
Configs ==
  {c \in [client : Clients, url : {<<>>, <<"host">>}, server_url : {<<>>, <<"host">>},
          formation_id : {<<>>, <<"formation">>}, mode : {"live", "draft"},
          slashes : 0 .. MaxSlashes, app : BOOLEAN] :
     /\ c.client = "server" \/ c.url # <<>>
          => c.server_url = <<>> /\ c.formation_id = <<>> /\ c.mode = "live"
     /\ c.url = <<>> /\ c.server_url = <<>> => c.slashes = 0}
-----------------------------------------------------------------------------
(* The constructors.                                                       *)

Spelled(c, url) == IF url = <<>> THEN <<>> ELSE url \o [i \in 1 .. c.slashes |-> "/"]

\* Mutant of Stripped: one slash goes.
StrippedOnce(text) ==
  IF text # <<>> /\ Last(text) = "/" THEN Front(text) ELSE text

\* while (!url.empty() && url.back() == '/') url.pop_back()
Stripped(text) ==
  LET ends == {n \in 0 .. Len(text) : \A i \in n + 1 .. Len(text) : text[i] = "/"}
  IN  SubSeq(text, 1, CHOOSE n \in ends : \A m \in ends : n <= m)

BaseUrl(c) ==
  LET prefix == IF c.mode = "draft" THEN "draft" ELSE "api"
      proxied == Stripped(Spelled(c, c.server_url))
                   \o <<"/", prefix, "/">> \o c.formation_id \o <<"/", "v1">>
  IN  Stripped(IF c.url # <<>> \/ c.client = "server" THEN Spelled(c, c.url)
               ELSE IF c.server_url # <<>> /\ c.formation_id # <<>> THEN proxied
               ELSE <<>>)
-----------------------------------------------------------------------------
(* The methods.                                                            *)

OpsOf(client) == IF client = "formation" THEN FormationOps ELSE ServerOps
IsStream(op)  == op \in FormationStreams \cup ServerStreams

\* The arguments a method has; the others are as if not given.
CallsOf(op) ==
  [op     : {op},
   id     : IF \E i \in DOMAIN op.path : op.path[i] = "*" THEN Ids ELSE {<<>>},
   user   : IF op.user # {} THEN Users ELSE {<<>>},
   option : IF op.name \in DOMAIN Options \cup {"fire_trigger"} THEN BOOLEAN ELSE {FALSE},
   payload : IF op.body \in {"payload", "stream"} \/ op.name = "stream_logs"
             THEN Payloads ELSE {"null"}]

CallsTo(client) == UNION {CallsOf(op) : op \in OpsOf(client)}

PathText(c) ==
  FlattenSeq([i \in DOMAIN c.op.path |->
    <<"/">> \o IF c.op.path[i] = "*" THEN c.id ELSE <<c.op.path[i]>>])

\* Mutant of UserQuery: the two arguments are swapped.
UserQuerySwapped(c) == <<"user_id", "=">> \o IF c.id # <<>> THEN c.id ELSE c.user

UserQuery(c) == <<"user_id", "=">> \o c.user

\* The pairs of the query, in order; stream_logs has its filters there.
Query(c) ==
  (IF "query" \in c.op.user THEN <<UserQuery(c)>> ELSE <<>>)
  \o (IF c.option /\ c.op.name \in DOMAIN Options
      THEN <<<<Options[c.op.name], "=", "number">>>> ELSE <<>>)
  \o CASE c.op.name = "fire_trigger" -> <<<<"async", "=", IF c.option THEN "true" ELSE "false">>>>
       [] c.op.name = "clear_audit_log" -> <<<<"confirm", "=", "clear-audit-log">>>>
       [] c.op.name = "stream_logs" /\ c.payload = "object" ->
            <<<<"level", "=", "info">>, <<"agent", "=", "a">>>>
       [] OTHER -> <<>>

QueryText(pairs) ==
  FlattenSeq([i \in DOMAIN pairs |-> <<IF i = 1 THEN "?" ELSE "&">> \o pairs[i]])

Text(c) == PathText(c) \o QueryText(Query(c))

\* A filter that is no string throws, and so does "stream" put into an array.
MethodThrows(c) ==
  \/ c.op.name = "stream_logs" /\ c.payload = "mixed"
  \/ c.op.body = "stream" /\ c.payload = "array"

\* A payload that is null is no body; chat_stream makes an object of it.
Body(c) ==
  CASE c.op.body = "none"    -> "none"
    [] c.op.body = "payload" -> IF c.payload = "null" THEN "none" ELSE c.payload
    [] c.op.body = "made"    -> "made"
    [] c.op.body = "stream"  -> "stream"

\* The headers but for the key, the user and the signature.
Headers(c, app) ==
  {"X-Muxi-SDK"}
    \cup (IF IsStream(c.op) THEN {"Accept: text/event-stream"}
          ELSE {"Accept: application/json", "X-Muxi-Client", "X-Muxi-Idempotency-Key"})
    \cup (IF app /\ ~IsStream(c.op) THEN {"X-Muxi-App"} ELSE {})
    \cup (IF Body(c) # "none" THEN {"Content-Type: application/json"} ELSE {})

\* Of a request: method, text and what goes with it.
RequestOf(c, app, digest) ==
  [method  |-> c.op.method,
   text    |-> Text(c),
   headers |-> Headers(c, app),
   key     |-> c.op.key,
   user    |-> IF "header" \in c.op.user THEN c.user ELSE <<>>,
   body    |-> [form |-> Body(c),
                user |-> IF "body" \in c.op.user THEN c.user ELSE <<>>],
   auth    |-> IF c.op.key = "signed" THEN AuthHeader(Text(c), digest) ELSE NoAuthHeader]

\* The places of a path's slashes, each with the segment behind it.
Slashes(path) == {i \in DOMAIN path : path[i] = "/"}

DotSegments(path) ==
  {i \in Slashes(path) : /\ i < Len(path) /\ path[i + 1] \in {".", ".."}
                         /\ i + 1 < Len(path) => path[i + 2] = "/"}

\* Dot segments go, ".." with the name before it if there is one; at the end
\* they leave their slash (RFC 3986, 5.2.4).
Resolved(path) ==
  LET dots  == DotSegments(path)
      ups   == {i \in dots : path[i + 1] = ".."}
      names == Slashes(path) \ dots
      within(S, i, j) == Cardinality({k \in S : i < k /\ k <= j})
      stay  == {i \in names : \A j \in ups : within(ups, i, j) <= within(names, i, j)}
      kept  == {k \in DOMAIN path :
                  \/ \E i \in stay : i <= k /\ \A j \in Slashes(path) : i < j => k < j
                  \/ k \in dots /\ \A j \in Slashes(path) : j <= k}
  IN  IF dots = {} THEN path
      ELSE [n \in 1 .. Cardinality(kept) |->
              path[CHOOSE k \in kept : Cardinality({i \in kept : i <= k}) = n]]

\* libcurl (external) keeps a fragment to itself and resolves the path, which
\* begins behind the host of the base URL; the server takes the query off it.
PathSent(base, r) == Resolved(SubSeq(base, 2, Len(base)) \o Before(r.text, {"#", "?"}))
QuerySent(r) == After(Before(r.text, {"#"}), "?")

\* What of a request the server sees.
OnWire(base, r) ==
  [path |-> PathSent(base, r), query |-> QuerySent(r), method |-> r.method,
   headers |-> r.headers, key |-> r.key, user |-> r.user, body |-> r.body,
   signature |-> r.auth.signature]

\* libcurl asks standard input for the body of such a request.
ReadsStdin(r) == r.method = "POST" /\ r.body.form = "none"
-----------------------------------------------------------------------------
None == [kind |-> "none"]

TypeOK ==
  /\ config \in Configs
  /\ call = None \/ call \in CallsTo(config.client)
  /\ request.kind \in {"none", "thrown", "sent"}
  /\ request.kind = "sent" => request.is.auth.signature \in Seq(0 .. Pad)
  /\ reply.kind \in {"none", "document", "event", "frame"}
  /\ result.kind \in {"none", "value", "widgets", "exception", "nothing"}

Init ==
  /\ config \in Configs
  /\ call = None /\ request = None /\ reply = None /\ result = None

\* A method is called.
Call ==
  /\ request.kind # "sent"
  /\ \E c \in CallsTo(config.client) :
     \E digest \in IF c.op.key = "signed" THEN Digests ELSE {<<>>} :
       /\ call' = c
       /\ request' = IF MethodThrows(c) THEN [kind |-> "thrown"]
                     ELSE [kind |-> "sent", digest |-> digest, base |-> BaseUrl(config),
                           is |-> RequestOf(c, config.app, digest)]
  /\ reply' = None /\ result' = None
  /\ UNCHANGED config

\* The call is over with result r of the answer a.
Over(a, r) ==
  /\ request.kind = "sent"
  /\ reply' = a /\ result' = r /\ call' = None /\ request' = None
  /\ UNCHANGED config

Asked == request.kind = "sent" /\ request.base # <<>>

\* Without a base URL libcurl has no host to ask: ServerClient's streams do
\* not look, the others throw.
NoHost ==
  /\ request.kind = "sent" /\ request.base = <<>>
  /\ Over(None, [kind |-> IF config.client = "server" /\ IsStream(call.op)
                          THEN "nothing" ELSE "exception"])

\* A response of request(): ServerClient returns it as it is.
Respond ==
  /\ Asked /\ ~IsStream(call.op)
  /\ \E d \in Documents :
       Over([kind |-> "document", is |-> d],
            [kind |-> "value", of |-> IF config.client = "formation" THEN UnwrapEnvelope(d)
                                      ELSE [value |-> "document"]])

\* The handler of a FormationClient stream is given an event, and asks for the
\* widgets in it.
UiFrame ==
  /\ Asked /\ IsStream(call.op) /\ config.client = "formation"
  /\ \E e \in UiFrames :
       /\ reply' = [kind |-> "event", is |-> e]
       /\ result' = [kind |-> "widgets", of |-> ParseUiWidgets(e)]
  /\ UNCHANGED <<config, call, request>>

\* An error frame on a FormationClient stream.
ErrorFrame ==
  /\ Asked /\ IsStream(call.op) /\ config.client = "formation"
  /\ \E f \in Frames :
       Over([kind |-> "frame", is |-> f], [kind |-> "exception", of |-> ErrorOf(f)])

\* A stream without one returns, whatever it brought.
StreamEnds ==
  /\ Asked /\ IsStream(call.op)
  /\ Over(None, [kind |-> "nothing"])

Next == Call \/ NoHost \/ Respond \/ UiFrame \/ ErrorFrame \/ StreamEnds

Spec == Init /\ [][Next]_vars
=============================================================================
