------------------------------ MODULE ApiProps ------------------------------
(***************************************************************************)
(* What the calls of the two clients are expected to ask for and to return. *)
(***************************************************************************)
EXTENDS Api

Sent == request.kind = "sent"

\* The characters that mean something in a URL, and the words that do in its path.
Reserved == {"/", "?", "#", "&", "=", "+", "%", ".", ".."}
Plain(text) == \A i \in DOMAIN text : text[i] \notin Reserved

\* However many slashes the configured URL ends with, in either of its places,
\* the requests go to the same URL, in which base and path meet in one slash
\* (formation_client.cpp:80-89, server_client.cpp:53).
SlashesDontMatter ==
  Sent => /\ request.base = BaseUrl([config EXCEPT !.slashes = 0])
          /\ request.base # <<>> => Last(request.base) # "/"

\* Two different calls never look the same to the server: from method, path,
\* query, key, headers and body it can tell which method of the client was
\* called, for which item and which user, as long as the arguments hold nothing
\* reserved (formation_client.cpp:224-330, server_client.cpp:199-226).
DistinctRequests ==
  Sent /\ Plain(call.id) /\ Plain(call.user) =>
    \A other \in CallsTo(config.client) :
      /\ Plain(other.id) /\ Plain(other.user) /\ ~MethodThrows(other)
      /\ OnWire(request.base, RequestOf(other, config.app, request.digest))
           = OnWire(request.base, request.is)
      => [other EXCEPT !.payload = call.payload] = call

\* ServerClient signs the path the server sees if, and only if, there is neither
\* a '#' in what it signs, where libcurl ends the URL, nor a dot segment, which
\* libcurl resolves: get_formation("..") signs /rpc/formations/.. and asks for
\* /rpc/, so its signature is wrong.  A query is on neither side, nor is a '?'
\* that an argument brings.  For a URL without a path of its own
\* (auth.cpp:34-36, server_client.cpp:53-59).
SignedIsSent ==
  Sent /\ request.is.key = "signed" =>
    LET signed == request.is.auth.signed
    IN  signed = PathSent(request.base, request.is)
          <=> ~Contains(signed, "#") /\ DotSegments(signed) = {}

\* The signature in the header decodes to the bytes of the HMAC, also the last
\* group, which is short (auth.cpp:9-26).
SignatureDecodes ==
  Sent /\ request.is.key = "signed" =>
    /\ Decoded(request.is.auth.signature) = request.digest
    /\ Len(request.is.auth.signature) % 4 = 0

\* The user a query names, as a server decodes it.
UserInQuery(query) ==
  LET value == Before(After(query, "="), {"&"})
  IN  [i \in DOMAIN value |-> IF value[i] = "+" THEN " " ELSE value[i]]

\* A request that names its user in the query, in the header and in the body
\* names the same one everywhere, and it is the caller's, for arguments that
\* need no escaping: get_session takes (session, user) and delete_memory
\* (user, memory) (formation_client.cpp:241-276).
OneUser ==
  Sent /\ Plain(call.user) /\ Plain(call.id) =>
    {request.is.user, request.is.body.user,
     IF "query" \in call.op.user THEN UserInQuery(QuerySent(request.is)) ELSE <<>>}
    \ {<<>>} = IF call.op.user = {} THEN {} ELSE {call.user} \ {<<>>}

\* A call whose caller gives it what it needs never waits for standard input,
\* except pausing and resuming a job: of all POSTs only those two, and a
\* payload of null, come without a body (formation_client.cpp:121-128, 287-288).
StdinOnlyForNull ==
  Sent /\ ReadsStdin(request.is) =>
    \/ call.op.name \in {"pause_scheduler_job", "resume_scheduler_job"}
    \/ call.op.body = "payload" /\ call.payload = "null"

\* The exception of an error frame says what the frame says, but for a code
\* beside a type and a message beside an error, which give way to them: every
\* other field is its code or its message, or the message is the whole of the
\* data, because there was no string to read (formation_client.cpp:373-390).
ErrorFrameLoses ==
  reply.kind = "frame" =>
    LET f == reply.is  e == result.of
        lost == {p \in ErrorPlaces : f.at[p] # "absent" /\ p \notin {e.code, e.message}}
    IN  /\ \A p \in {e.code, e.message} \cap ErrorPlaces : f.at[p] = "string"
        /\ f.form # "empty" => e.message \in ErrorPlaces \cup {"data"}
        /\ e.message # "data" =>
             \A p \in lost : \/ p = "code" /\ e.code = "type"
                             \/ p = "message" /\ e.message = "error"
=============================================================================
