# A TLA+ verification of muxi-cpp

muxi-cpp is a C++ client library for the MUXI server: two HTTP clients built on
libcurl, with streaming calls that turn a server-sent-event response into callbacks.
This directory models its components, model-checks them with TLC and proves theorems
about all of them with TLAPS: every safety property that a passing run checks is also a
theorem, for every value of the constants.

Line numbers below are those of `src/…` in the repository.

## 1. Inventory

| Component | Source | State it keeps | Operations |
|---|---|---|---|
| SSE event parser | `formation_client.cpp` 332-392 | `current_event_`, `data_parts_` | `process_line`, `flush` |
| FormationClient stream | `formation_client.cpp` 33-62, 157-207 | easy handle, line buffer, parser, kept exception | `chat_stream`, `audio_chat_stream`, `stream_events`, `stream_logs` |
| ServerClient stream | `server_client.cpp` 124-186 | easy handle, the whole response, local parser | `deploy_formation_stream`, `stream_formation_logs` |
| Transport | `transport.cpp` 33-175 | as the clients | `request`, `stream_sse`; nothing constructs it |
| Request path | `formation_client.cpp` 94-155, `server_client.cpp` 59-122 | easy handle, response, static generator of `generate_uuid` | `request`, behind some 70 endpoint methods |
| Errors | `errors.hpp` | none | `map_error`, the exception classes |
| Version check | `version_check.cpp` | the flag `checked`; the file `~/.muxi/sdk-versions.json` | `check_for_updates`, called by every `request` |
| Version order | `version_check.cpp` 89-91, `cpp-release.yml` 74-88 | the released version, the one built in | `is_newer_version`, "Compute next version" |
| Webhook | `webhook.cpp` | none | `verify_signature`, `parse` |
| Signing | `auth.cpp` | none (reads the clock) | `base64_encode`, `generate_hmac_signature`, `build_auth_header` |
| Envelope, widgets | `formation_client.cpp` 394-421 | none | `unwrap_envelope`, `parse_ui_widgets` |
| Endpoint catalogue | `formation_client.cpp` 221-330, `server_client.cpp` 196-226 | none | one method per endpoint |
| Client lifecycle | constructors and destructors | base URL; libcurl's global reference count | construct, destroy |

How they interact. An endpoint method calls `request` or `stream_sse` of its client.
libcurl calls back into `write_callback` or `sse_write_callback` on the same thread
while `curl_easy_perform` runs; the stream's callback calls the parser and the
parser's events go to the caller's handler, whose exceptions must not cross libcurl.
`request` passes the response's headers to `check_for_updates`, which shares one
flag with every thread of the process and one file with every process of the user.
An error response becomes an exception by `map_error`.

What is hard. The chunks of a response are cut anywhere; a stream ends whole,
broken, or by an exception of the handler or of an error frame; several threads
share a random generator, libcurl's reference count and a flag without, or with,
synchronisation; several processes rewrite one file without a lock and may die while
they do; curl's timeout does not cover every wait. `PROJECT.json` lists these
hazards by line, with the properties that cover each.

What makes each component correct:

* *streams*: the events the handler sees depend on the response and not on its
  chunks; each is delivered once, in order, as soon as it is complete; an exception
  stops the handler and reaches the caller; a failure never looks like a normal end;
  the handle is released.
* *requests*: what a call returns or throws says what happened to it; keys are
  distinct; it ends.
* *version check*: one check and at most one notice per process, twelve hours
  between notices, the other SDKs' entries kept, a file that stays one document; all
  but the first only while checks do not overlap and none is cut short.
* *version order*: a later release is newer.
* *libcurl's global state*: up while a client is in a call, down when the last
  client is gone.
* *webhooks*: what is accepted was signed, with the receiver's secret and lately; a
  genuine message is accepted; an event holds what the payload has where `parse`
  looks for it, or there is an exception.
* *calls*: two calls are two requests; a request names one user; what is signed is
  what is sent, as far as libcurl leaves it alone; an error frame's exception loses of
  its fields only those that give way to another.

## 2. Modules

### SseParser

The parser's two operations, `ProcessLine` and `Flush`, as operators from a parser
record to a result: the parser they leave and nothing, an event, or a throw. A text
is a sequence of tokens: the bytes the code looks at (`lf`, `cr`, `:`, space) and
whole words. No code path splits a word, so a word is one token. A `data` string is
given by its lines. The code and message an error frame's exception carries
(377-388) do not change what follows; `Envelope` has them.

### FormationStream, FormationStreamProps

One streaming call, from `curl_easy_init` to the return or the exception.

| Action | Code |
|---|---|
| `InitFails` | 158-159, the call returns without a word |
| `DumpThrows` | 178, the payload is not UTF-8; the handle is lost |
| `Start` | 161-186, into `curl_easy_perform` |
| `ReceiveChunk` | libcurl calls `sse_write_callback` with any non-empty part of what is on the wire, 42 |
| `CallbackLine` | one iteration of the loop, 46-55; an exception is kept and aborts the transfer, 56-59 |
| `CallbackReturns` | no line is left, 61 |
| `PeerCloses`, `ConnectionBreaks` | `curl_easy_perform` returns, 186-188 |
| `Rethrow` | 190-192 |
| `NoTail`, `TailLine` | the unterminated last line, 193-200 |
| `FinalFlush` | 201-206 |

The handler may throw at every call. `response`, `calls` and `outcome` record what
the peer sent, what the handler saw and how the call ended.

`FormationStreamProps` states the properties against `SseReference`, which defines
the events of a whole text frame by frame (`CompleteEvents`, `AllEvents`), with no
buffer and no incremental parser; it shares only the field syntax (`Field`, `Value`,
`Join`) with the parser it judges. It cuts a text at a set of positions, the line
feeds (`Pieces`), the lines at another, the blank ones, and takes from a frame the
values at a third, its data lines (`At`): no recursion, so that it can be reasoned
about by which positions count.

### SseDelivery

The abstract specification: the caller's view of a stream, with no chunks, no buffer
and no kept exception. It interprets the body line by line, loses the rest of it
when the connection breaks, and ends. `FormationStream` implements it under the
mapping `rest` = buffer plus wire, `transport` = the CURLcode, `outcome` = the kept
exception as soon as there is one.

### ServerStream, ServerStreamProps

`ServerClient::Impl::stream_sse`, and with `client = "transport"` the copy of it in
`Transport`. The write callback only collects (`ReceiveChunk`); after the transfer
`ParseLine` is one iteration of the `std::getline` loop and `EndOfText` its end,
which drops an unfinished frame. `Performed` is where the two copies differ:
ServerClient ignores the CURLcode, Transport returns without parsing. The parser is
not `SseParser`'s: every leading space goes (`StripSpaces`), a field must have its
colon (`StartsWith`), an event-only frame is dropped (`BlankLine`), there is no
error frame.

### Request

`request` of FormationClient, ServerClient and Transport under several threads, each
call on the client of its choice: they share the flag `checked`, and each has a
generator of its own. Control is kept whole: `curl_easy_init` failing, the key,
`dump()` throwing, the transfer with its timeout, the version check before the
result is looked at, and the three ways to answer.
`ReadGenerator`/`AdvanceGenerator` split a draw from the unsynchronised
`std::mt19937` in two, so two threads may draw the same key: that stands for every
outcome of the race that matters to a key. A response is a status and the shape of
its body and of the fields an error is read from. A transfer may also fail after the
head of a response has come. `ReadStdin` is libcurl (external) taking the body of a
POST without `CURLOPT_POSTFIELDS` from standard input. `Check` stands for
`check_for_updates`; all that a request can notice of it is that the first one may
throw (`badCache`), which `VersionCheck` shows in detail.

### VersionCheck

`check_for_updates` for several processes of several threads over one cache file.
One action per step that another process can come between: the compare-and-exchange
with the header's version, each load, each opening of the file (which truncates it),
each write (before which `dump()` throws on a header that is not UTF-8), the notice.
A write begins at the file's start and does not truncate it again: of two writers that
have the file open, the one that closes it last may leave the end of the other's longer
document behind its own (`tail`, `Tails`). `operator>>` of the next check stops before
it; a program that reads the whole file finds no JSON. Lengths are not modelled, so the
end of a document may or may not be left, but of an equal one it is not.
`Restart` ends or kills a process anywhere and starts it again; `Tick` moves the
clock and `SetBack` sets it back. The document is this SDK's entry (missing, an
object, or a value of another type; its stamp a number, missing or not a number) and
whether there are entries of other SDKs. A file may also be absent, unparseable or
an array. `setBack` remembers whether the clock was set back between two checks or
inside one.

### VersionOrder

The versions the release workflow computes, and `is_newer_version` on their digits:
`<major>.<yyyymmdd>.<patch>`, the patch counting the releases of a day. `Padded` are
the eight digits of a number, zeros in front, `Digits` those the text has.

### ClientLifecycle

Clients of any class, each on a thread of its own: `Construct`/`Constructed` is
`curl_global_init` in a constructor, `BeginCall`/`HandleMade` is `curl_easy_init` at
the start of a call, `EndCall` the end of one, `Destroy`/`Destroyed` is
`curl_global_cleanup` in a destructor. A function of libcurl (external) is entered,
where it reads the counter, and left, where it writes it. `locked` is the build: a
libcurl since 7.84 admits one thread at a time, an older one does not, and
`CMakeLists.txt` asks for no version; `raced` remembers that two functions
overlapped. A set-up may fail (`failed`): the constructor drops the result and the
destructor cleans up anyway.

### Webhook

A receiver with a secret and a tolerance, and one message on its way to it. `Send`
signs with one secret or several and orders the header's items as it likes; `Alter`
changes the payload, the header's length, the timestamp or its text, or a value;
`Join` puts the items of another signature before the header or behind it, all or
one of them, so that the last `t` and the last `v1` may be of two signatures;
`SetClock` moves the receiver's clock; `Verify` is `verify_signature`, `Parse` is
`Webhook::parse`. The signature is a record of what it covers (secret, text of the
timestamp, payload), so two are equal when all three are. A timestamp's text is a
number, a number with something behind it, which `std::stoll` ignores, or a word. A
payload is given by the kind of what stands at each of its places (`At`): a field of
the document or of an object in it, an element of an array, a field of such an
element. `Document` says which places there can be, in containers of any kind, those
`parse` does not look into included. `Asked` are the places `parse` reads, by the
kind of the container each is in; a string is named by its place. `Stale` computes
the difference at `Width` bits: beyond them the code's signed overflow is undefined,
and either answer is possible.

### Endpoints, Auth, Envelope, Api, ApiProps

`Endpoints` is the table of the methods of both clients: method, path, key, where
the user id goes and what the body is. `Auth` is `base64_encode` in sextets and the
path that `generate_hmac_signature` signs. `Envelope` is `unwrap_envelope`, the
exception of an error frame (377-388) and `parse_ui_widgets` on the kinds of JSON
values.

`Api` composes them. A client has a configuration (`BaseUrl` is the constructor);
`Call` is any method with any arguments, which makes a request or throws
(`MethodThrows`); then one answer comes: `Respond` to `request`, `UiFrame`,
`ErrorFrame` or `StreamEnds` on a stream, `NoHost` without a base URL. A text of a
URL is a sequence of its reserved characters and words: nothing is escaped by the
code, so an argument that holds a `?` or a `#` moves the end of the path, and one that
is or holds a dot segment takes away a part of it: libcurl (external) resolves them
(`Resolved`, RFC 3986) unless `CURLOPT_PATH_AS_IS` is set, which the code never does.
`PathSent` is the path the server is asked for, `OnWire` all it sees of a request.
`ApiProps` has the properties.

### Proof modules

| Module | Proves |
|---|---|
| `SseReferenceProofs` | lemmas: searching a text, the types of what the parser returns, positions in a sequence, the lines, frames and events they make, what one line more changes, that the incremental parser keeps up, parts of a text |
| `FormationStreamProofs` | types, control state, the events delivered, the refinement of `SseDelivery` |
| `ServerStreamProofs` | control state, the events delivered, agreement with FormationClient |
| `RequestProofs` | types, keys, the version check, the outcome of every call |
| `VersionCheckProofs` | types, the gate, the documents, the stamps; for an instance of `VersionOrder`, the order of versions |
| `ClientLifecycleProofs` | libcurl's reference count |
| `WebhookProofs` | what is accepted, and what must be; what an event holds |
| `ApiProofs` | types, the requests of two calls, who is named, what is signed, base64, base URLs, bodies, error frames |

The inductive invariants stand in these modules, at their beginning or where they are
needed.

### MC modules

`MCFormationStream`, `MCServerStream`, `MCRequest`, `MCVersionCheck`,
`MCClientLifecycle`, `MCWebhook` and `MCApi` give the constants their values; each
`.cfg` is one run. A definition commented *Mutant of* is no part of a model: it is
the form a plausible bug would give to the definition it precedes, and shows that
the property named for it in `PROJECT.json` can fail.

## 3. What the runs show

### Passing

| Run | Shows |
|---|---|
| `stream` | `NothingHeldBack`: whenever the callback has returned, the handler has seen exactly the events complete in the bytes received. `AllDeliveredAtEnd`: at the end, all of it, the unterminated tail included, up to the first error frame. `FailuresReported`, `SilentAfterError`, `OnlyLastEventTruncated`, `HandleReleased`. `FramesDelivered`: a frame sent in full is delivered while the connection stays open. `ImplementsDelivery`: the stream implements `SseDelivery`. |
| `server_stream` | `NoTruncatedEvent`: what the handler has had are the first events of the whole body, when every carriage return of it ends a line; `AgreesWithFormationClient`: the two parsers agree on plain responses; `AllOrNothing`: Transport delivers nothing of a failed transfer; `FramesFollowTransfer`: once the transfer is over every complete frame of it is delivered, or the handler throws |
| `request_threads` | `DistinctKeys` (unless two threads drew at once), `OneFailedCheck`; `CallsEnd`, for every call that does not read standard input |
| `request_outcomes` | `OutcomeIsTrue`: a value means success, a ConnectionException no answer, an error status keeps its number and gets a code whatever the body. `ForeignExceptions`: the three causes of an exception that is no MuxiException. |
| `version_shared` | `OncePerProcess`, `NoticesApart`, `OthersKept`, `FailsOnForeignFile`; `WholeWhenQuiet`: a file nobody is writing is one whole document and nothing else until two checks overlap, and begins with a whole one also after that; `QuietOnlyRecently`: a check is quiet only within twelve hours of a stamp, unless the clock was set back |
| `version_ordered` | `OrderedUpToTen` |
| `lifecycle` | `ReadyWhileUsed`, `ReleasedWithLast`, `OneReferenceEach` |
| `webhook` | `AcceptedIsSigned`, `GenuineAccepted`, `LastSignatureCounts`; `EventIsPayload`: an event has exactly what the payload has at the places of its strings, and `parse` throws exactly on another value at one of them or on no JSON |
| `api` | `SlashesDontMatter`, `SignatureDecodes`, `OneUser`, `StdinOnlyForNull`; `DistinctRequests`: no two plain calls look the same to the server; `SignedIsSent`: the path signed is the path the server sees exactly when it holds no `#` and no dot segment; `ErrorFrameLoses`: of the four fields of an error frame only a code beside a type and a message beside an error never reach the caller |

The exceptions in the properties are part of what they say. A connection that breaks
between a carriage return and a further character of its line leaves a text that
ends in a line of nothing but that carriage return, which the `getline` loop takes
for a blank one: ServerClient then delivers a frame the whole body continues, and
`NoTruncatedEvent` says nothing of such a body. Two checks that overlap
can lose the entries of the other SDKs or a stamp, and leave the end of one document
behind another (`OthersKept`, `NoticesApart` and the first half of `WholeWhenQuiet` hold
only without overlap, and without a process killed inside a check or a header that
is not UTF-8, which throws when the file is already truncated); a payload that is
not UTF-8 leaks its handle (`HandleReleased`). A clock set back in the middle of a
check, between the test of the stamp and the notice, leaves a stamp from before the
last notice, and the next one comes early: `NoticesApart` excludes it, and a clock
set back at any other time only prolongs the silence. A constructor whose set-up
failed goes on without a reference, and its destructor takes that of another client:
`ReadyWhileUsed` holds only without such a failure, while `ReleasedWithLast` holds
with it. A header with the signatures of two secrets is good only for the receiver
whose secret comes last (`LastSignatureCounts`). A timestamp so old that the
difference overflows may pass as recent (`AcceptedIsSigned`). Pausing and resuming a
job are POSTs without a body, whatever the caller gives (`StdinOnlyForNull`). An
argument that holds a `#` is signed and not sent, and `get_formation("..")` signs
`/rpc/formations/..` and asks for `/rpc/` (`SignedIsSent`); for the same reason the
agent `..` and the secret `..` are one request, and `DistinctRequests` and `OneUser`
speak of arguments without the reserved characters, `%` and the dot words among them (a
libcurl may take `%2e` for a dot). `EventIsPayload` says nothing of what lies where
`parse` does not look: `error: "boom"`, the strings of `content: ["x"]` or of a `content`
that is an object are dropped without a word. An error frame of
`{"error": "E", "message": "M"}` becomes an exception that says `E` twice, and a `code`
beside a `type` is never read (`ErrorFrameLoses`). `unwrap_envelope` moves the request's
identifiers into the data when that is an object and drops them when it is anything else
(formation_client.cpp:406); no property states it, since it would repeat the two `if`s.

### Violated: the documentation says one thing, the code does another

| Run | The documentation | The code |
|---|---|---|
| `stream_rejected` | typed errors (README.md:7, USER_GUIDE.md:84) | a stream answered with 401 returns normally |
| `request_typed` | `catch (const muxi::NotFoundException& e)` (README.md:126) | `map_error` returns by value: always a plain MuxiException |
| `version_tenth` | releases of a day count up (cpp-release.yml:83) | patch 10 is not newer than patches 2 to 9 |

Other disagreements follow from one line of the code, so that no run is spent on
them: "Deploy with progress" (USER_GUIDE.md:102) against `ServerStream`, which calls
the handler only after the transfer; ConnectionException for a network error
(USER_GUIDE.md:90) against its ignored CURLcode; "Default timeout: 30s"
(USER_GUIDE.md:73) against `ReadStdin`, a POST without a payload that waits for
standard input; the retries of USER_GUIDE.md:74 (`max_retries`, `server_client.hpp`
16, is never read); the `Retry-After` of USER_GUIDE.md:75 (no caller gives
`map_error` its fourth argument); the idempotency key "on every request" of
README.md:116 (the streams send none, see `Headers`).

## 4. Bounds

* *Bodies* (`MCFormationStream`, `MCServerStream`): every sequence of up to three
  lines (two with CR LF) out of eight that cover every branch of the parser (blank,
  comment, event with and without a name, error, data with a value and without,
  unknown field; several leading spaces for the server), the last line with or
  without its end or a lone CR. Three lines are a field, a field and a blank; the
  longer bodies add a second frame, an error frame between two others, data
  spread over lines and, for the server, a carriage return inside a line. The parser's state after a frame is its initial one, so two
  frames show what any number do. Chunks are any cut of the body, a chunk of one
  token included.
* *Threads and calls* (`MCRequest`): two threads with a call each (`MaxCalls` = 1)
  for the shared generators and flag, where the calls overlap or follow each other;
  one thread with two calls for all combinations of status and body. A call leaves
  nothing behind in its thread but what the shared state holds.
* *Processes* (`MCVersionCheck`): two processes of two threads, one newer version
  and one header that is not UTF-8; `MaxTime` = 2 ticks with `Interval` = 2, so a
  notice may be too early, by one tick or by two, or in time. `Restart` is
  unbounded. The clock is set back at most once, to any earlier tick. Threads and
  processes are symmetric. `View` keeps of the document at the start only what the
  properties ask of it, and no action reads it.
* *Clients* (`MCClientLifecycle`): three clients, so that one is made, one calls and
  one goes at the same time; `MaxReferences` = 4 lets the counter exceed the
  clients, as a race can make it do. Without a race it never gets there, as the
  proofs show for any number of clients.
* *Webhooks* (`MCWebhook`): two secrets; `Width` = 3 and stamps from -4 on, so that
  the difference to the clock overflows for one of them; a tolerance of 1 with
  stamps on both sides of it; eleven payloads that reach every branch of `parse`, with
  containers of the wrong kind that hold a field or an element among them. One change
  on the way, or one more signature joined.
* *Calls* (`MCApi`): every method, with an argument and a user that are empty, plain
  or hold a reserved character or a dot segment; up to two slashes at the end of a URL; HMACs of two
  and of five bytes, as many over a multiple of three as SHA-256's 32, with the
  extreme bytes; every combination of kinds at the six places of an envelope and at
  the four of an error frame that a guard tells apart. The arguments hold a dot segment
  alone, behind another segment and behind a `?`, where it is none.
* *Versions*: `MaxPatch` 12 crosses 9 to 10; the dates are numbers of eight digits, as
  `date +%Y%m%d` prints them until the year 10000, and need not be a calendar's.

## 5. Fairness

* `FormationStream`, `ServerStream`: weak fairness of the client's own steps (a
  thread of the caller runs) and of `ReceiveChunk` (TCP delivers what was sent
  unless the connection breaks). None for `PeerCloses` or `ConnectionBreaks`:
  `CURLOPT_TIMEOUT` is 0 on a stream (165), so nothing ends it.
  `FramesFollowTransfer` therefore starts where the transfer has ended.
* `Request`: weak fairness of each thread, and of `Fails`, because `CURLOPT_TIMEOUT`
  ends a transfer (103). None for `Replied` or for what comes out of `ReadStdin`.

The other modules are checked for safety only: nothing in them waits.

## 6. What is proved

**FormationStream.** For every set of responses and every alphabet of words
(`Words`, `Responses`; the one assumption is `ResponsesAssumption`: a response is a
status and a text):

* `TypeCorrect`: `Spec => []TypeOK`. The lemmas `FlushType` and `ProcessLineType`
  say that the parser's operations return a parser and an event of the right shape;
  `DispatchType` and `ResultTypes` carry that to the calls of the handler.
* `IInvHolds`: `Spec => []IInv`. `FailuresReported` and `HandleReleased` are not
  inductive: whether a broken connection is reported at the end depends on what the
  call knew in the middle. `IInv` adds what holds at each program counter
  (`NotSentYet`, `InTransfer`, `AfterTransfer`, `Ended`) and that the callback
  leaves no whole line in the buffer (`NoLineHeldBack`).
* `NoSilentFailure`, `HandleIsReleased`: two of its conjuncts, as theorems.
* `NoCallAfterError`: `Spec => SilentAfterError`, an action property, from `IInv`:
  only `CallbackLine`, `TailLine` and `FinalFlush` call the handler, and `IInv`
  excludes a kept exception at each.
* `NothingIsHeldBack`, `EverythingIsDelivered`, `OnlyLastIsTruncated`: the three
  properties that compare the calls of the handler with the events of the whole
  text. `EventInv` is what makes them inductive: the lines consumed, the buffer and
  the wire are the body (`BodyInParts`), and as long as nothing was thrown the
  parser is what those lines leave unfinished and the calls are the events they
  complete (`KeepsUp`); after an error frame the event not delivered is the next one
  (`ErrorIsNext`); between the tail and `flush()` all lines are interpreted, and if
  the last of them completed an event nothing is left to flush (`TailParsed`). That
  clause and `OneTruncated` are what `OnlyLastIsTruncated` needs: the tail and
  `flush()` together deliver at most one event that is not of the whole body. The
  step of the proof is `LineInterpreted`: what `ProcessLine` does to a parser that
  has kept up with some lines is what the reference says of those lines and one
  more. `LineConsumed` carries it to the position of a line in the body.
* `Implements`: `Spec => ImplementsDelivery`. `MoveChunk` shows that a chunk that
  moves from wire to buffer leaves their concatenation alone, `FirstLine` that the
  first line of the buffer is the first line of the whole; each action then maps to
  a step of `SseDelivery` or to a stutter. `NoLineHeldBack` is what makes the tail
  an unterminated line when the transfer ends.

**ServerStream.** For the same constants and any set of clients
(`ServerStreamAssumption`):

* `NothingOfAFailure` (`AllOrNothing`) and `HandleIsReleased`. The invariant relates
  the program counter to the handle, the text left to parse and the calls made:
  Transport reaches the parser only when the transfer went well.
* `NothingTruncated` (`NoTruncatedEvent`), `ClientsAgree`
  (`AgreesWithFormationClient`) and `EverythingIsDelivered`: a call that parsed and
  returned has delivered all the events of what arrived. The invariant `EventInv`
  says how much of the text the getline loop has taken, that the parser and the
  calls are those of the lines taken (`LinesParsed`), and that the calls are always
  the first events of what arrived (`FirstEvents`). `ServerLineInterpreted` is its
  step. `CutText` is where the condition of `NoTruncatedEvent` is needed: the lines
  of a text cut anywhere, but for the unfinished one, are lines of the whole unless
  a carriage return inside a line was its end. `PlainField` and `PlainFrame` show
  that two parsers that differ in what they strip agree on plain lines.

**ClientLifecycle.** For every finite set of clients and any `MaxReferences`
of at least their number (`ClientsAssumption`): `ReadyIsSafe`, `ReleasedIsSafe`, `ReferencesAreSafe`. The
three are not inductive, since a function of libcurl writes what it computed from a
counter read earlier. The invariant `IInv` adds, while nothing raced, that whoever
may write has libcurl to itself and has read the present counter (`Exclusive`), and
that the counter is at most the number of clients that hold a reference, and equal
to it when no set-up failed (`CountsClients`); the cardinality lemmas say how each
step changes that number.

**VersionCheck.** For any processes, threads, headers, interval and bound of the
clock (`VersionCheckAssumption`), all the properties its run checks: `NoticeOnce`,
`OthersAreKept`, `QuietFileIsWhole`, `OnlyForeignFilesFail`, and the action
properties `QuietIsRecent` and `NoticesAreApart`; with them `TypesHold`. The parts
of its invariant, each proved by what the steps do to the file (`Effect`: a step
takes the document in, truncates the file, fills it or leaves it alone):

* `Gate`: one thread of a process at most is in a check, only after the flag was
  taken, and the process has printed nothing before that thread's notice; loads and
  writes of other processes cannot disturb it.
* `Untouched`: until two checks overlap nothing is behind the document, and the file is
  not written while another holds it open; with `Documents` that makes
  `WholeWhenQuiet` inductive.
* `Documents`, `StaysReadable`: only objects are written, and if the file was one a
  check can read, every file and every document on its way to it is.
* `Behind`: no stamp, in the file or on its way, is ahead of a clock that was not
  set back.
* `Alone`, `Kept`: without overlap one thread at most is inside, so the document it
  will write has the entries of the others.
* `StampKept`: where the stamp of the latest notice is at each step of the one
  thread inside: in the file, in its document, or not due. `NoticesAreApart` follows
  from it.

**Request.** For any threads, clients, replies and number of calls
(`RequestAssumption`), all the safety properties its runs check: `KeysAreDistinct`,
`ChecksFailOnce`, `OutcomesAreTrue`, `ForeignAreExplained`; with them `TypesHold` and
`HandleIsReleased`. `Keys`: until two threads draw at once, a thread inside
`generate_uuid` has seen the generator's present state, and the generator is ahead
of every key sent and of every key held to be sent. `Checks`: the check that threw
has taken the flag. `AllTold`: what a call knows of its transfer at each point of
it, and that its outcome agrees with that.

**Webhook.** For any finite set of secrets, any payloads, stamps and tolerances of
any width (`WebhookAssumption`): `AcceptedWasSigned`, `GenuineIsAccepted`,
`LastSignatureServes`. `Provenance`: every signature in a header is one the sender
made and every timestamp a text there is, whatever was altered. `AsSent`: in a
header nobody changed every `t` is the sender's and every `v1` is of it and of the
payload, and both are there. `LastValue` of a header is at the last place with its
key (`ReadFromHeader`), which is all the three properties need to know of the loop.
A joined header has one signature more, of a payload that was signed with that stamp,
so `Provenance` survives it (`JoinKeeps`) while `AsSent` speaks of other headers only.
`EventIsThePayload`: for any payload the event `parse` makes has what stands at the
places of the event's strings and no more. The two sides are written apart: `InEvent`
says by their names which places a `WebhookEvent` has, `Asked` which ones `parse` reads
under which guards. `OursIsAsked` shows that no place of the first kind that holds
something escapes the guards, `AskedIsOurs` the converse, and `EventOfDocument` that the
throw and the strings follow.

**Version order.** `VersionsAreOrdered`: for all days of eight digits and any number of
releases an SDK is told of every release after its own, up to the tenth of a day, and
of no other. The invariant `OrderInv` is that what is installed was released now or
earlier. `FirstDifference` is the heart: of two numbers of eight digits the less has the
less digit where they differ first, since up to there the digits make the same prefix.
The text of a version has the date's digits at fixed places (`VersionTexts`), so a later
date decides before the patch is looked at (`LaterDateIsNewer`); a patch decides alone
as long as it is one digit (`LaterPatchIsNewer`). The theorem takes `EightDigits` as its
hypothesis, the assumption `VersionOrder` states of its constants: it is proved for an
instance of that module, whose assumptions do not come along.

**Api.** For any arguments and user ids that are sequences of characters and words, any
HMACs that are sequences of bytes, any documents and frames (`ApiAssumption`), all the
properties of its run: `RequestsAreDistinct`, `SignedPathIsSent`,
`SignatureGivesDigest`, `OneUserIsNamed`, `SlashesAreAside`, `StdinIsExplained`,
`ErrorFramesLose`; with them `TypeCorrect`. The invariant is short:
what was sent is `RequestOf` the running call, which did not throw (`AsAsked`), and what
the caller got is made of the answer (`AsAnswered`). The work is in what the operators
return:

* texts: a path made of its parts holds exactly their characters, a text without a `/`
  is found again between two of them, and what stands before the first `?` or `#` of a
  text is that of its beginning. Induction over a length is over a set of numbers
  (`Induct`);
* base64: `GroupUnpadded` and `Decoded` are inverse on a full group and on the two short
  ones, and a group of a text is the one at its place (`SignatureGivesDigest`);
* paths on the wire: `Resolved` leaves a path without dot segments alone (`NoDots`) and
  shortens every other (`DotsGo`), and a fragment shortens what is sent of a text
  (`FragmentEnds`), so that `SignedPathIsSent` holds in both directions;
* the rows of `Endpoints` (`FormationCallsDiffer` and the three lemmas behind it): of two
  methods with the same HTTP method and key no argument makes the path of the one that
  of the other (`Fits`).

The proof showed that `DistinctRequests` must ask both calls for arguments without
reserved characters: the session `x/messages` asked for by `get_session` is the messages
of `x`. That the first call is plain does not exclude it, and the property said so too
generally before; the arguments of the run did not come across it.

Only model-checked, and why: the liveness properties `FramesDelivered`,
`FramesFollowTransfer` and `CallsEnd`, which need fairness and `ENABLED`.

No module declares a RECURSIVE operator, and no theorem needs an induction principle
with an operator for its parameter: lemmas on positions, and sets of numbers, take its
place. The invariants were model-checked on the instances of the runs before they were proved.
`TypeOK` is proved for `FormationStream`, `Request`, `VersionCheck`, `VersionOrder` (in
`OrderInv`) and `Api`; in the other modules it documents the state, and what the proofs
need of the types is part of their invariants.

## 7. Not modelled

* Data the control does not depend on: the HMAC itself, the key's name and time in
  the `Authorization` header, the values of the other headers, TLS, the wording of
  messages.
* What libcurl does to a URL besides cutting its fragment and resolving its dot
  segments (characters it escapes or refuses), and its redirects, which it does not
  follow here.
* The Windows branches of the version check. `ensure_dir_exists`: a directory that
  cannot be made is a file that cannot be opened.
* The build and CI workflows except for the numbering of releases.
* A handler that calls the client again from inside the callback: it would make a
  call of its own with its own handle and buffer. A client destroyed while another
  thread is in one of its calls, which the language forbids.

## 8. Plan

Done: every component of the inventory but the workflows; every safety property and
action property of every passing run proved for every value of the constants; the
refinement of `SseDelivery`.

Left, in this order:

1. Abstract specifications: a lock-protected version cache, to state what
   overlapping checks lose; one attempt per call for `Request`.
2. `Request` composed with `VersionCheck`: which response uses up the check.
3. `TypeOK` of `ServerStream`, `ClientLifecycle` and `Webhook` as theorems.
