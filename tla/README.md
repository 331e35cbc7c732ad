# A verification project for free-opencode-api

The gateway (Go, `cmd/server`, `internal/...`) takes OpenAI Chat Completions and
OpenAI Responses requests, sends them to an OpenCode "zen" upstream in the
protocol the requested model speaks there (Chat Completions, Responses or
Anthropic Messages), and translates the answers back. This directory holds TLA+
modules translated from its source, the TLC configurations that check them, and
proofs of the properties that TLAPS can prove for every value of the constants.

`tlc -config X.cfg M` runs a check, `tlapm M.tla` a proof; the list of runs,
properties, faults and source lines is in `PROJECT.json`.

## 1. Inventory

| component | source | state | operations |
|---|---|---|---|
| Gateway handlers | `internal/httpapi/server.go` | none of their own: a request context with `RequestTimeout`, the response being written | `models`, `chatCompletions`, `responses`, `healthz`, the `write...` functions that hand on an answer, error replies; `filterFreeModels` |
| Upstream call and retry | `internal/provider/client.go` 133-204 | attempt, request reader, response, timer | `DoProtocol`, `do`, `waitForRetry` |
| Protocol cache | `internal/provider/protocols.go` | `protocols`, `protocolsExpires` behind `protocolMu` | `ProtocolForModel`, `lookupProtocol`, `refreshProtocolsLocked` |
| Identifier generator | `internal/provider/client.go` 348-398 | `openCodeIDState` (timestamp, counter) behind a mutex | `openCodeID` |
| Responses event stream writer | `internal/protocol/stream.go` 1-265 | `began`, `done`, sequence number; and at the other end, what the client has assembled | `Begin`, `Complete`, `CompleteFinal`, `Fail`, `event` |
| Chat-to-Responses stream converter | `internal/protocol/chat_stream.go` | text, tool calls by index, output order, next output index | `consume`, `textDelta`, `toolDelta`, `announceTool`, `finish` |
| Whole-answer conversion | `internal/protocol/responses_response.go` | none (pure) | `ChatCompletionToResponses`, `AnthropicMessageToResponses` |
| Stream aggregation | `server.go` 578-834, `stream.go` 267-435 | accumulators | `aggregateChatCompletionStream`, `aggregateResponsesStream`, `AggregateAnthropicStream` |
| Request translation | `internal/protocol/responses_request.go` | none (pure), pending media while it runs | `ResponsesToChat`, `ResponsesToAnthropic` |
| OpenCode compatibility | `internal/provider/zen_compat.go`, `client.go` 205-330 | none, but for the identifier generator it draws from | `ensureFreeModel`, `prepareOpenCodeRequestBody`, `zenSessionID`, `Headers` |
| Service lifecycle | `cmd/server/main.go` | listener, signal context, grace | start, failure, signal, shutdown |
| Configuration | `internal/config/config.go` | read once | `Load` |

Interaction. Every request is a goroutine of `net/http`. A handler asks the
protocol cache (shared by all requests, read lock first, write lock across the
network fetch), calls the upstream (one goroutine, one context that ends with
the client or after `RequestTimeout`), and writes the answer. The answer is
copied, converted as a whole and played out by `ResponsesStream.Complete`, or
translated chunk by chunk. Any write fails once the client is gone. `main`
starts the server, waits for its failure or a signal, and shuts it down with ten
seconds' grace.

What is hard here, and what would be correct:

* **Protocol cache**: readers and writers queue behind a lock held across a
  network call and check expiry with a clock reading taken before they queued.
  Correct: the map is never seen half-copied, the catalog is fetched again only
  when the last refresh has run out, a failed refresh loses nothing, everybody is
  answered.
* **Stream conversion**: upstream deltas of text and several tool calls
  interleave, ids, names and arguments come in any order, the stream may break
  at any chunk and the client leave at any event. Correct: the client's events
  form a legal Responses stream, a completed response contains exactly what was
  sent, a broken stream is reported, a connected client is never left waiting.
* **Upstream call**: retries after 429, timers against contexts, response bodies
  to be closed on every way out. Correct: bodies closed, retries bounded and
  spaced, whole request sent again, outcome matches its cause.
* **Identifiers**: clock read outside the lock. Correct: unique and sorted time
  parts, up to three precisely named circumstances.
* **Sessions**: a conversation is named in any of five headers, or not at all.
  Correct: it keeps its session on every request, every session has the canonical
  form, all session headers agree.
* **Request translation**: calls, outputs and the media of outputs arrive as a flat
  list and are regrouped into messages, by different rules for the two upstreams.
  Correct: nothing is lost or told twice, tool messages stay with their calls,
  roles alternate, a call comes back as the upstream made it, tools and tool choice
  agree with the types the answer is converted by.
* **Handlers**: checks, call and answer are sequential, but the client may leave and
  the time run out at every step, and what can still be told depends on whether the
  head of the answer is out. Correct: one head, a truncated body told wherever the
  gateway converts it, the kind of answer the client asked for.
* **Lifecycle**: start, signals, failure and shutdown race. Correct: the exit
  code tells the truth, a graceful shutdown cuts off nothing before its time.

The hazards, each at its line, are in `PROJECT.json` under `hazards`.

## 2. Modules

| module | models | state and actions against the code |
|---|---|---|
| `ToolCalls` | names, kinds and bodies of tool calls | `toolKind` is the `toolTypes[name]` lookup; `customToolInput` unwraps `{"input": ...}` |
| `ResponsesProtocol` | **abstract**: what the reader of a Responses stream is promised | phase, items, output as the reader assembles them; items only grow, close in order, and are repeated by one terminal event |
| `ResponsesStream` | the stream writer and the client | one operator per `event()` call; `done` is the field; `live` says whether the connection is up |
| `ChatStream` | `StreamChatToResponses` and its handler | variables named as the converter's fields; one action per `event()` call, or the code up to the next one; `pc` names the event that comes next |
| `AnswerConversion` | the two whole-answer conversions | pure operators with the functions' names |
| `WholeResponse` | `Begin` ... `Complete`/`Fail` around a converted answer | `Complete`'s loop, `startedItem` and `itemEvents` event by event |
| `ModelProtocols` | `modelLookupKeys`, `lookupProtocol` | operators; a model is a base name with or without `-free` |
| `ProtocolDirectory` | **abstract**: one directory, refreshed in one step | `Ask`, `Refresh`, `Answer` |
| `ProtocolCache` | `ProtocolForModel`, `refreshProtocolsLocked`, `sync.RWMutex` | one `pc` per caller; the lock with Go's rule that a waiting writer keeps new readers out; the copying loop one model a step |
| `UpstreamCall` | `do`, `waitForRetry`, the error replies of the handlers | one request; upstream, client and clock are other actors |
| `Gateway` | `models`, `chatCompletions`, `responses` from `authorize` to the end of the answer | extends `UpstreamCall`, whose actions it runs as the step `call`; `flaws` is what is wrong with the request, found by the checks in their order; `mode` is which `write...` function hands on the answer; `out` is what the client has been given; `writing` a write that has not returned, `stalled` a client that stays and does nothing |
| `IdGenerator` | `openCodeID` | the clock reading and the critical section are two steps |
| `SessionIds` | `zenSessionID`, `cleanHeaderValue`, `canonicalOpenCodeSessionID`, the session headers of `Headers` | extends `IdGenerator`; requests with and without a signal next to the draws of other callers; a header's value is its padding, its first 256 bytes and what is beyond; a canonical id is one whose number has the low digits the pattern wants |
| `RequestTranslation` | `responsesMessagesToChat`, `responsesMessagesToAnthropic` and the content conversions they use | one action per kind of input item, read by both translations side by side; `chat`, `pendingMedia`, `anthropic` are the functions' variables; a part's kind tells an image from one without a URL and a file from one without data or with its data under `file` |
| `RequestPreparation` | validation, `ResponsesToChat`/`ResponsesToAnthropic` but for the dialogue, `ensureFreeModel`, `prepareOpenCodeRequestBody`, `filterFreeModels`, `ResponsesToolTypes` | one action per function the body passes; names of the operators are the functions' |
| `ServerLifecycle` | `main` from the start of the server | main goroutine, listening goroutine, signals, requests |
| `ChatPaths` | `aggregateChatCompletionStream` next to the streaming converter | extends `ChatStream`: every chunk is read by both; `choice` is `completionChoice`; the collected completion goes through `AnswerConversion` |
| `AnthropicStream` | `AggregateAnthropicStream` | `blocks` is the map of `blockState`; one action per kind of event; the upstream's progress is the other actor. Blocks are of any kind, `Collectable` are those the function has a case for; a start may carry a text, and a delta may come without a start |
| `Subsequences` | the loops that append some elements of an array to a new one | `subsequence(s, places)`, by the rank of the places instead of recursion, so that proofs can say what is in it |
| `ProtocolCacheProofs`, `ChatStreamProofs`, `GatewayProofs`, `ServerLifecycleProofs`, `AnthropicStreamProofs`, `WholeResponseProofs`, `SessionIdsProofs`, `RequestProofs` | proofs | section 5 |
| `ChatStreamMC`, `ChatPathsMC`, `AnthropicStreamMC`, `WholeResponseMC`, `ProtocolCacheMC`, `SessionIdsMC`, `RequestTranslationMC`, `RequestPreparationMC` | values of constants for TLC | |

Conventions. Data the properties cannot tell apart is reduced to members of
small sets: a text is a sequence of fragments, a tool name a sequence of pieces,
the JSON wrapper of a custom tool's input an opening and a closing fragment.
Variables marked *history* exist only for properties. An operator commented
*Fault:* is not part of the model: it is a definition next to it with a
plausible bug, and `PROJECT.json` (`mutants`) says which property notices when
it takes that definition's place. A module's `TypeOK` documents the domains of its
variables; the runs spend their time on it only where a theorem states it.

`Gateway` composes the call with the handler around it, `ChatPaths` the streaming
converter with the collecting one and the conversion of whole answers, `SessionIds`
the generator with the headers, `WholeResponse` the converters with the event
stream. `ProtocolCache` is not composed with `Gateway`: the lookup comes before the
call, shares no state with it, and its callers are the handlers.

Undetermined outcomes are left open: Go's `select` with two ready cases
(`UpstreamCall` timer and context, `ServerLifecycle` error and signal), how much
of a request a rejecting upstream has read, when a write to a departed client
starts to fail (a few may still succeed into the socket's buffer, and are
then seen by nobody).

## 3. Runs

| run | bounds | shows |
|---|---|---|
| `chat_stream` | 3 deltas of text, reasoning and two tool calls (a function, a custom tool), fragments that open and close a wrapper | for the streaming converter `NothingLost`, `NoAnswerFromBrokenStream`, `ClientInStep`, the refinement `FollowsProtocol` of `ResponsesProtocol`, and `EndsWithTerminalEvent` under the fairness of section 4. Three deltas are what it takes to send arguments before id and name of one call and interleave another item. `PathsAgree`: a client gets the same answer with and without `"stream"`, except for reasoning and calls without an id, which only the collected answer shows. Only streams that end well are compared: the collecting path skips error objects that the streaming path reports. Every chunk has a delta; a finish reason in a chunk without one is skipped by the streaming path only |
| `chat_stream_empty` | 2 deltas | finding: an answer without content ends with an item that was never streamed |
| `chat_stream_split` | a name that may come in two pieces | finding: the kind of a tool is looked up before its name is complete |
| `whole_response` | every Chat completion with up to 2 calls, every Anthropic message with up to 2 blocks over a small set of fields, `redacted_thinking` among them, which this path shows (responses_response.go:71) and the collected stream drops | the same protocol for the other producer; `EventsCarryTheAnswer`: the events alone carry the converted answer, and a client that stays can tell an answer from a failure when the handler is through. The stream is finite, so a deadlock check is all its end needs |
| `protocol_cache` | 3 callers, one model with both names, three catalogs, TTL 2, failure TTL 1, fetches of up to 2, time up to 4 | freshness, spacing of refreshes, refinement of `ProtocolDirectory`, and every caller is answered. Three callers are one that writes, one in the writers' queue and one in the readers' |
| `gateway` | 2 retries, delay 1, timeout 5, time up to 6, bodies of up to 2 parts, statuses 200, 304, 429, 500 | one request of any route, well-formed or with any flaws, of a client that leaves or stalls anywhere. The pauses are 1 and 2, so the timeout can hit each attempt, each pause and the body, and time goes past it. 304 is neither a success nor an error status, which the converters turn into 502. `BodiesClosed`, `AnswersWholeRequest`, `BackoffIsKept`, `OutcomeFits` are about the call; `OneHead`, `TruncationIsTold`, `AsAsked` about the answer; `AlwaysReturns` about both: the handler comes back and every body is closed, unless a client holds it for good (section 4) |
| `upstream_reuse` | timeout 4 | finding: the comment that a drained connection is reused |
| `server_lifecycle` | 2 requests, 2 ticks of grace | exit codes, grace, termination |
| `session_ids` | 2 callers, 3 numbers a millisecond of which 2 are canonical, 3 milliseconds until the value wraps, readings up to 3, up to 4 ids and requests with a signal together | `TimePartsSorted`: time parts differ, and sort by age within a turn, up to precisely named circumstances. `SessionsCanonical`, `SessionKept`: sessions and headers. Three ids of a millisecond pass the canonical ones (the first number is 1) and spill into the time part, a fourth crowds it; readings 0 and 1 are of one turn and their ids are compared, with 2 and 3 the value wraps. Headers are padded, blank, longer than 256 bytes, two that differ, and ids of another gateway |
| `anthropic_stream` | messages of up to 3 blocks out of 6, all different, of text, thinking, calls and `redacted_thinking` | `Reassembled`: blocks that interleave are put back in order; the exceptions it names are the blocks the function drops without a trace, those of other kinds and those without a start. `NothingMadeUp`: after a break, or a block cut short at `max_tokens`, the client is shown some of the blocks in their order, texts up to a place, and of a call's arguments all or `{}`. They need not be the first blocks: a later one may have come alone |
| `request_translation` | inputs of up to 5 items out of 19: calls, outputs with and without media, messages of every role, images without a URL, files without data or with their data one level down, and items that are skipped or refused | `DialogueKept`: both upstreams are told every part of the dialogue once and in order, but for what is named (on Anthropic system messages, unknown parts, images without a URL and nested files, where Chat is sent them; on Chat media of assistants). `ToolMessagesFollowTheirCall`, `AnthropicTurns`: the grouping each upstream wants. `SameVerdict`: both refuse the same inputs for the same reason. `CallsEchoed`: converting a call for the client and back is lossless. Five items are a turn of two calls, their outputs and one item in between |
| `request_preparation` | requests with up to 2 tools out of 7, one of them without a type, under 13 tool choices; every odd model name, limit and stream flag | what each upstream is to be asked: `UpstreamRequirements`, `ToolsOffered`, `ChoiceKept`, `CallsComeBackAsDeclared`; and `AsListed`: a model asked for under the name it is listed with is that model. Nothing is claimed of the choice `required` and of lists of allowed tools, nor of the type of a client's tool that is named like one of OpenCode's or declared twice |

The runs with `expect: violation` show what the code does against what its own
comments or tests say; `findings` in `PROJECT.json` quotes the lines:

* `EveryOutputItemStreamed` - `CompleteFinal` is described for converters "that
  already emitted every output-item event", but `finish` adds an empty message to
  the terminal event of an empty stream without having emitted it. `FollowsProtocol`
  holds because `ResponsesProtocol` allows exactly this exception.
* `KindAsDeclared` - names are joined piece by piece, as the repository's own test
  reader does, but the tool's type is taken from the first piece.
* `RetryReusesConnection` - a discarded response is drained "so the connection can
  be reused"; `request.Close` and `DisableKeepAlives` make sure it never is.

## 4. Fairness

Only the program's own goroutines and time are fair. `ChatPaths` (`PathsFairSpec`)
assumes that the handler keeps running, that a read of the upstream body returns,
which `RequestTimeout` in the request's context guarantees, and that a write to the
client returns, which it does for a client that reads or is gone: `EndsWithTerminalEvent`
speaks of one that stays and reads.

`Gateway` (`GatewaySpec`) takes the other client too. The server sets no deadline for
writes, and none for reading a request but its header (`main.go:34-39`), and
`RequestTimeout` ends the call and the reads of the upstream's body only
(`server.go:333`, `343`, `371`). So `ClientStalls` may happen at any step, and fairness of the
handler is asked only while no stalled client holds it (`heldByClient`: it is in a write
to that client or in the read of its request). `AlwaysReturns` says accordingly that the
handler returns with every body closed, or that its client holds it for ever. Of the
upstream nothing is assumed: it may never answer and never end an answer. Time passes.

`ProtocolCache` assumes each caller's goroutine runs and that a fetch ends, because
it has a ten-second timeout. Lock fairness is not assumed beyond that: `Lock` is
weakly fair per caller, and the number of callers is finite. `ServerLifecycle` assumes
nothing of the requests.

## 5. Proofs

Every component with a safety invariant has proofs, in eight modules: `ProtocolCacheProofs`,
`GatewayProofs` (for `Gateway` and the `UpstreamCall` in it), `ServerLifecycleProofs`,
`AnthropicStreamProofs`, `ChatStreamProofs`, `WholeResponseProofs`, `SessionIdsProofs` (for
`SessionIds` and the `IdGenerator` in it) and `RequestProofs` (for `RequestPreparation` and
`RequestTranslation`). `tlapm` checks each to the last leaf.

They use the named assumptions on the constants and nothing else:

| assumption | says |
|---|---|
| `CacheAssumption`, `ProtocolsAssumption` | times to live of at least 1, catalogs are maps, `Nobody` is no caller, model or protocol; `Chat` is a protocol, `Unlisted` is not |
| `ChatStreamAssumption` | fragments are strings, names are non-empty sequences, an absent id is no id |
| `CallAssumption`, `BodyAssumption` | sizes, delays and retries are natural numbers, the timeout is positive; an upstream's own statuses are other numbers than 0, 429 and the gateway's 502 and 504, so that a reply tells whose it is |
| `GraceAssumption` | the grace is positive |
| `WholeResponseAssumption` | a converted response is `completed` or `incomplete`, its items are finished, its calls have a name and an id and its reasoning a summary (`Whole`); TLC checks it of every answer `AnswerConversion` makes in the run; for every Chat completion `ChatAnswersAreWhole` proves it |
| `AnthropicStreamAssumption` | a message has blocks and a stop reason; a block is a call whose input is a JSON object, or of any other kind with a text or data, and nothing else |
| `IdAssumption`, `SessionAssumption`, `SignalAssumption` | a millisecond has room for an id, at least two of its ids are canonical; a digest is a number of its width; a text that is no id of a gateway is no id, and none is empty |
| `InboundAssumption` | what a header names a session by is, once it is clean, nothing, such a text or an id of canonical form |
| `RequestAssumption` | the fields of a request; OpenCode's core tools have names, all different |
| `ItemsAssumption` | arguments and contents of an input item are sequences, an absent content has no parts, a made up call id is an id |

The number of callers, models, tool calls, blocks, chunks, retries and requests, and
all times, are arbitrary.

**Protocol cache.** The inductive invariant is `TypeOK /\ LockInv /\ TimeInv /\ DataInv`.
`WriterExcludesAll` alone is not inductive: that the writer is alone follows only
from the claim on the lock (`ClaimMatches`) and from nobody reading past the drain
(`NoReaderInside`), which make `LockInv`. `TimeInv` ties `protocolsExpires` to the last
refresh and to the readings the callers still hold; without it nothing is known of
a caller that asked long before it gets the lock. `DataInv` says that only the caller
that copies has anything left to copy.

| theorem | says |
|---|---|
| `CacheTypeCorrect` | variables keep their types, and every answer is a protocol |
| `CacheExclusion` | whoever checks, fetches, copies or looks under the write lock is alone (a lemma's worth to the refinement, and stated for itself; no run repeats it) |
| `CacheFreshness` | no answer from a cache that had run out when the caller asked |
| `RefreshesAreSpaced` | a fetch starts only when the last one's time to live is over |
| `CacheImplementsDirectory` | the cache implements `ProtocolDirectory` |

For the last one the directory is what the map will be once the rest of the catalog
is laid over it (`overlay`). Then the refresh happens at the end of the fetch,
copying a model is a stutter (`CopyingKeepsOverlay`), and a caller that looks into the
map finds nothing left to copy (`NothingLeftToCopy`), so it sees the directory.

**Stream conversion.** `Bookkeeping` states the inductive invariant `IInv`, which is
`TypeOK` and seven parts, each there because a property or another part needs it:

| part | says | needed because |
|---|---|---|
| `PlaceInv` | how far the response has come at each place of the code | `broken` must exclude an answer |
| `OrderInv` | the output indices and the output order point at each other | the client's items are found by index; without it a delta might go to another item |
| `ToolInv` | header, announcement and kind of every tool agree with what was sent | only announced tools are in the answer, and every identified one is announced |
| `PcInv` | which item the next event is about, and in what state it is | the writes between two chunks use it |
| `CursorInv`, `OrderOnce` | tools are closed in order, each once | the final output is built by that loop |
| `SentInv` | sent = shown + about to be shown + pending | this is `NothingLost` before the end |

From it follow `ChatTypeCorrect`, `BrokenIsReported` and, in two steps (`FinalItems`: what
`finish` builds; `FinalIsSent`: that it is what was sent), `NothingIsLost`. That theorem
assumes `~SplitNames`, names that come in one piece: with pieces the tool's kind is
that of the first piece, which is what the run `chat_stream_split` shows.

The client's side needs more: `ClientInStep` speaks of the moments between two chunks
only, and the refinement of every event. `ViewInv` says what a client that is there has
of each item at each place of the code: `view` computes it from the converter's state
(the content so far, nothing of a custom tool's input until the call is closed, and how
far the closing events have come). `OutputInv` adds that the output comes with the
terminal event of an answer only. One lemma per kind of step shows that `view` is kept
(`TextDeltaView` to `CallClosedView`); `ToolViewKept` covers the items a step is not about.

| theorem | says |
|---|---|
| `ClientsCopy` | `ClientInv`, that is `IInv /\ ViewInv /\ OutputInv`, is an invariant |
| `InStep` | `ClientInStep` |
| `ImplementsProtocol` | `Spec => FollowsProtocol`: the converter implements `ResponsesProtocol` |

For the last one every event is mapped: a new item is `AddItem` (`AddFollows`), a delta
is `Grow` since it is appended (`DeltaGrows`), a closing event is `Advance` since it
repeats what the client has (`ClosingAdvances`, `RepeatsContent`), the terminal event is
`Complete` since every announced call is closed when the loop ends (`FinalFollows`).
Steps that write nothing, and all steps without a client, are stutters. All three
assume `~SplitNames`: a later piece of a name would change the header of an item that
is already shown, which `Advance` forbids.

**Both paths.** Part 4 of `ChatStreamProofs` compares the converter with the collecting
path of `ChatPaths`. A step of `ChatPaths` is one of `ChatStream` that collects besides
(`PathsStep`), so the theorems above hold for the specification the runs check:

| theorem | says |
|---|---|
| `PathsImplementStream` | `PathsSpec => Spec` |
| `BothPathsAgree` | `PathsAgree`, for any number of calls and chunks |
| `ChatAnswersAreWhole` | every Chat completion is converted to what the writer of whole responses needs (the Chat half of `WholeResponseAssumption`) |

`PathsAgree` is about the end only. Two invariants reach it: `CollectedInv`, what was
collected is what was sent, piece by piece and call by call, and a call with a name has
an index; and `StatusInv`, an answer has the status its finish reason gives. Then both
answers are read off the same pieces. The streamed one holds what was sent
(`NothingLost`); the collected one holds an item for each named call and no other
(`ConversionElements`, `WholeElements`), since a subsequence has exactly the elements its
test admits (`SubsequenceElements`) and the calls' listing every index (`SetListed`). An
identified call is the same item on either path (`SameCall`), and items of different
kinds are different (`ItemKinds`), so that what is left is `onlyWhole` (`AgreeNow`).
`BothPathsAgree` assumes `~SplitNames` because `NothingIsLost` does: with pieces the
converter has settled the kind of a tool that the collector names later.

**Gateway.** The properties of a request are about its end, and say nothing of the
way there. The inductive invariant is `CallInv /\ BackoffInv /\ RequestInv /\ AnswerInv`:

| part | says | needed because |
|---|---|---|
| `CallInv` | a body is open exactly between an answer and its end, and every attempt starts to read the request at 0 | `BodiesClosed` and `AnswersWholeRequest` follow at once, but hold for the last attempt only if they hold for each |
| `BackoffInv` | the timer was set a pause after the rate limit, attempts sent and attempts counted agree | the pause is over when the attempt goes out, three steps later |
| `RequestInv` | the handler has come only as far as the flaws of the request let it | `AsAsked`: nobody is served whose request has a flaw |
| `AnswerInv` | nothing is out before the call is through; while the body is read the head is that of the mode (`HeadIsOut`); from "return" on the answer is what was promised (`Told`, `Fitting`) | the end of a body changes only the end of an answer, so the head must be right before |

`mode` depends on the request and on the upstream's status and kind only, so what was
decided when the head went out holds when the body ends (`ModeStable`). One lemma per
step of the handler then shows what it gives the client: `CheckAnswers`, `FailureAnswers`,
`HeadAnswers`, `PartAnswers`, `BreakAnswers`, `EndAnswers`, `ReturnAnswers`. From it
follow `BodiesAreClosed`, `WholeRequest`, `BackoffKept`, `OutcomesFit`, `TruncationTold`,
`ServedAsAsked` and `OneHeadOnly`: every safety property of the run `gateway`.

**Lifecycle.** `MainInv` says what each place of the main goroutine implies of signals
and requests; with it `ExitCodeIsTrue` and `GraceGranted`.

**Anthropic stream.** What is collected of a started block is the first fragments of its
body (`Collected`). A call's input is replaced only by a text that is a whole JSON object,
and the beginning of a JSON object never is one (`OnlyTheWholeParses`), so each block that
is kept is one of those `ShownOf` allows, and as `aggregated` takes them in the order of their
indices `NothingIsMadeUp` follows. Once the upstream has sent its stop reason every block is
closed or never had a start (`StopInv`), and a closed block of which all was sent has its
whole input; the blocks kept are those of known kinds with a start, hence
`StreamReassembled`.

**Whole responses.** The other writer shows one item at a time, so its invariant names
the copy outright: the items before `index` are those of the response, the one under way
is `shown(item, pc)`, as far in its stages as the place of the handler says and without
content until the delta is out (`ViewInv`). `PhaseInv` ties what the client was told to
the place, `PlaceInv` the place to the kind of the item: only messages have a content
part, and reasoning has no delta. `EventShows` says what each event makes of the copy,
and `AllShown` that after the last item it is the whole response. From the invariant
(`WholeResponseInvariant`) follow `ClientsHaveTheAnswer`, that is `EventsCarryTheAnswer`,
and `ImplementsProtocol`: the opening event of an item is `AddItem` since conversions
make whole items (`AddFollows`), the only delta is `Grow` since it finds the copy empty
(`DeltaFollows`), the closing events are `Advance` (`ClosingFollows`). So both producers
of an event stream implement `ResponsesProtocol`, this one for every response.

**Identifiers and sessions.** `SessionsInv` is `IdInv /\ SessionInv /\ HeadersInv`. `IdInv`
reads the count an id was made of off the history: it is the id's place in the row of
ids with its reading, since the counter starts anew when the reading changes
(`CountInv`), and the generator has kept the last one. So two ids are made of different
values, and what is left of a value modulo the six bytes differs and sorts but for the
exceptions of `TimePartsSorted` (`RemaindersDiffer`, `RemaindersSort`). `SessionInv` says by which of three ways each session came about:
digested from a signal, forwarded as it was, or made up. A made up one keeps the random
characters of its draw, which no other has; a digested one is taken to tell its signal,
as SHA-256 does, though the time parts of two digests may be the same. So two
conversations meet only where their clean signals do. `HeadersInv` is about the last request's headers. From them follow `IdsSort`,
`EverySessionCanonical` and `ConversationsKept`; the digest of any hash is canonical
(`DigestsAreCanonical`).

**Requests.** `PrepInv` says that the body is, at each stage, what the functions passed so
far make of the client's request; the rest is about those functions. The lemmas on
`subsequence` (it is the elements at the places, all of them, in order) carry
`ClientToolsFirst`, `ChoicesKept` and `CallsAsDeclared`; that `prepared` is idempotent, the
last conjunct of `UpstreamRequirements` (`RequirementsMet`), needs that the core tools that
were added are found again. `ListedModelsAskedFor` is about the suffix alone.

**Dialogue.** Both translations are told item by item, so every property of a whole input
needs one of its prefixes:

| part | says | needed because |
|---|---|---|
| `DialogueTypes` | types of the messages; media are pending only behind an output, and for a reader that goes on | the places below are places of sequences of messages |
| `TurnInv` | as long as calls are read, all of them are in the last Chat message; when outputs follow, it is followed by tool messages only | `ToolMessagesFollowTheirCall` names the output, its call came any number of items before |
| `AnthropicTurnInv` | the last message makes the calls of the turn until a result comes; then it is the results' message, behind that of the calls | the same, where the assistant may speak in between and results are blocks of one message |
| `EchoInv` | every call read is in a message, with the id, name and arguments made of it | messages grow in place: `grown` and `grownBlocks` say what a step may do to them |
| `ChatKept`, `AnthropicKept` | what was sent and, behind it, what is held back is in order and covers exactly the parts each item read is to be told | `DialogueKept` speaks of the end of the input only, when nothing is held back any more |

From `TurnInv`, `AnthropicTurnInv` and `EchoInv` follow `ToolMessagesInPlace`, `TurnsInPlace`
and `CallsComeBack`; the last by two facts about the conversions of a call, that a wrapper
which is unwrapped and wrapped again is the same (`WrapperRestored`) and what each upstream
gets of it (`ArgumentsRestored`). `ToldInOrder` proves the last row, and `DialogueTold` reads
`DialogueKept` off it. Each operation adds a row of atoms behind those that were told
(`extends`): to a new message, to the last one, or to the media held back (`MessageTold`,
`SpeechTold`, `JoinedTold`, `PendingTold`), and that row is what its item is to tell
(`ChatContent`, `SystemContent`, `OutputContent`, `AnthropicContent`, `AnthropicOutput`).
Media that are held back keep the order because they and the outputs they wait for are of
one run of outputs (`KeptHeld`, `KeptFlushed`). `VerdictsAgree` needs only which items either refuses.
All hold for inputs of any length up to `MaxItems`, which is arbitrary.

Every safety property of a passing run is a theorem. Left to TLC are the four liveness
properties (fairness and `ENABLED` are out of the prover's reach), and that Anthropic
messages are converted to whole items: that conversion is a fold over the blocks, and
what a fold computes for every input needs an induction over data that the prover
cannot do. TLC checks it of the messages of the run `whole_response`
(`WholeResponseAssumption`).

## 6. Not modelled, and the plan

Out of the models, and why:

* contents of Chat messages and `validateMessage`: the handler passes them on as they
  are; only its verdict counts, as one of the flaws `Gateway` starts from;
* instructions, sampling options, response formats: copied under another name;
* `aggregateResponsesStream`, which keeps the last terminal event of a stream: in
  `Gateway` it is a body that can or cannot be converted;
* parsing of the catalog (`zenCapabilityProviders`, `protocolFromSDK`): `ProtocolCache`
  starts from the maps it can yield;
* headers other than those of the session and the content type, and an upstream other
  than OpenCode Zen;
* sequence numbers, usage counters, response skeleton fields, splitting of SSE lines,
  logging, configuration, packaging;
* the connection pool of `net/http`, which appears only as "idle connections", and
  always as empty.

In this order the project goes on:

1. `aggregateResponsesStream`, and chunks without deltas, indices or choices as inputs
   of `ChatPaths`.
2. The catalog's parsing.
