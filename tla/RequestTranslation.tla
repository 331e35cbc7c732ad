------------------------- MODULE RequestTranslation -------------------------
(* The dialogue of a Responses request, rewritten for a Chat upstream        *)
(* (responsesMessagesToChat) and for an Anthropic upstream                   *)
(* (responsesMessagesToAnthropic), both in                                   *)
(* internal/protocol/responses_request.go.  A request goes through one of    *)
(* the two; here both read the same input, item by item, so that they can be *)
(* compared.                                                                 *)
(*                                                                           *)
(* A text, an image or a file is an atom that remembers the item and the     *)
(* part it comes from.  A call carries the arguments the upstream once sent  *)
(* for it; the client echoes what the gateway has made of them (ToolCalls).  *)
(* Left out: instructions, which become a system message or the system field *)
(* as they are, and an input that is a string, one message of the user.      *)
EXTENDS ToolCalls, SequencesExt, Subsequences

CONSTANTS Items,          \* what an input array can hold
          GeneratedCall,  \* an id made up by newID("call_")
          EmptyObject,    \* the JSON object {}
          MaxItems        \* bound on the length of the input

Calls == {"function_call", "custom_tool_call"}
\* An image may come without a URL, a file without data (hollow) or with its
\* data one level down, where Chat has it.
PartKinds == {"text", "image", "emptyImage", "file", "nestedFile", "hollow", "other"}
\* What responsesImagePartToChat and responsesFilePartToChat make a part of.
ChatMedia == {"image", "emptyImage", "file", "nestedFile"}
\* What responsesToolOutputToAnthropic has no case for.
NotInOutputs == {"file", "nestedFile", "hollow", "other"}
Fragments == STRING \cup {Opening, Closing, EmptyObject}

\* Ids that are made up are ids.
ASSUME ItemsAssumption ==
    /\ MaxItems \in Nat /\ GeneratedCall # NoCall
    /\ \A item \in Items :
          /\ item.type \in Calls => item.sent \in Seq(Fragments)
          /\ item.type = "output" => item.output.parts \in Seq(PartKinds)
          /\ item.type = "message" =>
                /\ item.content.parts \in Seq(PartKinds)
                /\ item.content.form = "absent" => item.content.parts = <<>>

VARIABLES input,           \* the items read so far
          done,            \* the whole array has been read
          chat,            \* messages of responsesMessagesToChat
          pendingMedia,    \* its media of tool outputs not yet sent on
          chatError,       \* its error, "" for none
          anthropic,       \* messages of responsesMessagesToAnthropic
          anthropicError   \* its error, "" for none

chatVars == <<chat, pendingMedia, chatError>>
anthropicVars == <<anthropic, anthropicError>>
dialogueVars == <<input, done, chatVars, anthropicVars>>

-----------------------------------------------------------------------------
(* Contents.  A content is absent, a string or an array of parts.            *)

atom(i, part, kind) == [item |-> i, part |-> part, kind |-> kind]

partsOf(i, parts, kinds) ==
    subsequence([j \in DOMAIN parts |-> atom(i, j, parts[j])],
                {j \in DOMAIN parts : parts[j] \in kinds})

hasPart(parts, kinds) == \E j \in DOMAIN parts : parts[j] \in kinds

\* An assistant's content is reduced to its text; a user's content of which
\* nothing remains is replaced by a placeholder.  An image without a URL is sent
\* on as it is.
responsesContentToChat(i, content, assistant) ==
    LET kept == partsOf(i, content.parts, IF assistant THEN {"text"} ELSE PartKinds \ {"hollow"})
    IN IF kept = <<>> /\ content.parts # <<>> /\ ~assistant
       THEN <<atom(i, 0, "attachment")>> ELSE kept

\* An image needs a URL, a file its data where Responses has it; without them,
\* and of any other kind, a part is dropped.
responsesContentToAnthropic(i, content) == partsOf(i, content.parts, {"text", "image", "file"})

\* A tool message has text only.  Parts unknown to the converter turn the whole
\* output into its JSON text; without any text a label of the media, or nothing
\* at all, stands in for it ("stub").
responsesToolOutputToChat(i, output) ==
    LET texts == partsOf(i, output.parts, {"text"})
        media == partsOf(i, output.parts, ChatMedia)
    IN IF hasPart(output.parts, {"other"})
       THEN [text |-> <<atom(i, 0, "json")>>, media |-> <<>>]
       ELSE [text |-> IF texts # <<>> THEN texts ELSE <<atom(i, 0, "stub")>>, media |-> media]

\* Any file makes it JSON too; an image without a URL is dropped.
responsesToolOutputToAnthropic(i, output) ==
    LET kept == partsOf(i, output.parts, {"text", "image"})
    IN IF hasPart(output.parts, NotInOutputs) THEN <<atom(i, 0, "json")>>
       ELSE IF kept = <<>> THEN <<atom(i, 0, "stub")>> ELSE kept

-----------------------------------------------------------------------------
(* Calls.                                                                    *)

wrap(text) == <<Opening>> \o text \o <<Closing>>

\* What the client echoes: the body it was shown for the call.
echoed(item) == callBody(item.type, item.sent)

callIDOf(item) == IF item.id = NoCall THEN GeneratedCall ELSE item.id

\* Fault: the input of a custom tool is passed on as the arguments.
chatArgumentsUnwrapped(item) == echoed(item)

\* responsesFunctionCallToChat: the input of a custom tool is wrapped again.
chatArguments(item) ==
    IF item.type = "custom_tool_call" THEN wrap(echoed(item)) ELSE echoed(item)

\* Texts that are JSON.
Parses(text) == text = <<EmptyObject>> \/ Wrapped(text)

\* Arguments that do not parse become the input of a wrapper of their own.
anthropicInput(item) ==
    CASE item.type = "custom_tool_call" -> wrap(echoed(item))
      [] item.type = "function_call" /\ echoed(item) = <<>> -> <<EmptyObject>>
      [] item.type = "function_call" /\ Parses(echoed(item)) -> echoed(item)
      [] OTHER -> wrap(echoed(item))

-----------------------------------------------------------------------------
(* Messages.                                                                 *)

chatMessage(role, content, calls, answers) ==
    [role |-> role, content |-> content, calls |-> calls, answers |-> answers]

\* Texts of the assistant in a row are one message, unless calls have begun.
appendAssistantMessage(messages, content) ==
    IF messages # <<>> /\ Last(messages).role = "assistant" /\ Last(messages).calls = <<>>
    THEN [messages EXCEPT ![Len(messages)].content = @ \o content]
    ELSE Append(messages, chatMessage("assistant", content, <<>>, NoCall))

\* A call joins the assistant's message when that is the last one.
appendAssistantToolCall(messages, call) ==
    IF messages # <<>> /\ Last(messages).role = "assistant"
    THEN [messages EXCEPT ![Len(messages)].calls = Append(@, call)]
    ELSE Append(messages, chatMessage("assistant", <<>>, <<call>>, NoCall))

\* Fault: roles are not merged.
appendMessageApart(messages, role, blocks) ==
    IF blocks = <<>> THEN messages ELSE Append(messages, [role |-> role, blocks |-> blocks])

\* Blocks of one role in a row are one message; no blocks are no message.
appendMessage(messages, role, blocks) ==
    CASE blocks = <<>> -> messages
      [] blocks # <<>> /\ messages # <<>> /\ Last(messages).role = role ->
            [messages EXCEPT ![Len(messages)].blocks = @ \o blocks]
      [] OTHER -> Append(messages, [role |-> role, blocks |-> blocks])

contentBlocks(content) ==
    [k \in DOMAIN content |-> [type |-> "content", id |-> NoCall, content |-> <<content[k]>>]]

toolUseBlock(i, item) ==
    [type |-> "tool_use", id |-> callIDOf(item), name |-> item.name, input |-> anthropicInput(item),
     item |-> i]

toolResultBlock(i, item) ==
    [type |-> "tool_result", id |-> item.id,
     content |-> responsesToolOutputToAnthropic(i, item.output)]

\* The media held back, as a message of the user.
withPendingMedia(messages) ==
    IF pendingMedia = <<>> THEN messages
    ELSE Append(messages, chatMessage("user", pendingMedia, <<>>, NoCall))

-----------------------------------------------------------------------------

DialogueInit == /\ input = <<>> /\ done = FALSE
                /\ chat = <<>> /\ pendingMedia = <<>> /\ chatError = ""
                /\ anthropic = <<>> /\ anthropicError = ""

\* The position of the item being read.
here == Len(input) + 1

Read(item) == /\ ~done /\ anthropicError = "" /\ Len(input) < MaxItems
              /\ input' = Append(input, item)
              /\ UNCHANGED done

\* What each converter makes of the item; one that has returned an error, and
\* with it no messages, reads no further.
Chat(messages, media) ==
    /\ IF chatError = "" THEN chat' = messages /\ pendingMedia' = media
                         ELSE UNCHANGED <<chat, pendingMedia>>
    /\ UNCHANGED chatError

ChatFails(error) == /\ chatError' = IF chatError = "" THEN error ELSE chatError
                    /\ chat' = <<>> /\ pendingMedia' = <<>>

Anthropic(messages) == anthropic' = messages /\ UNCHANGED anthropicError

AnthropicFails(error) == anthropicError' = error /\ anthropic' = <<>>

\* Reasoning and references to items are skipped, not without sending on the
\* media held back.
SkippedItem(item) == /\ item.type = "reasoning"
                     /\ Read(item)
                     /\ Chat(withPendingMedia(chat), <<>>)
                     /\ Anthropic(anthropic)

ToolCall(item) ==
    /\ item.type \in Calls /\ item.name # <<>>
    /\ Read(item)
    /\ Chat(appendAssistantToolCall(withPendingMedia(chat),
                [id |-> callIDOf(item), name |-> item.name, arguments |-> chatArguments(item),
                 item |-> here]), <<>>)
    /\ Anthropic(appendMessage(anthropic, "assistant", <<toolUseBlock(here, item)>>))

\* Fault: media are sent on with the output they belong to.
ToolOutputAtOnce(item) ==
    /\ item.type = "output" /\ item.id # NoCall
    /\ Read(item)
    /\ LET converted == responsesToolOutputToChat(here, item.output)
           messages == Append(chat, chatMessage("tool", converted.text, <<>>, item.id))
       IN Chat(IF converted.media = <<>> THEN messages
               ELSE Append(messages, chatMessage("user", converted.media, <<>>, NoCall)), <<>>)
    /\ Anthropic(appendMessage(anthropic, "user", <<toolResultBlock(here, item)>>))

\* Fault: only the media of the last output are kept.
ToolOutputReplacing(item) ==
    /\ item.type = "output" /\ item.id # NoCall
    /\ Read(item)
    /\ LET converted == responsesToolOutputToChat(here, item.output)
       IN Chat(Append(chat, chatMessage("tool", converted.text, <<>>, item.id)), converted.media)
    /\ Anthropic(appendMessage(anthropic, "user", <<toolResultBlock(here, item)>>))

\* The media of an output are held back until the outputs end.
ToolOutput(item) ==
    /\ item.type = "output" /\ item.id # NoCall
    /\ Read(item)
    /\ LET converted == responsesToolOutputToChat(here, item.output)
       IN Chat(Append(chat, chatMessage("tool", converted.text, <<>>, item.id)),
               pendingMedia \o converted.media)
    /\ Anthropic(appendMessage(anthropic, "user", <<toolResultBlock(here, item)>>))

\* A content that is absent is no message; an empty one is an empty message
\* of the Chat request and none of the Anthropic one.
UserMessage(item) ==
    /\ item.type = "message" /\ item.role = "user"
    /\ Read(item)
    /\ LET content == responsesContentToChat(here, item.content, FALSE)
       IN Chat(IF item.content.form = "absent" THEN withPendingMedia(chat)
               ELSE Append(withPendingMedia(chat), chatMessage("user", content, <<>>, NoCall)),
               <<>>)
    /\ Anthropic(appendMessage(anthropic, "user",
                    contentBlocks(responsesContentToAnthropic(here, item.content))))

AssistantMessage(item) ==
    /\ item.type = "message" /\ item.role = "assistant"
    /\ Read(item)
    /\ LET content == responsesContentToChat(here, item.content, TRUE)
       IN Chat(IF item.content.form = "absent" THEN withPendingMedia(chat)
               ELSE appendAssistantMessage(withPendingMedia(chat), content), <<>>)
    /\ Anthropic(appendMessage(anthropic, "assistant",
                    contentBlocks(responsesContentToAnthropic(here, item.content))))

\* contentText: the text of what a user's content would be, and no message
\* without text.
SystemMessage(item) ==
    /\ item.type = "message" /\ item.role = "system"
    /\ Read(item)
    /\ LET content == responsesContentToChat(here, item.content, FALSE)
           text == subsequence(content, {k \in DOMAIN content :
                                            content[k].kind \in {"text", "attachment"}})
       IN Chat(IF text = <<>> THEN withPendingMedia(chat)
               ELSE Append(withPendingMedia(chat), chatMessage("system", text, <<>>, NoCall)), <<>>)
    /\ Anthropic(anthropic)

\* An element that is no object ends the one conversion; the other takes it
\* for a message without content.
NotAnObject(item) == /\ item.type = "scalar"
                     /\ Read(item)
                     /\ ChatFails("object")
                     /\ Anthropic(anthropic)

refusal(item) ==
    CASE item.type \in Calls /\ item.name = <<>>                           -> "name"
      [] item.type = "output" /\ item.id = NoCall                          -> "call_id"
      [] item.type = "message" /\ item.role \notin {"user", "assistant", "system"} -> "role"
      [] item.type = "unknown"                                             -> "type"
      [] OTHER                                                             -> ""

\* Fault: one converter skips what it does not know.
RefusedByChatOnly(item) == /\ refusal(item) # ""
                           /\ Read(item)
                           /\ ChatFails(refusal(item))
                           /\ IF refusal(item) = "type" THEN Anthropic(anthropic)
                              ELSE AnthropicFails(refusal(item))

Refused(item) == /\ refusal(item) # ""
                 /\ Read(item)
                 /\ ChatFails(refusal(item))
                 /\ AnthropicFails(refusal(item))

\* The array ends: the media held back are sent on.
EndOfInput == /\ ~done /\ anthropicError = ""
              /\ done' = TRUE
              /\ Chat(withPendingMedia(chat), <<>>)
              /\ UNCHANGED <<input, anthropicVars>>

Returned == (done \/ anthropicError # "") /\ UNCHANGED dialogueVars

DialogueNext ==
    \/ \E item \in Items :
          \/ SkippedItem(item) \/ ToolCall(item) \/ ToolOutput(item)
          \/ UserMessage(item) \/ AssistantMessage(item) \/ SystemMessage(item)
          \/ NotAnObject(item) \/ Refused(item)
    \/ EndOfInput \/ Returned

DialogueSpec == DialogueInit /\ [][DialogueNext]_dialogueVars

-----------------------------------------------------------------------------

Atoms == [item : 1..MaxItems, part : Nat, kind : PartKinds \cup {"attachment", "stub", "json"}]

\* Every variable stays in its domain, messages of the assistant alone have
\* calls, and media are held back only behind the output they come from.
DialogueTypeOK ==
    /\ input \in Seq(Items) /\ Len(input) <= MaxItems /\ done \in BOOLEAN
    /\ \A m \in ToSet(chat) :
          /\ m.role \in {"system", "user", "assistant", "tool"}
          /\ ToSet(m.content) \subseteq Atoms
          /\ m.calls # <<>> => m.role = "assistant"
          /\ m.answers # NoCall <=> m.role = "tool"
    /\ \A m \in ToSet(anthropic) : m.role \in {"user", "assistant"} /\ m.blocks # <<>>
    /\ pendingMedia # <<>> => Last(chat).role = "tool" /\ Last(input).type = "output"
    /\ chatError \in {"", "object", "name", "call_id", "role", "type"}
    /\ anthropicError \in {"", "name", "call_id", "role", "type"}

isOutput(k) == input[k].type = "output"
isCall(k, id) == input[k].type \in Calls /\ callIDOf(input[k]) = id

\* The output follows its call with nothing in between but other calls, then
\* other outputs.
AnsweredAtOnce(k) ==
    isOutput(k) /\ \E j \in 1..k - 1 :
        /\ isCall(j, input[k].id)
        /\ \E b \in j..k - 1 : /\ \A l \in j..b : input[l].type \in Calls
                               /\ \A l \in b + 1..k : isOutput(l)

\* A Chat upstream wants the tool messages right behind the message that made
\* the calls: whatever media the outputs carry, a tool message whose output
\* follows its call is separated from the call by tool messages only
\* (responses_request.go:217, media held back).
ToolMessagesFollowTheirCall ==
    chatError = "" =>
        \A k \in DOMAIN input : AnsweredAtOnce(k) =>
            \E m, n \in DOMAIN chat :
                /\ m < n
                /\ \E call \in ToSet(chat[m].calls) : call.id = input[k].id
                /\ chat[n].answers = input[k].id /\ chat[n].content[1].item = k
                /\ \A l \in m + 1..n : chat[l].role = "tool"

\* The call's turn: what the assistant may still say before the first output,
\* and what no message comes of.
AnsweredInTurn(k) ==
    isOutput(k) /\ \E j \in 1..k - 1 :
        /\ isCall(j, input[k].id)
        /\ \E b \in j..k - 1 :
              /\ \A l \in j..b :
                    ~isOutput(l) /\ (input[l].type = "message" => input[l].role # "user")
              /\ \A l \in b + 1..k :
                    isOutput(l) \/ input[l].type \in {"reasoning", "scalar"}

\* An Anthropic upstream wants no message empty, the roles to alternate and the
\* results of a turn's calls first in the user message behind it: so they are,
\* even when the assistant spoke between call and result, where the Chat
\* conversion already splits them (responses_request.go:628, appendMessage),
\* and when nothing remains of a message's parts.
AnthropicTurns ==
    /\ \A n \in DOMAIN anthropic : anthropic[n].blocks # <<>>
    /\ \A n \in 1..Len(anthropic) - 1 : anthropic[n].role # anthropic[n + 1].role
    /\ \A k \in DOMAIN input : AnsweredInTurn(k) /\ anthropicError = "" =>
          \E n \in 2..Len(anthropic) :
              /\ \E block \in ToSet(anthropic[n - 1].blocks) :
                    block.type = "tool_use" /\ block.id = input[k].id
              /\ \E b \in DOMAIN anthropic[n].blocks :
                    /\ anthropic[n].blocks[b].id = input[k].id
                    /\ anthropic[n].blocks[b].content[1].item = k
                    /\ \A c \in 1..b : anthropic[n].blocks[c].type = "tool_result"

-----------------------------------------------------------------------------

\* What a request says, by the message, the block and the place in the block.
chatAtoms ==
    [place \in UNION {{<<n, 1, p>> : p \in DOMAIN chat[n].content} : n \in DOMAIN chat} |->
        chat[place[1]].content[place[3]]]

\* Blocks with a content; a call has none.
told(n) == {b \in DOMAIN anthropic[n].blocks : anthropic[n].blocks[b].type # "tool_use"}
anthropicAtoms ==
    [place \in UNION {UNION {{<<n, b, p>> : p \in DOMAIN anthropic[n].blocks[b].content}
                                : b \in told(n)} : n \in DOMAIN anthropic} |->
        anthropic[place[1]].blocks[place[2]].content[place[3]]]

before(p, q) == \/ p[1] < q[1]
                \/ p[1] = q[1] /\ p[2] < q[2]
                \/ p[1] = q[1] /\ p[2] = q[2] /\ p[3] < q[3]

origin(a) == <<a.item, a.part>>
origins(atoms) == {origin(atoms[p]) : p \in DOMAIN atoms}

\* What the input says: the parts of its messages and outputs, but for files
\* without data.
said(k) == IF input[k].type = "message" THEN input[k].content.parts
           ELSE IF isOutput(k) THEN input[k].output.parts ELSE <<>>
spoken == UNION {{<<k, j>> : j \in {i \in DOMAIN said(k) : said(k)[i] # "hollow"}}
                    : k \in DOMAIN input}

\* What a Chat upstream is not told: anything but text from the assistant or
\* the system.
untoldToChat == {p \in spoken : /\ input[p[1]].type = "message"
                                 /\ input[p[1]].role # "user" /\ said(p[1])[p[2]] # "text"}

\* What an Anthropic upstream is not told, where Chat is: the system's and
\* developer's messages; of other messages the parts of unknown kind, images
\* without a URL and files with their data one level down; of outputs the images
\* without a URL, unless another part has made the output JSON.
untoldToAnthropic ==
    {p \in spoken :
        IF isOutput(p[1])
        THEN said(p[1])[p[2]] = "emptyImage" /\ ~hasPart(said(p[1]), NotInOutputs)
        ELSE \/ input[p[1]].role = "system"
             \/ said(p[1])[p[2]] \in {"other", "emptyImage", "nestedFile"}}

\* An output told as JSON tells all its parts.
toldAsJSON(atoms) ==
    {p \in spoken : \E a \in DOMAIN atoms : atoms[a].item = p[1] /\ atoms[a].kind = "json"}

\* No atom twice, and out of order only the media of a run of outputs, which
\* come behind the run.
inOrder(atoms) ==
    \A a, b \in DOMAIN atoms : before(a, b) =>
        /\ origin(atoms[a]) # origin(atoms[b])
        /\ atoms[a].item > atoms[b].item =>
              \A k \in atoms[b].item..atoms[a].item : isOutput(k)
        /\ atoms[a].item = atoms[b].item =>
              (atoms[a].part < atoms[b].part \/ isOutput(atoms[a].item))

\* Either way the upstream is told the dialogue once, whole and in order, but
\* for the parts named above: regrouping, merging and holding back lose and
\* repeat nothing (responses_request.go:195-280, 626-709).
DialogueKept ==
    /\ done /\ chatError = "" =>
          /\ inOrder(chatAtoms)
          /\ {p \in origins(chatAtoms) : p[2] # 0} \cup toldAsJSON(chatAtoms)
               = spoken \ untoldToChat
    /\ done /\ anthropicError = "" =>
          /\ inOrder(anthropicAtoms)
          /\ {p \in origins(anthropicAtoms) : p[2] # 0} \cup toldAsJSON(anthropicAtoms)
               = spoken \ untoldToAnthropic

\* Which upstream a model is served by does not decide whether a request is
\* refused, nor why, unless the input has an element that is no object.
SameVerdict ==
    (\A k \in DOMAIN input : input[k].type # "scalar") => chatError = anthropicError

\* Whether what was sent for the call is what its tool takes: a wrapper, when
\* it is a custom tool.
sentAsDeclared(item) == item.type = "custom_tool_call" => Wrapped(item.sent)

\* A call comes back to the upstream as the upstream made it: shown to the
\* client, echoed and translated again it has its name, its id and its
\* arguments; the only exception is a custom tool's call whose arguments were
\* no wrapper (responses_response.go customToolInput against
\* responses_request.go:316-344 and 655-677).
CallsEchoed ==
    \A k \in DOMAIN input : input[k].type \in Calls /\ input[k].name # <<>> =>
        /\ chatError = "" => \E m \in ToSet(chat) : \E call \in ToSet(m.calls) :
              /\ call.item = k /\ call.name = input[k].name /\ call.id = callIDOf(input[k])
              /\ sentAsDeclared(input[k]) => call.arguments = input[k].sent
        /\ anthropicError = "" => \E m \in ToSet(anthropic) : \E block \in ToSet(m.blocks) :
              /\ block.type = "tool_use"
              /\ block.item = k /\ block.name = input[k].name /\ block.id = callIDOf(input[k])
              /\ sentAsDeclared(input[k]) /\ Parses(input[k].sent) => block.input = input[k].sent
=============================================================================
