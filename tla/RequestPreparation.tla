------------------------- MODULE RequestPreparation -------------------------
(* A request on its way to the upstream body, apart from its dialogue:       *)
(* validation (internal/httpapi/server.go), the translation of tools, tool   *)
(* choice and limits (internal/protocol/responses_request.go), the model     *)
(* suffix and what OpenCode Zen expects of every request                     *)
(* (internal/provider/client.go, zen_compat.go), and the list the client has *)
(* its model from (filterFreeModels).                                        *)
(*                                                                           *)
(* A model name is a sequence of pieces: a base, "-free", and a space around *)
(* it.  The schema of a tool is its declaration's ("own"), the JSON wrapper   *)
(* of a free-form input ("input") or OpenCode's own ("opencode").            *)
EXTENDS SequencesExt, Subsequences

CONSTANTS Requests,   \* what clients send
          Catalog,    \* ids of the models the upstream lists
          CoreTools   \* openCodeCoreToolNames, the names opencode_tools.json defines

\* A tool's schema is its own or absent; OpenCode's names are distinct.
ClientTools == [type : STRING, name : STRING, schema : {"absent", "own"}]
ASSUME RequestAssumption ==
    /\ Requests \subseteq
          [endpoint : {"chat", "responses"}, model : Seq(STRING),
           stream : {"absent", "true", "false", "text"},
           maxTokens : {"absent", "positive", "negative", "text"}, includeUsage : BOOLEAN,
           tools : Seq(ClientTools), choice : [kind : STRING, name : STRING],
           malformed : BOOLEAN]
    /\ Catalog \subseteq Seq(STRING)
    /\ CoreTools \in Seq(STRING \ {""})
    /\ \A c, d \in DOMAIN CoreTools : CoreTools[c] = CoreTools[d] => c = d

VARIABLES request,  \* the client's request
          target,   \* the protocol of the upstream that serves it
          body,     \* the body made of it so far
          stage     \* where the handler is

vars == <<request, target, body, stage>>

Targets == {"chat", "responses", "anthropic"}

-----------------------------------------------------------------------------
(* Model names.                                                              *)

trimmed(model) == IF model # <<>> /\ Last(model) = " " THEN Front(model) ELSE model

\* The suffix is added to whatever does not end with it.
ensureFreeModel(model) ==
    IF model = <<>> \/ Last(model) = "-free" THEN model ELSE Append(model, "-free")

\* Fault: whatever ends with the suffix loses it, all of it.
listedAsBare(id, strip) == IF strip THEN SelectSeq(id, LAMBDA piece : piece # "-free") ELSE id

\* StripFreeModelSuffix.
listedAs(id, strip) == IF strip THEN Front(id) ELSE id

\* Clients are told of the free models only.
filterFreeModels(strip) ==
    [id \in {i \in Catalog : i # <<>> /\ Last(i) = "-free"} |-> listedAs(id, strip)]

-----------------------------------------------------------------------------
(* Tools and tool choice of a Responses request.                             *)

\* A tool without a type is a function.
toolType(tool) == IF tool.type = "" THEN "function" ELSE tool.type

\* Fault: only functions are translated.
translatableFunction(tool) == toolType(tool) = "function" /\ tool.name # ""

\* Tools of other types, web search for one, cannot be passed on.
translatable(tool) == toolType(tool) \in {"function", "custom"} /\ tool.name # ""

\* Fault: a custom tool keeps the parameters it came with.
schemaOfAny(tool) == IF tool.schema = "absent" THEN "input" ELSE tool.schema

\* A custom tool, and a function without parameters, takes one input string.
schemaOf(tool) ==
    IF tool.type = "custom" \/ tool.schema = "absent" THEN "input" ELSE tool.schema

\* Both upstreams are offered the same functions, laid out differently.
responsesToolsToChat(tools) ==
    LET kept == subsequence(tools, {k \in DOMAIN tools : translatable(tools[k])})
    IN [k \in DOMAIN kept |-> [type |-> "function", name |-> kept[k].name,
                               schema |-> schemaOf(kept[k])]]

responsesToolsToAnthropic(tools) == responsesToolsToChat(tools)

toolNames(tools) == {tools[k].name : k \in DOMAIN tools}

\* ResponsesToolTypes: how the request declared the name; the last time counts.
declaredType(tools, name) ==
    toolType(tools[CHOOSE k \in DOMAIN tools :
                      /\ tools[k].name = name
                      /\ \A l \in k + 1..Len(tools) : tools[l].name # name])

NoChoice == [kind |-> "absent", name |-> ""]

\* A tool's choice names it; a list of allowed tools is reduced to its mode,
\* or to its only tool.
responsesToolChoiceToChat(choice) ==
    CASE choice.kind \in {"auto", "required", "none"} -> choice
      [] choice.kind = "tool" /\ choice.name # "" -> choice
      [] choice.kind = "allowed required" -> [kind |-> "required", name |-> ""]
      [] choice.kind = "allowed" /\ choice.name # "" -> [kind |-> "tool", name |-> choice.name]
      [] choice.kind = "allowed" /\ choice.name = "" -> [kind |-> "auto", name |-> ""]
      [] OTHER -> NoChoice

\* Here such a list is not translated, and "none" is no choice.
responsesToolChoiceToAnthropic(choice) ==
    CASE choice.kind = "auto" -> choice
      [] choice.kind = "tool" /\ choice.name # "" -> choice
      [] choice.kind = "required" -> [kind |-> "any", name |-> ""]
      [] OTHER -> NoChoice

isChatNoneToolChoice(choice) == choice.kind = "none"

-----------------------------------------------------------------------------
(* The two translations.                                                     *)

streamOf(stream) == IF stream \in {"true", "false"} THEN stream ELSE "absent"

ResponsesToChat(r) ==
    [r EXCEPT !.model = trimmed(@), !.stream = streamOf(@), !.malformed = FALSE,
              !.tools = IF r.malformed THEN <<>> ELSE responsesToolsToChat(@),
              !.choice = responsesToolChoiceToChat(@),
              !.maxTokens = IF @ = "negative" THEN "absent" ELSE @,
              !.includeUsage = FALSE]

ResponsesToAnthropic(r) ==
    [r EXCEPT !.model = trimmed(@), !.stream = streamOf(@), !.malformed = FALSE,
              !.tools = IF r.malformed \/ isChatNoneToolChoice(r.choice) THEN <<>>
                        ELSE responsesToolsToAnthropic(@),
              !.choice = responsesToolChoiceToAnthropic(@),
              !.maxTokens = IF @ \in {"negative", "absent"} THEN "positive" ELSE @,
              !.includeUsage = FALSE]

-----------------------------------------------------------------------------
(* prepareOpenCodeRequestBody.                                               *)

openCodeTool(name) == [type |-> "function", name |-> name, schema |-> "opencode"]

\* Where the name stands depends on the protocol; Chat has it for functions.
openCodeRequestToolName(tool) ==
    IF target = "chat" /\ toolType(tool) # "function" THEN "" ELSE tool.name

isCore(name) == \E k \in DOMAIN CoreTools : CoreTools[k] = name

\* Fault: the core tools are added whether or not they are there.
openCodeToolsAdded(tools) ==
    [k \in DOMAIN tools |->
        IF isCore(openCodeRequestToolName(tools[k]))
        THEN openCodeTool(tools[k].name) ELSE tools[k]]
    \o [k \in DOMAIN CoreTools |-> openCodeTool(CoreTools[k])]

\* A tool with OpenCode's name gets OpenCode's definition; core tools that are
\* not there are added.
openCodeTools(tools) ==
    LET present == {openCodeRequestToolName(tools[k]) : k \in DOMAIN tools}
        missing == subsequence(CoreTools, {c \in DOMAIN CoreTools : CoreTools[c] \notin present})
    IN [k \in DOMAIN tools |->
           IF isCore(openCodeRequestToolName(tools[k]))
           THEN openCodeTool(tools[k].name) ELSE tools[k]]
       \o [k \in DOMAIN missing |-> openCodeTool(missing[k])]

\* Fault: a limit that is no number is left as it is.
preparedLimitLoose(limit) ==
    IF target = "anthropic" /\ limit \in {"absent", "negative"} THEN "positive" ELSE limit

\* An Anthropic upstream needs a limit.
preparedLimit(limit) == IF target = "anthropic" THEN "positive" ELSE limit

prepared(b) ==
    [b EXCEPT !.stream = "true",
              !.includeUsage = target = "chat" \/ @,
              !.maxTokens = preparedLimit(@),
              !.tools = openCodeTools(@)]

-----------------------------------------------------------------------------

Init == /\ request \in Requests
        /\ target \in IF request.endpoint = "chat" THEN {"chat"} ELSE Targets
        /\ body = request
        /\ stage = "received"

\* parseChatRequest, ResponsesRequestMeta: a model is required, and the one
\* of them minds a stream flag that is no boolean.
valid == /\ trimmed(request.model) # <<>>
         /\ request.endpoint = "chat" => request.stream # "text"

Refuse == /\ stage = "received" /\ ~valid
          /\ stage' = "refused"
          /\ UNCHANGED <<request, target, body>>

translated == request.endpoint = "responses" /\ target # "responses"

\* Chat requests, and Responses requests of a model that speaks Responses,
\* go on as the client sent them.
Translate == /\ stage = "received" /\ valid
             /\ body' = CASE translated /\ target = "chat"      -> ResponsesToChat(request)
                          [] translated /\ target = "anthropic" -> ResponsesToAnthropic(request)
                          [] OTHER                              -> request
             /\ stage' = "translated"
             /\ UNCHANGED <<request, target>>

AddSuffix == /\ stage = "translated"
             /\ body' = [body EXCEPT !.model = ensureFreeModel(@)]
             /\ stage' = "free"
             /\ UNCHANGED <<request, target>>

\* decodeOpenCodeTools: tools that are no array end the call, as an upstream
\* failure.
Prepare == /\ stage = "free"
           /\ IF body.malformed THEN stage' = "failed" /\ UNCHANGED body
                                ELSE stage' = "sent" /\ body' = prepared(body)
           /\ UNCHANGED <<request, target>>

Finished == stage \in {"refused", "failed", "sent"} /\ UNCHANGED vars

Next == Refuse \/ Translate \/ AddSuffix \/ Prepare \/ Finished

Spec == Init /\ [][Next]_vars

-----------------------------------------------------------------------------

\* A refused or failed request sent nothing, and only malformed tools that
\* nobody translated make the call fail.
TypeOK == /\ target \in Targets
          /\ stage \in {"received", "refused", "translated", "free", "failed", "sent"}
          /\ stage = "failed" <=> valid /\ request.malformed /\ ~translated
                                   /\ stage \notin {"received", "translated", "free"}
          /\ stage = "refused" => body = request

\* Whatever the client asked for, the upstream is asked for a stream, with its
\* usage on Chat and a positive limit on Anthropic, of a model with the free
\* suffix: that of the model whose protocol was looked up, unless its name
\* was padded and nobody translated it (zen_compat.go:36, README.md:13).  A
\* body that has been prepared is not changed by being prepared again, as by a
\* second gateway (client.go:206, zen_compat.go:25).
UpstreamRequirements ==
    stage = "sent" =>
        /\ body.stream = "true"
        /\ target = "chat" => body.includeUsage
        /\ target = "anthropic" => body.maxTokens = "positive"
        /\ Last(body.model) = "-free"
        /\ translated \/ trimmed(request.model) = request.model =>
              body.model = ensureFreeModel(trimmed(request.model))
        /\ prepared([body EXCEPT !.model = ensureFreeModel(@)]) = body

\* A client that asks for a model under the name it was listed with, stripped
\* of its suffix or not, has the upstream asked for that very model; the
\* exception is an id that is left with the suffix, padded or with nothing once
\* stripped (server.go:158 against client.go:217).
AsListed ==
    stage = "sent" =>
        \A strip \in BOOLEAN : \A id \in DOMAIN filterFreeModels(strip) :
            LET name == filterFreeModels(strip)[id] IN
            name = request.model /\ (strip => Last(name) \notin {"-free", " "})
                => body.model = id

sentName(k) == openCodeRequestToolName(body.tools[k])
withoutTools == target = "anthropic" /\ request.choice.kind = "none"
distinctNames(tools) ==
    \A k, l \in DOMAIN tools : k # l /\ tools[k].name = tools[l].name => tools[k].name = ""

\* The client's tools, those that can be, come first and in their order; every
\* core tool is there with OpenCode's definition, and no name is offered
\* twice unless the client did so (zen_compat.go:59-82).
ToolsOffered ==
    stage = "sent" =>
        LET mine == IF ~translated THEN request.tools
                    ELSE IF request.malformed \/ withoutTools THEN <<>>
                         ELSE subsequence(request.tools, {k \in DOMAIN request.tools :
                                 /\ toolType(request.tools[k]) \in {"function", "custom"}
                                 /\ request.tools[k].name # ""})
        IN /\ Len(mine) <= Len(body.tools)
           /\ \A k \in DOMAIN mine : body.tools[k].name = mine[k].name
           /\ \A k \in Len(mine) + 1..Len(body.tools) : isCore(sentName(k))
           /\ \A c \in DOMAIN CoreTools : \E k \in DOMAIN body.tools : sentName(k) = CoreTools[c]
           /\ \A k \in DOMAIN body.tools :
                 isCore(sentName(k)) <=> body.tools[k].schema = "opencode"
           /\ distinctNames(mine) =>
                 \A k, l \in DOMAIN body.tools :
                    k # l /\ sentName(k) # "" => sentName(k) # sentName(l)

\* A choice that names a function or a custom tool of the request names a
\* tool the upstream is offered, and a client that wants no tool called has the
\* upstream told so; an Anthropic upstream is not told, and is offered none
\* but OpenCode's own tools (responses_request.go:118, 567, 868,
\* zen_compat.go:73).  Nothing is promised of "required", nor of lists of
\* allowed tools, which an Anthropic upstream is not told at all.
ChoiceKept ==
    stage = "sent" =>
        /\ translated /\ body.choice.kind = "tool" =>
              \/ \E k \in DOMAIN body.tools : sentName(k) = body.choice.name
              \/ \A k \in DOMAIN request.tools :
                    request.tools[k].name = request.choice.name
                      => toolType(request.tools[k]) \notin {"function", "custom"}
              \/ request.malformed
        /\ request.choice.kind = "none" =>
              \/ body.choice.kind = "none"
              \/ /\ translated /\ target = "anthropic"
                 /\ \A k \in DOMAIN body.tools : body.tools[k].schema = "opencode"

\* A call of a tool comes back in the shape its declaration gives it: what
\* is converted to a custom tool call was offered with an input to unwrap, and
\* only that or a function without parameters was.  Names OpenCode defines,
\* and names declared twice, are the exceptions (responses_request.go:28,
\* 546 against zen_compat.go:66).
CallsComeBackAsDeclared ==
    stage = "sent" /\ translated /\ distinctNames(request.tools) =>
        \A k \in DOMAIN body.tools :
            LET tool == body.tools[k] IN
            tool.name \in toolNames(request.tools) /\ ~isCore(tool.name) =>
                /\ declaredType(request.tools, tool.name) = "custom" => tool.schema = "input"
                /\ declaredType(request.tools, tool.name) # "custom" =>
                      \E d \in DOMAIN request.tools :
                          /\ request.tools[d].name = tool.name
                          /\ tool.schema = "input" <=> request.tools[d].schema = "absent"
===========================================================================
