-------------------------- MODULE AnswerConversion --------------------------
(* The conversions of a complete upstream answer to the output of a          *)
(* Responses response (internal/protocol/responses_response.go):             *)
(* ChatCompletionToResponses and AnthropicMessageToResponses.                *)
EXTENDS ToolCalls, Subsequences, SequencesExt

CONSTANTS GeneratedCall  \* an id made up by newID("call_")

-----------------------------------------------------------------------------

outputItem(kind, name, callID, body) ==
    [kind |-> kind, name |-> name, callID |-> callID, body |-> body, stage |-> "done"]

messageOutputItem(text) == outputItem("message", <<>>, NoCall, text)

reasoningOutputItem(text) == outputItem("reasoning", <<>>, NoCall, text)

\* Reasoning goes first, and only when there is some.
withReasoning(reasoning, output) ==
    IF reasoning = <<>> THEN output ELSE <<reasoningOutputItem(reasoning)>> \o output

callIDOf(call) == IF call.id = NoCall THEN GeneratedCall ELSE call.id

\* buildResponsesResponse: a finish reason that means truncation.
statusOf(finishReason) ==
    IF finishReason \in {"length", "max_tokens", "max_output_tokens", "content_filter"}
    THEN "incomplete" ELSE "completed"

-----------------------------------------------------------------------------

chatToolCallToResponses(call) ==
    outputItem(toolKind(call.name), call.name, callIDOf(call),
               callBody(toolKind(call.name), call.arguments))

\* A call without a name has no item; a message is shown unless it is empty
\* and there are calls, even when none of them has a name.
ChatCompletionToResponses(completion) ==
    LET calls == completion.toolCalls
        named == subsequence(calls, {k \in DOMAIN calls : calls[k].name # <<>>})
        shown == [k \in DOMAIN named |-> chatToolCallToResponses(named[k])]
        text  == IF completion.content # <<>> \/ calls = <<>>
                 THEN <<messageOutputItem(completion.content)>> ELSE <<>>
    IN [status |-> statusOf(completion.finishReason),
        output |-> withReasoning(completion.reasoning, text \o shown)]

-----------------------------------------------------------------------------

\* The input of a custom tool; an empty one is shown with its wrapper.
anthropicInput(kind, input) ==
    IF kind = "custom_tool_call" /\ customToolInput(input) # <<>>
    THEN customToolInput(input) ELSE input

anthropicToolUseToResponses(block) ==
    outputItem(toolKind(block.name), block.name, callIDOf(block),
               anthropicInput(toolKind(block.name), block.input))

\* Text joins the message item under way; a tool_use block, with or without
\* a name, ends it.  Redacted thinking is shown by its data, and blocks of
\* other kinds are not shown.
addBlock(state, block) ==
    CASE block.type = "text" ->
            IF state.messageIndex = 0
            THEN [state EXCEPT !.output = Append(@, messageOutputItem(block.text)),
                               !.messageIndex = Len(state.output) + 1]
            ELSE [state EXCEPT !.output[state.messageIndex].body = @ \o block.text]
      [] block.type \in {"thinking", "redacted_thinking"} ->
            [state EXCEPT !.reasoning = @ \o block.text]
      [] block.type = "tool_use" ->
            [state EXCEPT !.messageIndex = 0,
                          !.output = IF block.name = <<>> THEN @
                                     ELSE Append(@, anthropicToolUseToResponses(block))]
      [] OTHER -> state

anthropicFinishReason(value) == IF value = "max_tokens" THEN "length" ELSE "stop"

AnthropicMessageToResponses(message) ==
    LET state == FoldLeft(addBlock, [output |-> <<>>, messageIndex |-> 0, reasoning |-> <<>>],
                          message.content)
        output == withReasoning(state.reasoning, state.output)
    IN [status |-> statusOf(anthropicFinishReason(message.stopReason)),
        output |-> IF output = <<>> THEN <<messageOutputItem(<<>>)>> ELSE output]
=============================================================================
