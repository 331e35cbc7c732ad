-------------------------- MODULE WholeResponseMC --------------------------
(* WholeResponse fed with what the two conversions make of every small      *)
(* upstream answer.                                                         *)
EXTENDS WholeResponse, AnswerConversion

Texts == {<<>>, <<"open">>}
Inputs == {<<"open", "close">>, <<"open", "x", "close">>}
Lookup == <<"lookup">>
Patch == <<"patch">>

Calls == [name : {<<>>, Lookup, Patch}, id : {"call", NoCall}, arguments : Inputs]

Completions ==
    [content : Texts, reasoning : Texts, finishReason : {"stop", "length"},
     toolCalls : {<<>>} \cup {<<call>> : call \in Calls}
                 \cup {<<call, other>> : call \in Calls,
                       other \in [name : {Lookup, Patch}, id : {"call"},
                                 arguments : {<<"x">>}]}]

Blocks == [type : {"text"}, text : Texts]
          \cup [type : {"thinking", "redacted_thinking", "server_tool_use"}, text : {<<"x">>}]
          \cup [type : {"tool_use"}, name : {<<>>, Lookup, Patch}, id : {"call", NoCall},
                input : Inputs]

Messages == [stopReason : {"end_turn", "max_tokens"},
             content : UNION {[1..n -> Blocks] : n \in 0..2}]

MCNames == {Lookup, Patch}
MCCustomNames == {Patch}
MCCallIDs == {"call", GeneratedCall}

MCReasonings == {<<"open">>, <<"x">>, <<"x", "x">>}

MCAnswers == {ChatCompletionToResponses(c) : c \in Completions}
             \cup {AnthropicMessageToResponses(m) : m \in Messages}
=============================================================================
