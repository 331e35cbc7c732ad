-------------------------- MODULE AnthropicStreamMC --------------------------
(* AnthropicStream with messages of up to three blocks, no two of them alike. *)
EXTENDS AnthropicStream

CONSTANTS t1, t2

MCNames == {<<"lookup">>, <<"patch">>}
MCCustomNames == {<<"patch">>}

MCBlocks == {[type |-> "thinking", text |-> <<"x">>],
             [type |-> "text", text |-> <<>>],
             [type |-> "redacted_thinking", text |-> <<"x">>],
             [type |-> "text", text |-> <<"x", "y">>],
             [type |-> "tool_use", id |-> t1, name |-> <<"lookup">>, input |-> <<"open", "close">>],
             [type |-> "tool_use", id |-> t2, name |-> <<"patch">>,
               input |-> <<"open", "x", "close">>]}

MCContents == UNION {{content \in [1 .. n -> MCBlocks] : IsInjective(content)} : n \in 0 .. 3}

MCMessages == [content : MCContents, stopReason : {"end_turn", "max_tokens"}]
=============================================================================
