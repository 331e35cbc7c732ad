------------------------ MODULE RequestPreparationMC ------------------------
(* Requests with up to two tools, one of them under the name of a core tool,  *)
(* and every kind of tool choice.                                            *)
EXTENDS RequestPreparation

\* The order of openCodeCoreToolNames, cut to two.
MCCoreTools == <<"shell", "read">>

tool(type, name, schema) == [type |-> type, name |-> name, schema |-> schema]

Tools == {tool("function", "lookup", "own"), tool("", "ping", "absent"),
          tool("custom", "patch", "own"), tool("custom", "shell", "own"),
          tool("function", "shell", "own"), tool("web_search", "", "absent"),
          tool("web_search", "patch", "absent")}

ToolChoices == [kind : {"absent", "auto", "required", "none", "hosted", "allowed required"},
                name : {""}]
           \cup [kind : {"tool"}, name : {"lookup", "ping", "patch", "shell", ""}]
           \cup [kind : {"allowed"}, name : {"", "patch"}]

Models == {<<"m">>, <<"m", "-free">>, <<"m", "-free", "-free">>,
           <<"m", " ">>, <<"m", "-free", " ">>, <<" ">>, <<>>}

\* The upstream's own ids.
MCCatalog == {<<"m">>, <<"m", "-free">>, <<"m", "-free", "-free">>, <<"m", " ", "-free">>,
              <<"-free">>}

asked(models, streams, limits, tools, choices, malformed) ==
    [endpoint : {"chat", "responses"}, model : models, stream : streams, maxTokens : limits,
     includeUsage : BOOLEAN, tools : tools, choice : choices, malformed : malformed]

\* Tools with choices, and the plain options.
MCRequests ==
    asked({<<"m">>}, {"absent"}, {"absent"},
          UNION {[1..n -> Tools] : n \in 0..2}, ToolChoices, {FALSE})
    \cup asked(Models, {"absent", "true", "false", "text"},
               {"absent", "positive", "negative", "text"},
               {<<>>, <<tool("custom", "patch", "own")>>}, {NoChoice}, BOOLEAN)
=============================================================================
