----------------------------- MODULE ToolCalls -----------------------------
(* Tool calls, as internal/protocol knows them.  A name is a sequence of    *)
(* fragments, as texts are.  Custom tools are declared by the request       *)
(* only: the upstream knows nothing but functions, so the free-form input   *)
(* of a custom tool travels inside a JSON arguments object {"input": ...}.  *)
EXTENDS Naturals, Sequences

CONSTANTS Names,        \* names a tool can have
          CustomNames,  \* tools the request declared with type "custom"
          Opening,      \* the fragments that open and close the JSON wrapper
          Closing,
          NoCall        \* an absent call id

\* Fault: the declared type is passed on as the item type.
toolKindAsDeclared(name) == IF name \in CustomNames THEN "custom" ELSE "function_call"

\* The item type of a call, by the tool's declaration.
toolKind(name) == IF name \in CustomNames THEN "custom_tool_call" ELSE "function_call"

Wrapped(arguments) ==
    /\ Len(arguments) >= 2
    /\ arguments[1] = Opening /\ arguments[Len(arguments)] = Closing
    /\ \A k \in 2..Len(arguments) - 1 : arguments[k] \notin {Opening, Closing}

\* The input inside a complete wrapper, the raw arguments when they do not
\* parse as one.
customToolInput(arguments) ==
    IF Wrapped(arguments) THEN SubSeq(arguments, 2, Len(arguments) - 1) ELSE arguments

\* The content a client is shown for a call of the given kind.
callBody(kind, arguments) ==
    IF kind = "custom_tool_call" THEN customToolInput(arguments) ELSE arguments
=============================================================================
