--------------------------- MODULE ModelProtocols ---------------------------
(* Which protocol a model speaks upstream: the lookups of                    *)
(* internal/provider/protocols.go over the map the gateway keeps.            *)
EXTENDS Naturals

CONSTANTS Bases,     \* model names without the "-free" suffix
          Protocols, \* "chat", "responses", "messages"
          Chat,      \* protocol.Chat, what an unknown model is taken to speak
          Unlisted   \* the zero Protocol: no entry in the map

ASSUME ProtocolsAssumption == Chat \in Protocols /\ Unlisted \notin Protocols

\* Every base name can be listed as a free and as a paid model.
Models == Bases \X {"free", "paid"}

ProtocolMap == [Models -> Protocols \cup {Unlisted}]

\* The names a request for base is looked up by, in order.  A name that
\* already ends in -free leads to the same two.
modelLookupKeys(base) == <<<<base, "free">>, <<base, "paid">>>>

lookupProtocol(protocols, keys) ==
    IF protocols[keys[1]] # Unlisted THEN protocols[keys[1]] ELSE protocols[keys[2]]

\* Fault: the zero Protocol is handed on for an unknown model.
protocolOfUnchecked(protocols, base) == lookupProtocol(protocols, modelLookupKeys(base))

\* The answer of ProtocolForModel once it has a map to look into.
protocolOf(protocols, base) ==
    LET result == lookupProtocol(protocols, modelLookupKeys(base))
    IN IF result = Unlisted THEN Chat ELSE result

\* One map laid over another: a catalog that does not list a model leaves
\* the old entry in place.
overlay(discovered, protocols) ==
    [m \in Models |-> IF discovered[m] = Unlisted THEN protocols[m] ELSE discovered[m]]
=============================================================================
