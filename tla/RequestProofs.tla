---------------------------- MODULE RequestProofs ----------------------------
(* What becomes of a request on its way upstream, for any tools, models and  *)
(* inputs.                                                                   *)
EXTENDS RequestTranslation, RequestPreparation, Integers, FiniteSetTheorems, FunctionTheorems,
        SequenceTheorems, TLAPS

-----------------------------------------------------------------------------
(* Subsequences.                                                             *)

\* A later place has a higher rank.
LEMMA RanksIncrease ==
    ASSUME NEW n \in Nat, NEW places, places \subseteq 1..n,
           NEW p \in places, NEW q \in places, p < q
    PROVE  rank(p, places) < rank(q, places)
  <1> DEFINE upto(x) == {other \in places : other <= x}
  <1>0. \A x \in places : x \in Nat
    OBVIOUS
  <1>1. IsFiniteSet(upto(q))
    <2>1. IsFiniteSet(1..n)
      BY FS_Interval
    <2>2. upto(q) \subseteq 1..n
      OBVIOUS
    <2> QED
      BY <2>1, <2>2, FS_Subset
  <1>2. upto(p) \subseteq upto(q) /\ upto(p) # upto(q)
    <2>1. q \in upto(q) /\ q \notin upto(p)
      BY <1>0
    <2>2. \A x \in places : x <= p => x <= q
      <3> TAKE x \in places
      <3>1. x \in Nat /\ p \in Nat /\ q \in Nat
        BY <1>0
      <3> QED
        BY <3>1
    <2> QED
      BY <2>1, <2>2
  <1>3. /\ Cardinality(upto(p)) <= Cardinality(upto(q))
        /\ Cardinality(upto(p)) # Cardinality(upto(q))
    <2> HIDE DEF upto
    <2> QED
      BY <1>1, <1>2, FS_Subset
  <1>4. Cardinality(upto(p)) \in Nat /\ Cardinality(upto(q)) \in Nat
    <2> HIDE DEF upto
    <2> QED
      BY <1>1, <1>2, FS_Subset, FS_CardinalityType
  <1> QED
    BY <1>3, <1>4 DEF rank

\* Ranks count the places, from one on.
LEMMA RanksCount ==
    ASSUME NEW n \in Nat, NEW places, places \subseteq 1..n
    PROVE  /\ Cardinality(places) \in Nat
           /\ \A p \in places : rank(p, places) \in 1..Cardinality(places)
           /\ \A k \in 1..Cardinality(places) : \E p \in places : rank(p, places) = k
  <1> DEFINE m == Cardinality(places)
             rankOf == [p \in places |-> rank(p, places)]
             ranks == {rank(p, places) : p \in places}
  <1>1. IsFiniteSet(places) /\ m \in Nat
    <2>1. IsFiniteSet(1..n)
      BY FS_Interval
    <2>2. IsFiniteSet(places)
      BY <2>1, FS_Subset
    <2> QED
      BY <2>2, FS_CardinalityType
  <1>2. ASSUME NEW p \in places
        PROVE  rank(p, places) \in 1..m
    <2> DEFINE upto == {other \in places : other <= p}
    <2>1. p \in upto /\ upto \subseteq places
      OBVIOUS
    <2>2. Cardinality(upto) <= m /\ IsFiniteSet(upto)
      BY <1>1, <2>1, FS_Subset
    <2>3. Cardinality(upto) \in Nat /\ Cardinality(upto) # 0
      <3> HIDE DEF upto
      <3> QED
        BY <2>1, <2>2, FS_CardinalityType, FS_EmptySet
    <2> QED
      BY <1>1, <2>2, <2>3 DEF rank
  <1>3. ranks = 1..m
    <2>1. ranks \subseteq 1..m
      BY <1>2
    <2>2. rankOf \in Injection(places, ranks)
      <3>1. rankOf \in [places -> ranks]
        OBVIOUS
      <3>2. ASSUME NEW p \in places, NEW q \in places, rankOf[p] = rankOf[q]
            PROVE  p = q
        <4>1. rank(p, places) = rank(q, places)
          BY <3>2
        <4>2. p \in Nat /\ q \in Nat
          OBVIOUS
        <4>3. rank(p, places) \in Nat
          BY <1>2
        <4>4. CASE p < q
          <5>1. rank(p, places) < rank(q, places)
            BY <4>4, RanksIncrease
          <5> QED
            BY <4>1, <4>3, <5>1
        <4>5. CASE q < p
          <5>1. rank(q, places) < rank(p, places)
            BY <4>5, RanksIncrease
          <5> QED
            BY <4>1, <4>3, <5>1
        <4> QED
          BY <4>2, <4>4, <4>5
      <3> QED
        BY <3>1, <3>2 DEF Injection, IsInjective
    <2>3. IsFiniteSet(1..m) /\ Cardinality(1..m) = m
      BY <1>1, FS_Interval
    <2>4. IsFiniteSet(ranks) /\ Cardinality(ranks) <= m
      BY <2>1, <2>3, FS_Subset
    <2>5. m <= Cardinality(ranks)
      BY <2>2, <2>4, FS_Injection
    <2>6. Cardinality(ranks) = Cardinality(1..m)
      BY <1>1, <2>3, <2>4, <2>5, FS_CardinalityType
    <2> HIDE DEF ranks
    <2> QED
      BY <2>1, <2>3, <2>6, FS_Subset
  <1> QED
    BY <1>1, <1>2, <1>3

\* at lists the places in their order, each once.
enumerates(at, m, places) ==
    /\ m \in Nat /\ at \in [1..m -> places]
    /\ \A j, k \in 1..m : j < k => at[j] < at[k]
    /\ \A p \in places : \E k \in 1..m : at[k] = p

\* The elements at the places listed.
through(s, at, m) == [k \in 1..m |-> s[at[k]]]

\* A subsequence has the elements at its places, in their order and each once.
LEMMA SubsequenceAt ==
    ASSUME NEW s, NEW n \in Nat, NEW places, places \subseteq 1..n
    PROVE  \E m, at : enumerates(at, m, places) /\ subsequence(s, places) = through(s, at, m)
  <1> DEFINE m == Cardinality(places)
             at == [k \in 1..m |-> CHOOSE place \in places : rank(place, places) = k]
  <1>1. /\ m \in Nat
        /\ \A p \in places : rank(p, places) \in 1..m
        /\ \A k \in 1..m : \E p \in places : rank(p, places) = k
    BY RanksCount
  <1> HIDE DEF m
  <1>2. \A k \in 1..m : at[k] \in places /\ rank(at[k], places) = k
    BY <1>1
  <1>3. at \in [1..m -> places]
    BY <1>2
  <1>4. subsequence(s, places) = through(s, at, m)
    BY DEF subsequence, through, m
  <1> HIDE DEF at
  <1>5. ASSUME NEW p \in places, NEW q \in places, rank(p, places) = rank(q, places)
        PROVE  p = q
    <2>1. rank(p, places) \in Nat
      BY <1>1
    <2>2. p \in Nat /\ q \in Nat
      OBVIOUS
    <2>3. p < q => rank(p, places) < rank(q, places)
      BY RanksIncrease
    <2>4. q < p => rank(q, places) < rank(p, places)
      BY RanksIncrease
    <2> QED
      BY <1>5, <2>1, <2>2, <2>3, <2>4
  <1>6. ASSUME NEW j \in 1..m, NEW k \in 1..m, j < k
        PROVE  at[j] < at[k]
    <2>1. at[j] \in places /\ at[k] \in places /\ rank(at[j], places) = j /\ rank(at[k], places) = k
      BY <1>2
    <2>2. at[k] < at[j] => rank(at[k], places) < rank(at[j], places)
      BY <2>1, RanksIncrease
    <2>3. at[j] # at[k] /\ ~(k < j)
      BY <1>1, <1>6, <2>1
    <2>4. \A p \in places : p \in Nat
      OBVIOUS
    <2>5. at[j] \in Nat /\ at[k] \in Nat
      BY <2>1, <2>4
    <2> QED
      BY <2>1, <2>2, <2>3, <2>5
  <1>7. \A p \in places : \E k \in 1..m : at[k] = p
    <2> TAKE p \in places
    <2>1. rank(p, places) \in 1..m
      BY <1>1
    <2>2. at[rank(p, places)] = p
      BY <1>2, <1>5, <2>1
    <2> QED
      BY <2>1, <2>2
  <1> QED
    <2>1. enumerates(at, m, places)
      BY <1>1, <1>3, <1>6, <1>7 DEF enumerates
    <2> QED
      BY <1>4, <2>1

-----------------------------------------------------------------------------
(* Preparation: what the translations make of each field.                    *)

\* Strings, those the translations write among them.
Words == STRING \cup {"function", "-free", "", "absent", "auto", "required", "any", "tool"}
Schemas == {"absent", "own", "input", "opencode"}
AnyTool == [type : Words, name : Words, schema : Schemas]
AnyBody == [endpoint : {"chat", "responses"}, model : Seq(Words),
            stream : {"absent", "true", "false", "text"},
            maxTokens : {"absent", "positive", "negative", "text"}, includeUsage : BOOLEAN,
            tools : Seq(AnyTool), choice : [kind : Words, name : Words],
            malformed : BOOLEAN]

\* The fields of a request.
LEMMA RequestTypes ==
    ASSUME NEW r \in Requests
    PROVE  /\ r \in AnyBody /\ r.tools \in Seq(ClientTools) /\ r.model \in Seq(Words)
           /\ r.choice \in [kind : Words, name : Words] /\ r.malformed \in BOOLEAN
           /\ r.endpoint \in {"chat", "responses"}
  <1>1. r \in [endpoint : {"chat", "responses"}, model : Seq(STRING),
               stream : {"absent", "true", "false", "text"},
               maxTokens : {"absent", "positive", "negative", "text"}, includeUsage : BOOLEAN,
               tools : Seq(ClientTools), choice : [kind : STRING, name : STRING],
               malformed : BOOLEAN]
    BY RequestAssumption
  <1>2. Seq(ClientTools) \subseteq Seq(AnyTool) /\ Seq(STRING) \subseteq Seq(Words)
    <2>1. ClientTools \subseteq AnyTool /\ STRING \subseteq Words
      BY DEF ClientTools, AnyTool, Schemas, Words
    <2> HIDE DEF ClientTools, AnyTool, Words
    <2> QED
      BY <2>1, SeqMonotonic
  <1>3. [kind : STRING, name : STRING] \subseteq [kind : Words, name : Words]
    BY DEF Words
  <1> HIDE DEF AnyTool, Words
  <1> QED
    BY <1>1, <1>2, <1>3 DEF AnyBody

\* A name without its space is a name.
LEMMA TrimmedType ==
    ASSUME NEW model \in Seq(Words)
    PROVE  trimmed(model) \in Seq(Words)
  <1>1. ASSUME model # <<>>
        PROVE  Front(model) \in Seq(Words)
    <2>1. Len(model) \in Nat /\ \A k \in 1..Len(model) - 1 : model[k] \in Words
      OBVIOUS
    <2> QED
      BY <2>1, SubSeqProperties DEF Front
  <1> QED
    BY <1>1 DEF trimmed

\* What a tool is offered as.
offered(tool) == [type |-> "function", name |-> tool.name, schema |-> schemaOf(tool)]

\* A translated list of tools: a function for every tool that can be, in order.
LEMMA ToolsTranslated ==
    ASSUME NEW tools \in Seq(ClientTools)
    PROVE  /\ responsesToolsToChat(tools) \in Seq(AnyTool)
           /\ \E m, at :
                /\ enumerates(at, m, {k \in DOMAIN tools : translatable(tools[k])})
                /\ DOMAIN responsesToolsToChat(tools) = 1..m
                /\ Len(responsesToolsToChat(tools)) = m
                /\ \A k \in 1..m : responsesToolsToChat(tools)[k] = offered(tools[at[k]])
  <1> DEFINE places == {k \in DOMAIN tools : translatable(tools[k])}
             out == responsesToolsToChat(tools)
  <1>1. places \subseteq 1..Len(tools) /\ Len(tools) \in Nat /\ DOMAIN tools = 1..Len(tools)
    OBVIOUS
  <1>2. \A p \in places : offered(tools[p]) \in AnyTool
    <2> TAKE p \in places
    <2>1. tools[p] \in ClientTools
      OBVIOUS
    <2>2. tools[p].name \in Words /\ schemaOf(tools[p]) \in Schemas /\ "function" \in Words
      BY <2>1 DEF ClientTools, schemaOf, Schemas, Words
    <2> QED
      BY <2>2 DEF AnyTool, offered
  <1>3. out = [k \in DOMAIN subsequence(tools, places) |-> offered(subsequence(tools, places)[k])]
    BY DEF responsesToolsToChat, offered
  <1> HIDE DEF places, out
  <1>4. PICK m, at : enumerates(at, m, places) /\ subsequence(tools, places) = through(tools, at, m)
    BY <1>1, SubsequenceAt
  <1>5. out = [k \in 1..m |-> offered(tools[at[k]])]
    BY <1>3, <1>4 DEF through
  <1>6. m \in Nat /\ \A k \in 1..m : offered(tools[at[k]]) \in AnyTool
    BY <1>2, <1>4 DEF enumerates
  <1>7. out \in Seq(AnyTool) /\ DOMAIN out = 1..m /\ Len(out) = m
    BY <1>5, <1>6
  <1>8. \A k \in 1..m : out[k] = offered(tools[at[k]])
    BY <1>5
  <1> QED
    BY <1>4, <1>7, <1>8 DEF places, out

\* The names of a list of tools, as the compatibility layer reads them, the
\* core tools that are not among them, and what it makes of a tool.
namesRead(tools) == {openCodeRequestToolName(tools[k]) : k \in DOMAIN tools}
absentCore(tools) == {c \in DOMAIN CoreTools : CoreTools[c] \notin namesRead(tools)}
defined(tool) == IF isCore(openCodeRequestToolName(tool)) THEN openCodeTool(tool.name) ELSE tool

\* An OpenCode tool.
LEMMA OpenCodeToolType ==
    ASSUME NEW name \in Words
    PROVE  /\ openCodeTool(name) \in AnyTool /\ openCodeTool(name).name = name
           /\ openCodeTool(name).schema = "opencode"
           /\ openCodeRequestToolName(openCodeTool(name)) = name
  <1>1. openCodeTool(name) = [type |-> "function", name |-> name, schema |-> "opencode"]
    BY DEF openCodeTool
  <1>2. "function" \in Words /\ "opencode" \in Schemas
    BY DEF Words, Schemas
  <1> HIDE DEF Words, Schemas
  <1> QED
    BY <1>1, <1>2 DEF AnyTool, openCodeRequestToolName, toolType

\* The names of the core tools.
LEMMA CoreNames ==
    /\ DOMAIN CoreTools = 1..Len(CoreTools) /\ Len(CoreTools) \in Nat
    /\ \A c \in DOMAIN CoreTools : /\ CoreTools[c] \in Words /\ CoreTools[c] # ""
                                   /\ isCore(CoreTools[c])
  <1>1. CoreTools \in Seq(STRING \ {""})
    BY RequestAssumption
  <1> DEFINE Named == STRING \ {""}
  <1>2. \A name \in Named : name \in Words /\ name # ""
    BY DEF Words
  <1>3. CoreTools \in Seq(Named)
    BY <1>1
  <1> HIDE DEF Named
  <1>4. /\ DOMAIN CoreTools = 1..Len(CoreTools) /\ Len(CoreTools) \in Nat
        /\ \A c \in DOMAIN CoreTools : CoreTools[c] \in Named
    BY <1>3
  <1>5. \A c \in DOMAIN CoreTools : isCore(CoreTools[c])
    BY DEF isCore
  <1> QED
    BY <1>2, <1>4, <1>5

\* The prepared list: the client's tools, redefined where they have a core
\* name, then the core tools that are not among them.
LEMMA ToolsPrepared ==
    ASSUME NEW tools \in Seq(AnyTool)
    PROVE  /\ openCodeTools(tools) \in Seq(AnyTool)
           /\ \E m, at :
                /\ enumerates(at, m, absentCore(tools))
                /\ Len(openCodeTools(tools)) = Len(tools) + m
                /\ \A k \in 1..Len(tools) : openCodeTools(tools)[k] = defined(tools[k])
                /\ \A k \in 1..m :
                      openCodeTools(tools)[Len(tools) + k] = openCodeTool(CoreTools[at[k]])
                /\ absentCore(tools) = {} => m = 0
  <1> DEFINE n == Len(tools)
             places == absentCore(tools)
             missing == subsequence(CoreTools, places)
             front == [k \in DOMAIN tools |-> defined(tools[k])]
             back == [k \in DOMAIN missing |-> openCodeTool(missing[k])]
  <1>1. openCodeTools(tools) = front \o back
    BY DEF openCodeTools, defined, absentCore, namesRead
  <1>2. places \subseteq 1..Len(CoreTools) /\ Len(CoreTools) \in Nat
    BY CoreNames DEF absentCore
  <1>3. DOMAIN tools = 1..n /\ n \in Nat /\ \A k \in 1..n : tools[k] \in AnyTool
    OBVIOUS
  <1> HIDE DEF places, n
  <1>4. PICK m, at : enumerates(at, m, places) /\ missing = through(CoreTools, at, m)
    BY <1>2, SubsequenceAt
  <1>5. /\ m \in Nat /\ DOMAIN missing = 1..m
        /\ \A k \in 1..m : at[k] \in DOMAIN CoreTools /\ missing[k] = CoreTools[at[k]]
    BY <1>2, <1>4, CoreNames DEF enumerates, through
  <1>6. /\ \A k \in 1..n : defined(tools[k]) \in AnyTool
        /\ \A k \in 1..m : openCodeTool(missing[k]) \in AnyTool
    <2>1. \A tool \in AnyTool : tool.name \in Words
      BY DEF AnyTool
    <2> QED
      BY <1>3, <1>5, <2>1, CoreNames, OpenCodeToolType DEF defined
  <1>7. front \in Seq(AnyTool) /\ Len(front) = n /\ \A k \in 1..n : front[k] = defined(tools[k])
    BY <1>3, <1>6
  <1>8. /\ back \in Seq(AnyTool) /\ Len(back) = m
        /\ \A k \in 1..m : back[k] = openCodeTool(CoreTools[at[k]])
    BY <1>5, <1>6
  <1> HIDE DEF front, back
  <1>9. /\ front \o back \in Seq(AnyTool) /\ Len(front \o back) = n + m
        /\ \A k \in 1..n + m : (front \o back)[k] = IF k <= n THEN front[k] ELSE back[k - n]
    BY <1>7, <1>8, ConcatProperties
  <1>10. \A k \in 1..n : (front \o back)[k] = defined(tools[k])
    BY <1>3, <1>5, <1>7, <1>9
  <1>11. \A k \in 1..m : (front \o back)[n + k] = openCodeTool(CoreTools[at[k]])
    <2> TAKE k \in 1..m
    <2>1. n + k \in 1..n + m /\ ~(n + k <= n) /\ n + k - n = k
      BY <1>3, <1>5
    <2>2. (front \o back)[n + k] = back[k]
      <3> DEFINE all == front \o back
      <3>1. \A l \in 1..n + m : all[l] = IF l <= n THEN front[l] ELSE back[l - n]
        BY <1>9
      <3>2. PICK l : l = n + k
        OBVIOUS
      <3>3. l \in 1..n + m /\ ~(l <= n) /\ l - n = k
        BY <1>3, <1>5, <3>2
      <3> HIDE DEF all
      <3>4. all[l] = back[k]
        BY <3>1, <3>3
      <3> QED
        BY <3>2, <3>4 DEF all
    <2> QED
      BY <1>8, <2>2
  <1>12. places = {} => m = 0
    <2> SUFFICES ASSUME places = {}, m # 0 PROVE FALSE
      OBVIOUS
    <2>1. 1 \in 1..m
      BY <1>5
    <2>2. at[1] \in places
      BY <1>4, <2>1 DEF enumerates
    <2> QED
      BY <2>2
  <1> QED
    BY <1>1, <1>4, <1>9, <1>10, <1>11, <1>12 DEF places, n

\* OpenCode's definition keeps the name a tool is read by, and a tool that has
\* it keeps it.
LEMMA DefinedOnce ==
    ASSUME NEW tool \in AnyTool
    PROVE  /\ defined(tool) \in AnyTool /\ defined(tool).name = tool.name
           /\ openCodeRequestToolName(tool) \in {"", tool.name}
           /\ openCodeRequestToolName(defined(tool)) = openCodeRequestToolName(tool)
           /\ defined(defined(tool)) = defined(tool)
           /\ isCore(openCodeRequestToolName(tool)) => defined(tool).schema = "opencode"
           /\ ~isCore(openCodeRequestToolName(tool)) => defined(tool) = tool
  <1> DEFINE name == tool.name
             read == openCodeRequestToolName(tool)
  <1>1. name \in Words
    BY DEF AnyTool
  <1>2. read \in {"", name}
    BY DEF openCodeRequestToolName
  <1>3. ~isCore("")
    BY CoreNames DEF isCore
  <1>4. CASE isCore(read)
    <2>1. read = name
      BY <1>2, <1>3, <1>4
    <2>2. defined(tool) = openCodeTool(name)
      BY <1>4 DEF defined
    <2>3. openCodeRequestToolName(openCodeTool(name)) = name /\ openCodeTool(name).name = name
      BY <1>1, OpenCodeToolType
    <2>4. defined(openCodeTool(name)) = openCodeTool(name)
      BY <1>4, <2>1, <2>3 DEF defined
    <2> HIDE DEF name, read
    <2>5. openCodeTool(name) \in AnyTool /\ openCodeTool(name).schema = "opencode"
      BY <1>1, OpenCodeToolType
    <2> QED
      BY <1>2, <1>4, <2>1, <2>2, <2>3, <2>4, <2>5 DEF name, read
  <1>5. CASE ~isCore(read)
    <2>1. defined(tool) = tool
      BY <1>5 DEF defined
    <2> QED
      BY <1>2, <1>5, <2>1
  <1> QED
    BY <1>4, <1>5

\* Every core tool is among the prepared tools.
LEMMA CoreToolsThere ==
    ASSUME NEW tools \in Seq(AnyTool), NEW c \in DOMAIN CoreTools
    PROVE  \E k \in DOMAIN openCodeTools(tools) :
              openCodeRequestToolName(openCodeTools(tools)[k]) = CoreTools[c]
  <1> DEFINE out == openCodeTools(tools)
             n == Len(tools)
             wanted(k) == openCodeRequestToolName(out[k]) = CoreTools[c]
  <1>1. PICK m, at :
           /\ enumerates(at, m, absentCore(tools)) /\ Len(out) = n + m
           /\ \A k \in 1..n : out[k] = defined(tools[k])
           /\ \A k \in 1..m : out[n + k] = openCodeTool(CoreTools[at[k]])
    BY ToolsPrepared
  <1>2. out \in Seq(AnyTool)
    BY ToolsPrepared
  <1>3. n \in Nat /\ m \in Nat
    BY <1>1 DEF enumerates
  <1>4. DOMAIN out = 1..n + m
    BY <1>1, <1>2
  <1>5. CASE c \in absentCore(tools)
    <2>1. PICK k \in 1..m : at[k] = c
      BY <1>1, <1>5 DEF enumerates
    <2>2. out[n + k] = openCodeTool(CoreTools[c])
      BY <1>1, <2>1
    <2>3. openCodeRequestToolName(openCodeTool(CoreTools[c])) = CoreTools[c]
      BY CoreNames, OpenCodeToolType
    <2>4. n + k \in 1..n + m
      BY <1>3
    <2>5. wanted(n + k)
      BY <2>2, <2>3
    <2> HIDE DEF wanted
    <2>6. \E l \in DOMAIN out : wanted(l)
      BY <1>4, <2>4, <2>5
    <2> QED
      BY <2>6 DEF wanted
  <1>6. CASE c \notin absentCore(tools)
    <2>1. PICK k \in DOMAIN tools : openCodeRequestToolName(tools[k]) = CoreTools[c]
      BY <1>6 DEF absentCore, namesRead
    <2>2. k \in 1..n /\ tools[k] \in AnyTool
      OBVIOUS
    <2>3. openCodeRequestToolName(defined(tools[k])) = CoreTools[c]
      BY <2>1, <2>2, DefinedOnce
    <2>4. out[k] = defined(tools[k])
      BY <1>1, <2>2
    <2>5. k \in 1..n + m
      BY <1>3, <2>2
    <2> QED
      BY <1>4, <2>3, <2>4, <2>5
  <1> QED
    BY <1>5, <1>6

\* Tools that have been prepared are left as they are.
LEMMA PreparedOnce ==
    ASSUME NEW tools \in Seq(AnyTool)
    PROVE  openCodeTools(openCodeTools(tools)) = openCodeTools(tools)
  <1> DEFINE once == openCodeTools(tools)
             again == openCodeTools(once)
             n == Len(tools)
  <1>1. once \in Seq(AnyTool)
    BY ToolsPrepared
  <1>2. absentCore(once) = {}
    BY CoreToolsThere DEF absentCore, namesRead
  <1>3. PICK m, at :
           /\ enumerates(at, m, absentCore(tools)) /\ Len(once) = n + m
           /\ \A k \in 1..n : once[k] = defined(tools[k])
           /\ \A k \in 1..m : once[n + k] = openCodeTool(CoreTools[at[k]])
    BY ToolsPrepared
  <1>4. m \in Nat /\ n \in Nat /\ \A k \in 1..m : at[k] \in DOMAIN CoreTools
    <2>1. absentCore(tools) \subseteq DOMAIN CoreTools
      BY DEF absentCore
    <2> QED
      BY <1>3, <2>1 DEF enumerates
  <1> HIDE DEF once
  <1>5. again \in Seq(AnyTool)
    BY <1>1, ToolsPrepared
  <1>6. PICK l, there :
           /\ Len(again) = Len(once) + l
           /\ \A k \in 1..Len(once) : again[k] = defined(once[k])
           /\ absentCore(once) = {} => l = 0
    BY <1>1, ToolsPrepared
  <1>7. Len(again) = Len(once) /\ Len(once) \in Nat
    BY <1>1, <1>2, <1>6
  <1>8. ASSUME NEW k \in 1..Len(once)
        PROVE  defined(once[k]) = once[k]
    <2>1. CASE k <= n
      <3>1. k \in 1..n
        BY <1>4, <1>7, <2>1
      <3>2. tools[k] \in AnyTool /\ once[k] = defined(tools[k])
        BY <1>3, <3>1
      <3> QED
        BY <3>2, DefinedOnce
    <2>2. CASE ~(k <= n)
      <3>1. PICK j : j = k - n
        OBVIOUS
      <3>2. j \in 1..m /\ n + j = k
        BY <1>3, <1>4, <2>2, <3>1
      <3>3. once[k] = openCodeTool(CoreTools[at[j]])
        BY <1>3, <3>2
      <3>4. CoreTools[at[j]] \in Words
        BY <1>4, <3>2, CoreNames
      <3>5. /\ openCodeRequestToolName(once[k]) = CoreTools[at[j]]
            /\ once[k].name = CoreTools[at[j]]
        BY <3>3, <3>4, OpenCodeToolType
      <3> QED
        BY <3>3, <3>5 DEF defined
    <2> QED
      BY <2>1, <2>2
  <1>9. \A k \in 1..Len(once) : again[k] = once[k]
    BY <1>6, <1>8
  <1> HIDE DEF again
  <1>10. again = once
    BY <1>1, <1>5, <1>7, <1>9, SeqEqual
  <1> QED
    BY <1>10 DEF again, once

-----------------------------------------------------------------------------
(* Preparation: what is sent of a request.                                   *)

\* The body Translate makes of the request, and the one AddSuffix makes of that.
translatedBody == CASE translated /\ target = "chat"      -> ResponsesToChat(request)
                    [] translated /\ target = "anthropic" -> ResponsesToAnthropic(request)
                    [] OTHER                              -> request
freeBody == [translatedBody EXCEPT !.model = ensureFreeModel(@)]

\* The body is what the stages passed make of the request, and a stage past the
\* first has a valid one.
PrepInv ==
    /\ request \in Requests /\ target \in Targets
    /\ request.endpoint = "chat" => target = "chat"
    /\ stage \in {"received", "refused", "translated", "free", "failed", "sent"}
    /\ stage \in {"received", "refused"} => body = request
    /\ stage = "refused" => ~valid
    /\ stage \in {"translated", "free", "failed", "sent"} => valid
    /\ stage = "translated" => body = translatedBody
    /\ stage \in {"free", "failed"} => body = freeBody
    /\ stage = "failed" => freeBody.malformed
    /\ stage = "sent" => ~freeBody.malformed /\ body = prepared(freeBody)

\* The preparation of a request keeps to its stages.
THEOREM PreparationInvariant == Spec => []PrepInv
  <1>1. Init => PrepInv
    BY DEF Init, PrepInv, Targets
  <1>2. PrepInv /\ [Next]_vars => PrepInv'
    <2> SUFFICES ASSUME PrepInv, [Next]_vars PROVE PrepInv'
      OBVIOUS
    <2>1. ASSUME UNCHANGED <<request, target>>
          PROVE  /\ translatedBody' = translatedBody /\ freeBody' = freeBody /\ valid' = valid
                 /\ prepared(freeBody)' = prepared(freeBody)
      BY <2>1 DEF translatedBody, freeBody, valid, translated, prepared, preparedLimit,
                  openCodeTools, openCodeRequestToolName
    <2>2. CASE Refuse
      BY <2>1, <2>2 DEF Refuse, PrepInv
    <2>3. CASE Translate
      BY <2>1, <2>3 DEF Translate, PrepInv, translatedBody
    <2>4. CASE AddSuffix
      <3>1. body = translatedBody
        BY <2>4 DEF AddSuffix, PrepInv
      <3>2. body' = freeBody
        BY <2>4, <3>1 DEF AddSuffix, freeBody
      <3> QED
        BY <2>1, <2>4, <3>2 DEF AddSuffix, PrepInv
    <2>5. CASE Prepare
      <3>1. body = freeBody
        BY <2>5 DEF Prepare, PrepInv
      <3> QED
        BY <2>1, <2>5, <3>1 DEF Prepare, PrepInv
    <2>6. CASE Finished \/ UNCHANGED vars
      BY <2>1, <2>6 DEF Finished, PrepInv, vars
    <2> QED
      BY <2>2, <2>3, <2>4, <2>5, <2>6 DEF Next
  <1> QED
    BY <1>1, <1>2, PTL DEF Spec

\* The tools the translation leaves of a request.
myTools == IF ~translated THEN request.tools
           ELSE IF request.malformed \/ withoutTools THEN <<>>
                ELSE responsesToolsToChat(request.tools)

\* The fields of the body a request is translated to.
LEMMA TranslatedFields ==
    ASSUME PrepInv
    PROVE  /\ translatedBody \in AnyBody
           /\ translatedBody.model = IF translated THEN trimmed(request.model) ELSE request.model
           /\ translatedBody.tools = myTools
           /\ translatedBody.choice =
                 CASE translated /\ target = "chat" -> responsesToolChoiceToChat(request.choice)
                   [] translated /\ target = "anthropic" ->
                         responsesToolChoiceToAnthropic(request.choice)
                   [] OTHER -> request.choice
           /\ translatedBody.malformed <=> request.malformed /\ ~translated
  <1>1. /\ request \in AnyBody /\ request.tools \in Seq(ClientTools)
        /\ request.malformed \in BOOLEAN /\ request.model \in Seq(Words)
        /\ request.choice \in [kind : Words, name : Words]
    BY RequestTypes DEF PrepInv
  <1>2. trimmed(request.model) \in Seq(Words)
    BY <1>1, TrimmedType
  <1>3. responsesToolsToChat(request.tools) \in Seq(AnyTool) /\ <<>> \in Seq(AnyTool)
    BY <1>1, ToolsTranslated
  <1>4. /\ responsesToolChoiceToChat(request.choice) \in [kind : Words, name : Words]
        /\ responsesToolChoiceToAnthropic(request.choice) \in [kind : Words, name : Words]
    BY <1>1 DEF responsesToolChoiceToChat, responsesToolChoiceToAnthropic, NoChoice, Words
  <1>5. translated => target \in {"chat", "anthropic"}
    BY DEF PrepInv, Targets, translated
  <1>6. CASE ~translated
    BY <1>1, <1>6 DEF translatedBody, myTools
  <1>7. CASE translated /\ target = "chat"
    <2>1. translatedBody = ResponsesToChat(request) /\ ~withoutTools
      BY <1>7 DEF translatedBody, withoutTools
    <2> HIDE DEF Words
    <2> QED
      BY <1>1, <1>2, <1>3, <1>4, <1>7, <2>1, ZenonT(30)
         DEF ResponsesToChat, AnyBody, myTools, streamOf
  <1>8. CASE translated /\ target = "anthropic"
    <2>1. /\ translatedBody = ResponsesToAnthropic(request)
          /\ withoutTools = isChatNoneToolChoice(request.choice)
      BY <1>8 DEF translatedBody, withoutTools, isChatNoneToolChoice
    <2> HIDE DEF Words
    <2> QED
      BY <1>1, <1>2, <1>3, <1>4, <1>8, <2>1, ZenonT(30)
         DEF ResponsesToAnthropic, AnyBody, myTools, streamOf, responsesToolsToAnthropic
  <1> QED
    BY <1>5, <1>6, <1>7, <1>8

\* A model with the suffix ends with it, and is left as it is.
LEMMA FreeModel ==
    ASSUME NEW model \in Seq(Words), model # <<>>
    PROVE  /\ ensureFreeModel(model) \in Seq(Words) /\ ensureFreeModel(model) # <<>>
           /\ Last(ensureFreeModel(model)) = "-free"
           /\ ensureFreeModel(ensureFreeModel(model)) = ensureFreeModel(model)
  <1>1. "-free" \in Words
    BY DEF Words
  <1> HIDE DEF Words
  <1>2. CASE Last(model) = "-free"
    BY <1>2 DEF ensureFreeModel
  <1>3. CASE Last(model) # "-free"
    <2>1. ensureFreeModel(model) = Append(model, "-free")
      BY <1>3 DEF ensureFreeModel
    <2> DEFINE longer == Append(model, "-free")
    <2>2. longer \in Seq(Words) /\ Len(longer) = Len(model) + 1 /\ Len(model) \in Nat
      BY <1>1
    <2>3. longer # <<>> /\ longer[Len(longer)] = "-free"
      BY <2>2
    <2>4. Last(longer) = "-free"
      BY <2>3 DEF Last
    <2> HIDE DEF longer
    <2>5. ensureFreeModel(longer) = longer
      BY <2>4 DEF ensureFreeModel
    <2> QED
      BY <2>1, <2>2, <2>3, <2>4, <2>5 DEF longer
  <1> QED
    BY <1>2, <1>3

\* Tools left by the translation.
LEMMA MyTools ==
    ASSUME PrepInv
    PROVE  myTools \in Seq(AnyTool) /\ request.tools \in Seq(ClientTools)
  <1>1. translatedBody \in AnyBody /\ translatedBody.tools = myTools
    BY TranslatedFields
  <1> QED
    BY <1>1, RequestTypes DEF AnyBody, PrepInv

\* The fields of the body that is sent.
LEMMA SentFields ==
    ASSUME PrepInv, stage = "sent"
    PROVE  /\ body \in AnyBody /\ prepared(body) = body
           /\ body.stream = "true"
           /\ target = "chat" => body.includeUsage
           /\ target = "anthropic" => body.maxTokens = "positive"
           /\ body.model = ensureFreeModel(translatedBody.model) /\ translatedBody.model # <<>>
           /\ ensureFreeModel(body.model) = body.model
           /\ body.tools = openCodeTools(myTools)
           /\ body.choice = translatedBody.choice
  <1>1. body = prepared(freeBody) /\ translatedBody \in AnyBody /\ valid
    BY TranslatedFields DEF PrepInv
  <1>2. translatedBody.model \in Seq(Words) /\ translatedBody.tools \in Seq(AnyTool)
    BY <1>1 DEF AnyBody
  <1>3. translatedBody.model # <<>>
    <2>1. trimmed(request.model) # <<>> => request.model # <<>>
      BY DEF trimmed
    <2> QED
      BY <1>1, <2>1, TranslatedFields DEF valid
  <1>4. /\ ensureFreeModel(translatedBody.model) \in Seq(Words)
        /\ ensureFreeModel(ensureFreeModel(translatedBody.model))
              = ensureFreeModel(translatedBody.model)
    BY <1>2, <1>3, FreeModel
  <1>5. /\ openCodeTools(translatedBody.tools) \in Seq(AnyTool)
        /\ openCodeTools(openCodeTools(translatedBody.tools)) = openCodeTools(translatedBody.tools)
    BY <1>2, ToolsPrepared, PreparedOnce
  <1> HIDE DEF Words
  <1>6. /\ freeBody \in AnyBody /\ freeBody.model = ensureFreeModel(translatedBody.model)
        /\ freeBody.tools = translatedBody.tools /\ freeBody.choice = translatedBody.choice
        /\ freeBody.malformed = translatedBody.malformed
    BY <1>1, <1>4 DEF freeBody, AnyBody
  <1>7. /\ body \in AnyBody /\ body.stream = "true"
        /\ body.includeUsage = (target = "chat" \/ freeBody.includeUsage)
        /\ body.maxTokens = preparedLimit(freeBody.maxTokens)
        /\ body.model = freeBody.model /\ body.tools = openCodeTools(freeBody.tools)
        /\ body.choice = freeBody.choice
    BY <1>1, <1>5, <1>6 DEF prepared, AnyBody, preparedLimit
  <1>8. prepared(body) = body
    <2>1. openCodeTools(body.tools) = body.tools
      BY <1>5, <1>6, <1>7
    <2>2. preparedLimit(body.maxTokens) = body.maxTokens
      BY <1>7 DEF preparedLimit
    <2>3. (target = "chat" \/ body.includeUsage) = body.includeUsage
      BY <1>6, <1>7 DEF AnyBody
    <2> QED
      BY <1>7, <2>1, <2>2, <2>3 DEF prepared, AnyBody
  <1> QED
    BY <1>3, <1>4, <1>6, <1>7, <1>8, TranslatedFields DEF preparedLimit

\* Only malformed tools that nobody translated make a call fail, and a request
\* that is refused was not touched.
THEOREM PreparationTyped == Spec => []TypeOK
  <1>1. PrepInv => TypeOK
    <2> SUFFICES ASSUME PrepInv PROVE TypeOK
      OBVIOUS
    <2>1. freeBody.malformed <=> request.malformed /\ ~translated
      BY TranslatedFields DEF freeBody, AnyBody
    <2> QED
      BY <2>1 DEF TypeOK, PrepInv
  <1> QED
    BY <1>1, PreparationInvariant, PTL

\* Whatever was asked for, what is sent asks for a stream with what the
\* protocol needs, of the model whose protocol was looked up, and preparing it
\* again changes nothing (zen_compat.go:25, client.go:206).
THEOREM RequirementsMet == Spec => []UpstreamRequirements
  <1>1. PrepInv => UpstreamRequirements
    <2> SUFFICES ASSUME PrepInv, stage = "sent" PROVE UpstreamRequirements
      BY DEF UpstreamRequirements
    <2>1. translatedBody \in AnyBody /\ translatedBody.model \in Seq(Words)
      BY TranslatedFields DEF AnyBody
    <2>2. Last(body.model) = "-free"
      BY <2>1, SentFields, FreeModel
    <2>3. translated \/ trimmed(request.model) = request.model
             => body.model = ensureFreeModel(trimmed(request.model))
      BY SentFields, TranslatedFields
    <2>4. [body EXCEPT !.model = ensureFreeModel(@)] = body
      BY SentFields DEF AnyBody
    <2>5. prepared([body EXCEPT !.model = ensureFreeModel(@)]) = body
      BY <2>4, SentFields
    <2> QED
      BY <2>2, <2>3, <2>5, SentFields DEF UpstreamRequirements
  <1> QED
    BY <1>1, PreparationInvariant, PTL

\* A sequence is its front and its last element.
LEMMA FrontAndLast ==
    ASSUME NEW S, NEW s \in Seq(S), s # <<>>
    PROVE  Front(s) \in Seq(S) /\ Append(Front(s), Last(s)) = s
  <1>1. Len(s) \in Nat /\ Len(s) # 0 /\ \A k \in 1..Len(s) : s[k] \in S
    OBVIOUS
  <1>2. /\ Front(s) \in Seq(S) /\ Len(Front(s)) = Len(s) - 1
        /\ \A k \in 1..Len(s) - 1 : Front(s)[k] = s[k]
    <2>1. Front(s) = [k \in 1..Len(s) - 1 |-> s[k]]
      BY <1>1 DEF Front
    <2>2. Len(s) - 1 \in Nat /\ \A k \in 1..Len(s) - 1 : s[k] \in S
      BY <1>1
    <2> QED
      BY <2>1, <2>2
  <1> DEFINE f == Front(s)
             whole == Append(f, Last(s))
  <1>3. Last(s) \in S /\ Last(s) = s[Len(s)]
    BY <1>1 DEF Last
  <1> HIDE DEF f
  <1>4. f \in Seq(S) /\ Len(f) = Len(s) - 1 /\ \A k \in 1..Len(s) - 1 : f[k] = s[k]
    BY <1>2 DEF f
  <1>5. /\ whole \in Seq(S) /\ Len(whole) = Len(s)
        /\ \A k \in 1..Len(s) : whole[k] = s[k]
    BY <1>1, <1>3, <1>4
  <1>6. whole = s
    BY <1>5, SeqEqual
  <1> QED
    BY <1>2, <1>6 DEF f

\* A model asked for as it was listed is asked for upstream, unless stripping
\* left it with the suffix, padded or with nothing (server.go:158).
THEOREM ListedModelsAskedFor == Spec => []AsListed
  <1>1. PrepInv => AsListed
    <2> SUFFICES ASSUME PrepInv, stage = "sent",
                        NEW strip \in BOOLEAN, NEW id \in DOMAIN filterFreeModels(strip),
                        filterFreeModels(strip)[id] = request.model,
                        strip => Last(request.model) \notin {"-free", " "}
                 PROVE  body.model = id
      BY DEF AsListed
    <2>1. id \in Catalog /\ id # <<>> /\ Last(id) = "-free"
      BY DEF filterFreeModels
    <2>2. id \in Seq(STRING)
      BY <2>1, RequestAssumption
    <2>3. request.model = listedAs(id, strip)
      BY DEF filterFreeModels
    <2>4. trimmed(request.model) = request.model /\ request.model # <<>>
      <3>1. trimmed(request.model) # <<>>
        BY DEF PrepInv, valid
      <3>2. request.model # <<>>
        BY <3>1 DEF trimmed
      <3>3. Last(request.model) # " "
        BY <2>1, <2>3 DEF listedAs
      <3> QED
        BY <3>2, <3>3 DEF trimmed
    <2>5. body.model = ensureFreeModel(request.model)
      BY <2>4, SentFields, TranslatedFields
    <2>6. CASE ~strip
      BY <2>1, <2>3, <2>5, <2>6 DEF listedAs, ensureFreeModel
    <2>7. CASE strip
      <3>1. request.model = Front(id) /\ Last(request.model) # "-free"
        BY <2>3, <2>7 DEF listedAs
      <3>2. body.model = Append(Front(id), "-free")
        BY <2>4, <2>5, <3>1 DEF ensureFreeModel
      <3> QED
        BY <2>1, <2>2, <3>2, FrontAndLast
    <2> QED
      BY <2>6, <2>7
  <1> QED
    BY <1>1, PreparationInvariant, PTL

\* The client's tools in a prepared list, and the core tools added to them.
LEMMA PreparedTools ==
    ASSUME NEW tools \in Seq(AnyTool), NEW out, out = openCodeTools(tools)
    PROVE  /\ out \in Seq(AnyTool) /\ Len(tools) <= Len(out)
           /\ Len(tools) \in Nat /\ Len(out) \in Nat
           /\ \A k \in 1..Len(tools) :
                 /\ tools[k] \in AnyTool /\ out[k] = defined(tools[k])
                 /\ out[k].name = tools[k].name
                 /\ openCodeRequestToolName(out[k]) = openCodeRequestToolName(tools[k])
           /\ \A k \in Len(tools) + 1..Len(out) :
                 /\ isCore(openCodeRequestToolName(out[k])) /\ out[k].schema = "opencode"
                 /\ openCodeRequestToolName(out[k]) \notin namesRead(tools)
           /\ \A k, l \in Len(tools) + 1..Len(out) :
                 k # l => openCodeRequestToolName(out[k]) # openCodeRequestToolName(out[l])
  <1> DEFINE n == Len(tools)
             sent(k) == openCodeRequestToolName(out[k])
  <1>1. out \in Seq(AnyTool)
    BY ToolsPrepared
  <1>2. PICK m, at :
           /\ enumerates(at, m, absentCore(tools)) /\ Len(out) = n + m
           /\ \A k \in 1..n : out[k] = defined(tools[k])
           /\ \A k \in 1..m : out[n + k] = openCodeTool(CoreTools[at[k]])
    BY ToolsPrepared, SMTT(30)
  <1>3. /\ m \in Nat /\ n \in Nat /\ \A k \in 1..n : tools[k] \in AnyTool
        /\ \A k \in 1..m : at[k] \in absentCore(tools)
    BY <1>2 DEF enumerates
  <1>4. \A k \in 1..n : /\ out[k].name = tools[k].name
                        /\ sent(k) = openCodeRequestToolName(tools[k])
    BY <1>2, <1>3, DefinedOnce
  <1> HIDE DEF n, sent
  <1>5. ASSUME NEW k \in n + 1..Len(out)
        PROVE  \E j \in 1..m : /\ n + j = k
                               /\ sent(k) = CoreTools[at[j]] /\ out[k].schema = "opencode"
    <2>1. PICK j : j = k - n
      OBVIOUS
    <2>2. j \in 1..m /\ n + j = k
      <3>1. k \in n + 1..n + m
        BY <1>2
      <3> QED
        BY <1>3, <2>1, <3>1
    <2>3. out[k] = openCodeTool(CoreTools[at[j]])
      BY <1>2, <2>2
    <2>4. CoreTools[at[j]] \in Words
      BY <1>3, <2>2, CoreNames DEF absentCore
    <2>5. sent(k) = CoreTools[at[j]] /\ out[k].schema = "opencode"
      BY <2>3, <2>4, OpenCodeToolType DEF sent
    <2> QED
      BY <2>2, <2>5
  <1>6. ASSUME NEW k \in n + 1..Len(out)
        PROVE  isCore(sent(k)) /\ out[k].schema = "opencode" /\ sent(k) \notin namesRead(tools)
    BY <1>3, <1>5, CoreNames DEF absentCore
  <1>7. ASSUME NEW k \in n + 1..Len(out), NEW l \in n + 1..Len(out), k # l
        PROVE  sent(k) # sent(l)
    <2>1. PICK i \in 1..m : n + i = k /\ sent(k) = CoreTools[at[i]]
      BY <1>5
    <2>2. PICK j \in 1..m : n + j = l /\ sent(l) = CoreTools[at[j]]
      BY <1>5
    <2>3. i # j
      BY <1>7, <2>1, <2>2
    <2>4. at[i] # at[j]
      <3>1. at[i] \in Nat /\ at[j] \in Nat
        <4>1. \A c \in DOMAIN CoreTools : c \in Nat
          <5>1. DOMAIN CoreTools = 1..Len(CoreTools) /\ Len(CoreTools) \in Nat
            BY CoreNames
          <5> QED
            BY <5>1
        <4> QED
          BY <1>3, <4>1 DEF absentCore
      <3>2. i < j \/ j < i
        BY <2>3
      <3>3. at[i] < at[j] \/ at[j] < at[i]
        BY <1>2, <3>2 DEF enumerates
      <3> QED
        BY <3>1, <3>3
    <2>5. CoreTools[at[i]] # CoreTools[at[j]]
      BY <1>3, <2>4, RequestAssumption DEF absentCore
    <2> QED
      BY <2>1, <2>2, <2>5
  <1> QED
    BY <1>1, <1>2, <1>3, <1>4, <1>6, <1>7 DEF n, sent

\* The client's tools that can be passed on.
ownTools == IF ~translated THEN request.tools
            ELSE IF request.malformed \/ withoutTools THEN <<>>
                 ELSE subsequence(request.tools, {k \in DOMAIN request.tools :
                         /\ toolType(request.tools[k]) \in {"function", "custom"}
                         /\ request.tools[k].name # ""})

\* They are the tools the translation leaves, under their names and without
\* OpenCode's schema.
LEMMA OwnTools ==
    ASSUME PrepInv
    PROVE  /\ DOMAIN ownTools = 1..Len(myTools) /\ Len(ownTools) = Len(myTools)
           /\ \A k \in 1..Len(myTools) : /\ myTools[k].name = ownTools[k].name
                                         /\ myTools[k].schema # "opencode"
  <1> DEFINE tools == request.tools
             places == {k \in DOMAIN tools : translatable(tools[k])}
  <1>1. tools \in Seq(ClientTools)
    BY MyTools
  <1>2. CASE ~translated
    <2>1. ownTools = tools /\ myTools = tools
      BY <1>2 DEF ownTools, myTools
    <2>2. \A k \in 1..Len(tools) : tools[k].schema # "opencode"
      <3>1. \A tool \in ClientTools : tool.schema # "opencode"
        BY DEF ClientTools
      <3>2. \A k \in 1..Len(tools) : tools[k] \in ClientTools
        BY <1>1
      <3> QED
        BY <3>1, <3>2
    <2> QED
      BY <1>1, <2>1, <2>2
  <1>3. CASE translated /\ (request.malformed \/ withoutTools)
    <2>1. ownTools = <<>> /\ myTools = <<>>
      BY <1>3 DEF ownTools, myTools
    <2> QED
      BY <2>1
  <1>4. CASE translated /\ ~(request.malformed \/ withoutTools)
    <2>1. ownTools = subsequence(tools, places) /\ myTools = responsesToolsToChat(tools)
      BY <1>4 DEF ownTools, myTools, translatable
    <2>2. places \subseteq 1..Len(tools) /\ Len(tools) \in Nat
      BY <1>1
    <2>3. myTools = [k \in DOMAIN ownTools |-> offered(ownTools[k])]
      BY <2>1 DEF responsesToolsToChat, offered
    <2> HIDE DEF places, tools
    <2>4. PICK m, at : enumerates(at, m, places) /\ ownTools = through(tools, at, m)
      BY <2>1, <2>2, SubsequenceAt
    <2>5. m \in Nat /\ \A k \in 1..m : ownTools[k] \in ClientTools
      <3>1. m \in Nat /\ \A k \in 1..m : at[k] \in 1..Len(tools) /\ ownTools[k] = tools[at[k]]
        BY <2>2, <2>4 DEF enumerates, through
      <3> QED
        BY <1>1, <3>1
    <2>6. ownTools \in Seq(ClientTools) /\ DOMAIN ownTools = 1..m /\ Len(ownTools) = m
      BY <2>4, <2>5 DEF through
    <2>7. myTools \in Seq(AnyTool)
      BY MyTools
    <2>8. DOMAIN myTools = 1..m /\ Len(myTools) = m
      BY <2>3, <2>5, <2>6, <2>7
    <2>9. \A k \in 1..m : myTools[k].name = ownTools[k].name /\ myTools[k].schema # "opencode"
      BY <2>3, <2>5, <2>6 DEF offered, schemaOf, ClientTools
    <2> QED
      BY <2>6, <2>8, <2>9
  <1> QED
    BY <1>2, <1>3, <1>4

\* The client's tools come first and in their order, the core tools are all
\* there, and no name is offered twice that was not declared twice
\* (zen_compat.go:59-82).
THEOREM ClientToolsFirst == Spec => []ToolsOffered
  <1>1. PrepInv => ToolsOffered
    <2> SUFFICES ASSUME PrepInv, stage = "sent"
                 PROVE  /\ Len(ownTools) <= Len(body.tools)
                        /\ \A k \in DOMAIN ownTools : body.tools[k].name = ownTools[k].name
                        /\ \A k \in Len(ownTools) + 1..Len(body.tools) : isCore(sentName(k))
                        /\ \A c \in DOMAIN CoreTools :
                              \E k \in DOMAIN body.tools : sentName(k) = CoreTools[c]
                        /\ \A k \in DOMAIN body.tools :
                              isCore(sentName(k)) <=> body.tools[k].schema = "opencode"
                        /\ distinctNames(ownTools) =>
                              \A k, l \in DOMAIN body.tools :
                                 k # l /\ sentName(k) # "" => sentName(k) # sentName(l)
      BY DEF ToolsOffered, ownTools
    <2> DEFINE n == Len(myTools)
               out == body.tools
    <2>1. myTools \in Seq(AnyTool) /\ out = openCodeTools(myTools)
      BY MyTools, SentFields
    <2>2. /\ out \in Seq(AnyTool) /\ n <= Len(out) /\ n \in Nat /\ Len(out) \in Nat
          /\ \A k \in 1..n : /\ myTools[k] \in AnyTool /\ out[k] = defined(myTools[k])
                             /\ out[k].name = myTools[k].name
                             /\ sentName(k) = openCodeRequestToolName(myTools[k])
          /\ \A k \in n + 1..Len(out) : /\ isCore(sentName(k)) /\ out[k].schema = "opencode"
                                        /\ sentName(k) \notin namesRead(myTools)
          /\ \A k, l \in n + 1..Len(out) : k # l => sentName(k) # sentName(l)
      BY <2>1, PreparedTools DEF sentName
    <2>3. /\ DOMAIN ownTools = 1..n /\ Len(ownTools) = n
          /\ \A k \in 1..n : /\ myTools[k].name = ownTools[k].name
                             /\ myTools[k].schema # "opencode"
      BY OwnTools
    <2>4. \A k \in DOMAIN out : k \in 1..n \/ k \in n + 1..Len(out)
      BY <2>2
    <2>5. \A c \in DOMAIN CoreTools : \E k \in DOMAIN out : sentName(k) = CoreTools[c]
      BY <2>1, CoreToolsThere DEF sentName
    <2>6. DOMAIN myTools = 1..n
      BY <2>1
    <2> HIDE DEF n, out
    <2>7. ASSUME NEW k \in DOMAIN out
          PROVE  isCore(sentName(k)) <=> out[k].schema = "opencode"
      <3>1. CASE k \in 1..n
        <4>1. /\ isCore(sentName(k)) => defined(myTools[k]).schema = "opencode"
              /\ ~isCore(sentName(k)) => defined(myTools[k]) = myTools[k]
          BY <2>2, <3>1, DefinedOnce
        <4> QED
          BY <2>2, <2>3, <3>1, <4>1
      <3>2. CASE k \in n + 1..Len(out)
        BY <2>2, <3>2
      <3> QED
        BY <2>4, <3>1, <3>2
    <2>8. ASSUME distinctNames(ownTools), NEW k \in DOMAIN out, NEW l \in DOMAIN out,
                 k # l, sentName(k) # "", sentName(k) = sentName(l)
          PROVE  FALSE
      <3>1. CASE k \in 1..n /\ l \in 1..n
        <4>1. sentName(k) \in {"", myTools[k].name} /\ sentName(l) \in {"", myTools[l].name}
          BY <2>2, <3>1, DefinedOnce
        <4>2. ownTools[k].name = ownTools[l].name /\ ownTools[k].name # ""
          BY <2>3, <2>8, <3>1, <4>1
        <4> QED
          BY <2>3, <2>8, <3>1, <4>2 DEF distinctNames
      <3>2. CASE k \in 1..n /\ l \in n + 1..Len(out)
        <4>1. sentName(k) \in namesRead(myTools)
          BY <2>2, <2>6, <3>2 DEF namesRead
        <4> QED
          BY <2>2, <2>8, <3>2, <4>1
      <3>3. CASE l \in 1..n /\ k \in n + 1..Len(out)
        <4>1. sentName(l) \in namesRead(myTools)
          BY <2>2, <2>6, <3>3 DEF namesRead
        <4> QED
          BY <2>2, <2>8, <3>3, <4>1
      <3>4. CASE k \in n + 1..Len(out) /\ l \in n + 1..Len(out)
        BY <2>2, <2>8, <3>4
      <3> QED
        BY <2>4, <3>1, <3>2, <3>3, <3>4
    <2> QED
      BY <2>2, <2>3, <2>5, <2>7, <2>8 DEF out
  <1> QED
    BY <1>1, PreparationInvariant, PTL

\* What the choice of a translated request becomes.
LEMMA ChoiceTranslated ==
    ASSUME PrepInv, translated, translatedBody.choice.kind = "tool"
    PROVE  /\ translatedBody.choice.name = request.choice.name /\ request.choice.name # ""
           /\ ~withoutTools
  <1>1. ASSUME NEW choice, responsesToolChoiceToChat(choice).kind = "tool"
        PROVE  responsesToolChoiceToChat(choice).name = choice.name /\ choice.name # ""
    BY <1>1 DEF responsesToolChoiceToChat, NoChoice
  <1>2. ASSUME NEW choice, responsesToolChoiceToAnthropic(choice).kind = "tool"
        PROVE  /\ responsesToolChoiceToAnthropic(choice).name = choice.name /\ choice.name # ""
               /\ choice.kind # "none"
    BY <1>2 DEF responsesToolChoiceToAnthropic, NoChoice
  <1>3. target \in {"chat", "anthropic"}
    BY DEF PrepInv, Targets, translated
  <1>4. CASE target = "chat"
    <2>1. translatedBody.choice = responsesToolChoiceToChat(request.choice)
      BY <1>4, TranslatedFields
    <2> QED
      BY <1>1, <1>4, <2>1 DEF withoutTools
  <1>5. CASE target = "anthropic"
    <2>1. translatedBody.choice = responsesToolChoiceToAnthropic(request.choice)
      BY <1>5, TranslatedFields
    <2> QED
      BY <1>2, <1>5, <2>1 DEF withoutTools
  <1> QED
    BY <1>3, <1>4, <1>5

\* The tools of a translated request: each is offered as its declaration says,
\* read by its name, and all that can be passed on are.
LEMMA TranslatedTools ==
    ASSUME PrepInv, translated, ~request.malformed, ~withoutTools
    PROVE  /\ \A k \in 1..Len(myTools) :
                 \E d \in DOMAIN request.tools :
                    translatable(request.tools[d]) /\ myTools[k] = offered(request.tools[d])
           /\ \A d \in DOMAIN request.tools :
                 translatable(request.tools[d]) =>
                    \E k \in 1..Len(myTools) : myTools[k] = offered(request.tools[d])
  <1> DEFINE tools == request.tools
             places == {k \in DOMAIN tools : translatable(tools[k])}
  <1>1. tools \in Seq(ClientTools) /\ myTools = responsesToolsToChat(tools)
    BY MyTools DEF myTools
  <1> HIDE DEF tools
  <1>2. PICK m, at :
           /\ enumerates(at, m, places)
           /\ DOMAIN responsesToolsToChat(tools) = 1..m
           /\ Len(responsesToolsToChat(tools)) = m
           /\ \A k \in 1..m : responsesToolsToChat(tools)[k] = offered(tools[at[k]])
    BY <1>1, ToolsTranslated
  <1>3. /\ \A k \in 1..m : at[k] \in places
        /\ \A d \in places : \E k \in 1..m : at[k] = d
    BY <1>2 DEF enumerates
  <1>4. \A k \in 1..m : at[k] \in DOMAIN tools /\ translatable(tools[at[k]])
    BY <1>3
  <1>5. \A d \in DOMAIN tools : translatable(tools[d]) => \E k \in 1..m : at[k] = d
    BY <1>3
  <1> HIDE DEF places
  <1> QED
    <2>1. ASSUME NEW k \in 1..Len(myTools)
          PROVE  \E d \in DOMAIN tools : translatable(tools[d]) /\ myTools[k] = offered(tools[d])
      BY <1>1, <1>2, <1>4
    <2>2. ASSUME NEW d \in DOMAIN tools, translatable(tools[d])
          PROVE  \E k \in 1..Len(myTools) : myTools[k] = offered(tools[d])
      BY <1>1, <1>2, <1>5, <2>2
    <2> QED
      BY <2>1, <2>2 DEF tools

\* A choice that names a tool names one that is offered, and a client that wants
\* none called has the upstream told so or offered none of its own
\* (responses_request.go:118, 567, 868, zen_compat.go:73).
THEOREM ChoicesKept == Spec => []ChoiceKept
  <1>1. PrepInv => ChoiceKept
    <2> SUFFICES ASSUME PrepInv, stage = "sent" PROVE ChoiceKept
      BY DEF ChoiceKept
    <2> DEFINE out == body.tools
    <2>1. /\ myTools \in Seq(AnyTool) /\ out = openCodeTools(myTools)
          /\ body.choice = translatedBody.choice
      BY MyTools, SentFields
    <2>2. /\ out \in Seq(AnyTool) /\ DOMAIN out = 1..Len(out)
          /\ Len(myTools) <= Len(out) /\ Len(myTools) \in Nat /\ Len(out) \in Nat
          /\ \A k \in 1..Len(myTools) : sentName(k) = openCodeRequestToolName(myTools[k])
          /\ \A k \in Len(myTools) + 1..Len(out) : out[k].schema = "opencode"
      BY <2>1, PreparedTools DEF sentName
    <2> HIDE DEF out
    <2>3. ASSUME translated, body.choice.kind = "tool", ~request.malformed,
                 NEW d \in DOMAIN request.tools, request.tools[d].name = request.choice.name,
                 toolType(request.tools[d]) \in {"function", "custom"}
          PROVE  \E k \in DOMAIN out : sentName(k) = body.choice.name
      <3>1. /\ body.choice.name = request.choice.name /\ request.choice.name # ""
            /\ ~withoutTools
        BY <2>1, <2>3, ChoiceTranslated
      <3>2. translatable(request.tools[d])
        BY <2>3, <3>1 DEF translatable
      <3>3. PICK k \in 1..Len(myTools) : myTools[k] = offered(request.tools[d])
        BY <2>3, <3>1, <3>2, TranslatedTools
      <3>4. openCodeRequestToolName(offered(request.tools[d])) = request.tools[d].name
        BY DEF offered, openCodeRequestToolName, toolType
      <3>5. k \in DOMAIN out
        BY <2>2
      <3> QED
        BY <2>2, <2>3, <3>1, <3>3, <3>4, <3>5
    <2>4. ASSUME request.choice.kind = "none", body.choice.kind # "none"
          PROVE  /\ translated /\ target = "anthropic"
                 /\ \A k \in DOMAIN out : out[k].schema = "opencode"
      <3>1. translated /\ target = "anthropic"
        BY <2>1, <2>4, TranslatedFields DEF responsesToolChoiceToChat
      <3>2. myTools = <<>>
        BY <2>4, <3>1 DEF myTools, withoutTools
      <3>3. Len(myTools) = 0
        BY <3>2
      <3> QED
        BY <2>2, <3>1, <3>3
    <2> QED
      BY <2>3, <2>4 DEF ChoiceKept, out
  <1> QED
    BY <1>1, PreparationInvariant, PTL

\* The places after one of a list are others of it.
LEMMA LaterPlaces == \A n \in Nat : \A k \in 1..n : \A l \in k + 1..n : l \in 1..n /\ l # k
  OBVIOUS

\* A name declared once is declared as it says there.
LEMMA DeclaredOnce ==
    ASSUME NEW tools \in Seq(ClientTools), distinctNames(tools),
           NEW d \in 1..Len(tools), tools[d].name # ""
    PROVE  declaredType(tools, tools[d].name) = toolType(tools[d])
  <1> DEFINE name == tools[d].name
             n == Len(tools)
             last(k) == tools[k].name = name /\ \A l \in k + 1..n : tools[l].name # name
  <1>1. DOMAIN tools = 1..n /\ n \in Nat
    BY LenProperties
  <1>2. declaredType(tools, name) = toolType(tools[CHOOSE k \in DOMAIN tools : last(k)])
    BY DEF declaredType
  <1>3. \A k \in 1..n : tools[k].name = name => k = d
    BY <1>1 DEF distinctNames
  <1>4. \A k \in 1..n : last(k) => k = d
    BY <1>3
  <1>5. last(d)
    <2> HIDE DEF name, n
    <2>1. n \in Nat /\ d \in 1..n
      BY <1>1 DEF n
    <2>2. \A l \in d + 1..n : l \in 1..n /\ l # d
      BY <2>1, LaterPlaces, Zenon
    <2> QED
      BY <1>3, <2>2 DEF name
  <1>6. (CHOOSE k \in DOMAIN tools : last(k)) = d
    <2> HIDE DEF last
    <2> QED
      BY <1>1, <1>4, <1>5
  <1> QED
    BY <1>2, <1>6

\* What comes back as a custom tool call was offered with an input to unwrap,
\* and only that or a function without parameters was (responses_request.go:28,
\* 546 against zen_compat.go:66).
THEOREM CallsAsDeclared == Spec => []CallsComeBackAsDeclared
  <1>1. PrepInv => CallsComeBackAsDeclared
    <2> SUFFICES ASSUME PrepInv, stage = "sent", translated, distinctNames(request.tools),
                        NEW k \in DOMAIN body.tools, NEW tool, tool = body.tools[k],
                        tool.name \in toolNames(request.tools), ~isCore(tool.name)
                 PROVE  /\ declaredType(request.tools, tool.name) = "custom"
                              => tool.schema = "input"
                        /\ declaredType(request.tools, tool.name) # "custom" =>
                              \E d \in DOMAIN request.tools :
                                 /\ request.tools[d].name = tool.name
                                 /\ tool.schema = "input" <=> request.tools[d].schema = "absent"
      BY DEF CallsComeBackAsDeclared
    <2> DEFINE n == Len(myTools)
               read(t) == openCodeRequestToolName(t)
    <2>1. myTools \in Seq(AnyTool) /\ body.tools = openCodeTools(myTools)
      BY MyTools, SentFields
    <2>2. /\ body.tools \in Seq(AnyTool) /\ n \in Nat /\ Len(body.tools) \in Nat
          /\ \A l \in 1..n : myTools[l] \in AnyTool /\ body.tools[l] = defined(myTools[l])
          /\ \A l \in n + 1..Len(body.tools) : isCore(read(body.tools[l]))
      BY <2>1, PreparedTools
    <2>3. ~isCore(read(tool))
      <3>1. tool \in AnyTool
        BY <2>2
      <3>2. read(tool) \in {"", tool.name} /\ ~isCore("")
        BY <3>1, DefinedOnce, CoreNames DEF isCore
      <3> QED
        BY <3>2
    <2>4. k \in 1..n
      BY <2>2, <2>3
    <2>5. ~request.malformed /\ ~withoutTools
      <3>1. myTools # <<>>
        BY <2>4
      <3> QED
        BY <3>1 DEF myTools
    <2>6. PICK d \in DOMAIN request.tools :
             translatable(request.tools[d]) /\ myTools[k] = offered(request.tools[d])
      BY <2>4, <2>5, TranslatedTools
    <2>7. tool = offered(request.tools[d])
      <3>1. tool = defined(myTools[k]) /\ myTools[k] \in AnyTool
        BY <2>2, <2>4
      <3>2. isCore(read(myTools[k])) \/ tool = myTools[k]
        BY <3>1, DefinedOnce
      <3>3. read(tool) = read(myTools[k])
        BY <3>1, DefinedOnce
      <3> QED
        BY <2>3, <2>6, <3>2, <3>3
    <2>8. request.tools \in Seq(ClientTools)
      BY MyTools
    <2>9. request.tools[d] \in ClientTools /\ tool.name = request.tools[d].name /\ tool.name # ""
      <3>1. request.tools[d] \in ClientTools
        BY <2>8
      <3>2. offered(request.tools[d]).name = request.tools[d].name
        BY DEF offered
      <3>3. request.tools[d].name # ""
        BY <2>6 DEF translatable
      <3> QED
        BY <2>7, <3>1, <3>2, <3>3
    <2>10. declaredType(request.tools, tool.name) = toolType(request.tools[d])
      <3>1. d \in 1..Len(request.tools)
        BY <2>8
      <3> QED
        BY <2>8, <2>9, <3>1, DeclaredOnce
    <2>11. /\ tool.schema = schemaOf(request.tools[d])
           /\ request.tools[d].schema \in {"absent", "own"}
      <3>1. offered(request.tools[d]).schema = schemaOf(request.tools[d])
        BY DEF offered
      <3>2. \A t \in ClientTools : t.schema \in {"absent", "own"}
        BY DEF ClientTools
      <3> QED
        BY <2>7, <2>9, <3>1, <3>2
    <2> QED
      BY <2>9, <2>10, <2>11 DEF schemaOf, toolType
  <1> QED
    BY <1>1, PreparationInvariant, PTL

-----------------------------------------------------------------------------
(* Dialogue: types, and what each operation makes of the messages.           *)

Told == [type : {"content"}, id : {NoCall}, content : Seq(Atoms)]
Uses == {toolUseBlock(i, item) : i \in 1..MaxItems, item \in {it \in Items : it.type \in Calls}}
Results == {toolResultBlock(i, item) :
               i \in 1..MaxItems, item \in {it \in Items : it.type = "output"}}
Blocks == Told \cup Uses \cup Results
AnthropicMessages == [role : {"user", "assistant"}, blocks : Seq(Blocks)]

callOf(i, item) == [id |-> callIDOf(item), name |-> item.name, arguments |-> chatArguments(item),
                    item |-> i]
ChatCalls == {callOf(i, item) : i \in 1..MaxItems, item \in {it \in Items : it.type \in Calls}}
Answers == {item.id : item \in {it \in Items : it.type = "output"}} \cup {NoCall}
ChatMessages == [role : {"system", "user", "assistant", "tool"}, content : Seq(Atoms),
                 calls : Seq(ChatCalls), answers : Answers]

\* Media are held back only behind an output, and only by a reader that goes on.
DialogueTypes ==
    /\ input \in Seq(Items) /\ Len(input) <= MaxItems /\ done \in BOOLEAN
    /\ chat \in Seq(ChatMessages) /\ pendingMedia \in Seq(Atoms)
    /\ anthropic \in Seq(AnthropicMessages)
    /\ pendingMedia # <<>> => Len(input) > 0 /\ isOutput(Len(input))
    /\ done \/ chatError # "" => pendingMedia = <<>>
    /\ chatError # "" => chat = <<>>
    /\ anthropicError # "" => anthropic = <<>>

\* What is read is the input so far and one item.
LEMMA ReadExtends ==
    ASSUME DialogueTypes, NEW item \in Items, Read(item)
    PROVE  /\ input' \in Seq(Items) /\ Len(input') = Len(input) + 1 /\ Len(input) \in Nat
           /\ Len(input') <= MaxItems /\ here = Len(input) + 1 /\ here \in 1..MaxItems
           /\ input'[here] = item /\ \A l \in 1..Len(input) : input'[l] = input[l]
           /\ DOMAIN input = 1..Len(input) /\ DOMAIN input' = 1..Len(input) + 1
           /\ ~done /\ ~done' /\ anthropicError = ""
  <1>1. input \in Seq(Items) /\ Len(input) \in Nat /\ MaxItems \in Nat
    <2>1. MaxItems \in Nat
      BY ItemsAssumption, Zenon
    <2>2. input \in Seq(Items)
      BY DEF DialogueTypes
    <2> QED
      BY <2>1, <2>2, LenProperties
  <1>2. input' = Append(input, item) /\ Len(input) < MaxItems /\ ~done /\ done' = done
    BY DEF Read
  <1>3. /\ Append(input, item) \in Seq(Items) /\ Len(Append(input, item)) = Len(input) + 1
        /\ Append(input, item)[Len(input) + 1] = item
        /\ \A l \in 1..Len(input) : Append(input, item)[l] = input[l]
    BY <1>1, AppendProperties
  <1>4. DOMAIN input = 1..Len(input) /\ DOMAIN input' = 1..Len(input')
    BY <1>1, <1>2, <1>3, LenProperties
  <1>5. here = Len(input) + 1 /\ anthropicError = ""
    BY DEF here, Read
  <1>6. Len(input) + 1 \in 1..MaxItems
    BY <1>1, <1>2
  <1>7. /\ input' \in Seq(Items) /\ Len(input') = Len(input) + 1 /\ input'[here] = item
        /\ \A l \in 1..Len(input) : input'[l] = input[l]
    BY <1>2, <1>3, <1>5
  <1>8. Len(input') = Len(input) + 1
    BY <1>7
  <1>9. DOMAIN input' = 1..Len(input) + 1
    BY <1>4, <1>8, Zenon
  <1>10. Len(input') <= MaxItems
    BY <1>1, <1>6, <1>8
  <1>11. here \in 1..MaxItems
    BY <1>5, <1>6, Zenon
  <1> QED
    BY <1>1, <1>2, <1>4, <1>5, <1>7, <1>9, <1>10, <1>11

\* The places of some kinds of parts.
ofKinds(parts, kinds) == {j \in DOMAIN parts : parts[j] \in kinds}

\* The parts of some kinds, in order, as atoms of the item.
LEMMA PartsAt ==
    ASSUME NEW i \in 1..MaxItems, NEW parts \in Seq(PartKinds), NEW kinds
    PROVE  /\ partsOf(i, parts, kinds) \in Seq(Atoms)
           /\ \A n \in 1..Len(partsOf(i, parts, kinds)) : partsOf(i, parts, kinds)[n].item = i
           /\ \E m, at :
                /\ enumerates(at, m, ofKinds(parts, kinds))
                /\ DOMAIN partsOf(i, parts, kinds) = 1..m /\ Len(partsOf(i, parts, kinds)) = m
                /\ \A n \in 1..m : partsOf(i, parts, kinds)[n] = atom(i, at[n], parts[at[n]])
  <1> DEFINE places == {j \in DOMAIN parts : parts[j] \in kinds}
             atoms == [j \in DOMAIN parts |-> atom(i, j, parts[j])]
             out == partsOf(i, parts, kinds)
  <1>1. DOMAIN parts = 1..Len(parts) /\ Len(parts) \in Nat
    BY LenProperties
  <1>2. out = subsequence(atoms, places)
    BY DEF partsOf
  <1>3. places \subseteq 1..Len(parts)
    BY <1>1
  <1>4. \A j \in places : atoms[j] = atom(i, j, parts[j]) /\ atom(i, j, parts[j]) \in Atoms
    <2> TAKE j \in places
    <2>1. j \in Nat /\ parts[j] \in PartKinds
      BY <1>1
    <2> QED
      BY <2>1 DEF atom, Atoms
  <1> HIDE DEF places, atoms, out
  <1>5. PICK m, at : enumerates(at, m, places) /\ subsequence(atoms, places) = through(atoms, at, m)
    BY <1>1, <1>3, SubsequenceAt
  <1>6. out = [n \in 1..m |-> atoms[at[n]]]
    BY <1>2, <1>5 DEF through
  <1>7. m \in Nat /\ \A n \in 1..m : at[n] \in places
    BY <1>5 DEF enumerates
  <1>8. \A n \in 1..m : atoms[at[n]] \in Atoms
    BY <1>4, <1>7
  <1>9. out \in Seq(Atoms) /\ DOMAIN out = 1..m /\ Len(out) = m
    BY <1>6, <1>7, <1>8
  <1>10. \A n \in 1..m : out[n] = atom(i, at[n], parts[at[n]])
    BY <1>4, <1>6, <1>7
  <1>11. \A n \in 1..Len(out) : out[n].item = i
    BY <1>9, <1>10 DEF atom
  <1> QED
    BY <1>5, <1>9, <1>10, <1>11 DEF places, out, ofKinds

\* The content a message of the dialogue is given.
LEMMA ContentTypes ==
    ASSUME NEW i \in 1..MaxItems, NEW item \in Items
    PROVE  /\ item.type = "message" =>
                 /\ responsesContentToChat(i, item.content, TRUE) \in Seq(Atoms)
                 /\ responsesContentToChat(i, item.content, FALSE) \in Seq(Atoms)
                 /\ responsesContentToAnthropic(i, item.content) \in Seq(Atoms)
           /\ item.type = "output" =>
                 /\ responsesToolOutputToChat(i, item.output).text \in Seq(Atoms)
                 /\ responsesToolOutputToChat(i, item.output).media \in Seq(Atoms)
                 /\ responsesToolOutputToAnthropic(i, item.output) \in Seq(Atoms)
  <1>1. \A kind \in {"attachment", "stub", "json"} : <<atom(i, 0, kind)>> \in Seq(Atoms)
    <2> TAKE kind \in {"attachment", "stub", "json"}
    <2>1. atom(i, 0, kind) \in Atoms
      BY DEF atom, Atoms
    <2> QED
      BY <2>1
  <1>2. <<atom(i, 0, "attachment")>> \in Seq(Atoms) /\ <<atom(i, 0, "stub")>> \in Seq(Atoms)
        /\ <<atom(i, 0, "json")>> \in Seq(Atoms) /\ <<>> \in Seq(Atoms)
    BY <1>1
  <1>3. ASSUME item.type = "message"
        PROVE  item.content.parts \in Seq(PartKinds)
    BY <1>3, ItemsAssumption
  <1>4. ASSUME item.type = "output"
        PROVE  item.output.parts \in Seq(PartKinds)
    BY <1>4, ItemsAssumption
  <1>5. ASSUME item.type = "message"
        PROVE  /\ responsesContentToChat(i, item.content, TRUE) \in Seq(Atoms)
               /\ responsesContentToChat(i, item.content, FALSE) \in Seq(Atoms)
               /\ responsesContentToAnthropic(i, item.content) \in Seq(Atoms)
    <2>1. \A kinds : partsOf(i, item.content.parts, kinds) \in Seq(Atoms)
      BY <1>3, <1>5, PartsAt
    <2> QED
      BY <1>2, <2>1 DEF responsesContentToChat, responsesContentToAnthropic
  <1>6. ASSUME item.type = "output"
        PROVE  /\ responsesToolOutputToChat(i, item.output).text \in Seq(Atoms)
               /\ responsesToolOutputToChat(i, item.output).media \in Seq(Atoms)
               /\ responsesToolOutputToAnthropic(i, item.output) \in Seq(Atoms)
    <2>1. \A kinds : partsOf(i, item.output.parts, kinds) \in Seq(Atoms)
      BY <1>4, <1>6, PartsAt
    <2>2. responsesToolOutputToAnthropic(i, item.output) \in Seq(Atoms)
      BY <1>2, <2>1 DEF responsesToolOutputToAnthropic
    <2>3. CASE hasPart(item.output.parts, {"other"})
      BY <1>2, <2>2, <2>3 DEF responsesToolOutputToChat
    <2>4. CASE ~hasPart(item.output.parts, {"other"})
      BY <1>2, <2>1, <2>2, <2>4 DEF responsesToolOutputToChat
    <2> QED
      BY <2>3, <2>4
  <1> QED
    BY <1>5, <1>6

\* Messages that are only added, or the assistant's that get longer.
grown(old, new) ==
    /\ Len(old) <= Len(new)
    /\ \A n \in 1..Len(old) :
          /\ new[n].role = old[n].role
          /\ old[n].role # "assistant" => new[n] = old[n]
          /\ Len(old[n].calls) <= Len(new[n].calls)
          /\ \A c \in 1..Len(old[n].calls) : new[n].calls[c] = old[n].calls[c]

\* A message's calls.
LEMMA MessageCalls ==
    ASSUME NEW messages \in Seq(ChatMessages), NEW n \in 1..Len(messages)
    PROVE  /\ messages[n] \in ChatMessages /\ messages[n].calls \in Seq(ChatCalls)
           /\ messages[n].content \in Seq(Atoms)
           /\ Len(messages[n].calls) \in Nat /\ DOMAIN messages = 1..Len(messages)
           /\ DOMAIN messages[n].calls = 1..Len(messages[n].calls)
  <1>1. messages[n] \in ChatMessages /\ DOMAIN messages = 1..Len(messages)
    BY LenProperties
  <1>2. messages[n].calls \in Seq(ChatCalls) /\ messages[n].content \in Seq(Atoms)
    BY <1>1 DEF ChatMessages
  <1> QED
    BY <1>1, <1>2, LenProperties

\* Messages grow into themselves.
LEMMA GrownSame ==
    ASSUME NEW messages \in Seq(ChatMessages)
    PROVE  grown(messages, messages)
  <1>1. Len(messages) \in Nat /\ \A n \in 1..Len(messages) : Len(messages[n].calls) \in Nat
    BY MessageCalls
  <1> QED
    BY <1>1 DEF grown

\* Growing on growing is growing.
LEMMA GrownOn ==
    ASSUME NEW a \in Seq(ChatMessages), NEW b \in Seq(ChatMessages), NEW c \in Seq(ChatMessages),
           grown(a, b), grown(b, c)
    PROVE  grown(a, c)
  <1>1. Len(a) \in Nat /\ Len(b) \in Nat /\ Len(c) \in Nat /\ Len(a) <= Len(b) /\ Len(b) <= Len(c)
    BY DEF grown
  <1>2. ASSUME NEW n \in 1..Len(a)
        PROVE  /\ c[n].role = a[n].role
               /\ a[n].role # "assistant" => c[n] = a[n]
               /\ Len(a[n].calls) <= Len(c[n].calls)
               /\ \A k \in 1..Len(a[n].calls) : c[n].calls[k] = a[n].calls[k]
    <2>1. n \in 1..Len(b) /\ n \in 1..Len(c)
      BY <1>1
    <2>2. Len(a[n].calls) \in Nat /\ Len(b[n].calls) \in Nat /\ Len(c[n].calls) \in Nat
      BY <2>1, MessageCalls
    <2>3. /\ b[n].role = a[n].role /\ (a[n].role # "assistant" => b[n] = a[n])
          /\ Len(a[n].calls) <= Len(b[n].calls)
          /\ \A k \in 1..Len(a[n].calls) : b[n].calls[k] = a[n].calls[k]
      BY DEF grown
    <2>4. /\ c[n].role = b[n].role /\ (b[n].role # "assistant" => c[n] = b[n])
          /\ Len(b[n].calls) <= Len(c[n].calls)
          /\ \A k \in 1..Len(b[n].calls) : c[n].calls[k] = b[n].calls[k]
      BY <2>1 DEF grown
    <2>5. \A k \in 1..Len(a[n].calls) : k \in 1..Len(b[n].calls)
      BY <2>2, <2>3
    <2> QED
      BY <2>2, <2>3, <2>4, <2>5, SMTT(30)
  <1> QED
    BY <1>1, <1>2 DEF grown

\* A message that is added.
LEMMA Appended ==
    ASSUME NEW messages \in Seq(ChatMessages), NEW m \in ChatMessages
    PROVE  LET more == Append(messages, m) IN
           /\ more \in Seq(ChatMessages) /\ grown(messages, more)
           /\ Len(more) = Len(messages) + 1 /\ Len(messages) \in Nat
           /\ more[Len(messages) + 1] = m /\ \A n \in 1..Len(messages) : more[n] = messages[n]
  <1> DEFINE more == Append(messages, m)
  <1>1. /\ more \in Seq(ChatMessages) /\ Len(more) = Len(messages) + 1 /\ Len(messages) \in Nat
        /\ more[Len(messages) + 1] = m /\ \A n \in 1..Len(messages) : more[n] = messages[n]
    BY AppendProperties, LenProperties
  <1>2. \A n \in 1..Len(messages) : Len(messages[n].calls) \in Nat
    BY MessageCalls
  <1> HIDE DEF more
  <1>3. grown(messages, more)
    BY <1>1, <1>2 DEF grown
  <1> QED
    BY <1>1, <1>3 DEF more

\* A message made of its parts.
LEMMA MessageTypes ==
    ASSUME NEW content \in Seq(Atoms), NEW calls \in Seq(ChatCalls), NEW answers \in Answers,
           NEW role \in {"system", "user", "assistant", "tool"}
    PROVE  /\ chatMessage(role, content, calls, answers) \in ChatMessages
           /\ chatMessage(role, content, calls, answers).role = role
           /\ chatMessage(role, content, calls, answers).calls = calls
           /\ chatMessage(role, content, calls, answers).content = content
           /\ chatMessage(role, content, calls, answers).answers = answers
  BY DEF chatMessage, ChatMessages

\* The messages once the media held back have been sent on.
LEMMA PendingSent ==
    ASSUME DialogueTypes
    PROVE  /\ withPendingMedia(chat) \in Seq(ChatMessages)
           /\ grown(chat, withPendingMedia(chat))
           /\ pendingMedia = <<>> => withPendingMedia(chat) = chat
  <1>1. chat \in Seq(ChatMessages) /\ pendingMedia \in Seq(Atoms)
    BY DEF DialogueTypes
  <1>2. <<>> \in Seq(ChatCalls) /\ NoCall \in Answers
    BY DEF Answers
  <1>3. chatMessage("user", pendingMedia, <<>>, NoCall) \in ChatMessages
    BY <1>1, <1>2, MessageTypes
  <1> QED
    BY <1>1, <1>3, Appended, GrownSame DEF withPendingMedia

\* The last message, when it is made longer.
LEMMA LastLonger ==
    ASSUME NEW messages \in Seq(ChatMessages), messages # <<>>,
           NEW m \in ChatMessages, NEW more, more = [messages EXCEPT ![Len(messages)] = m],
           messages[Len(messages)].role = "assistant", m.role = "assistant",
           Len(messages[Len(messages)].calls) <= Len(m.calls),
           \A c \in 1..Len(messages[Len(messages)].calls) :
              m.calls[c] = messages[Len(messages)].calls[c]
    PROVE  /\ more \in Seq(ChatMessages) /\ grown(messages, more)
           /\ Len(more) = Len(messages) /\ Len(messages) \in Nat \ {0}
           /\ more[Len(messages)] = m
           /\ \A n \in 1..Len(messages) - 1 : more[n] = messages[n]
  <1> DEFINE last == Len(messages)
  <1>1. last \in Nat /\ last # 0 /\ DOMAIN messages = 1..last
    BY LenProperties, EmptySeq
  <1>2. last \in 1..last
    BY <1>1
  <1>3. more \in Seq(ChatMessages) /\ Len(more) = last
    BY <1>2, ExceptSeq
  <1>4. /\ more[last] = m
        /\ \A n \in 1..last : n # last => more[n] = messages[n]
    BY <1>1, <1>2
  <1>5. \A n \in 1..last : Len(messages[n].calls) \in Nat
    BY MessageCalls
  <1> HIDE DEF last
  <1>6. last = Len(messages)
    BY DEF last
  <1>7. grown(messages, more)
    <2> SUFFICES ASSUME NEW n \in 1..last
                 PROVE  /\ more[n].role = messages[n].role
                        /\ messages[n].role # "assistant" => more[n] = messages[n]
                        /\ Len(messages[n].calls) <= Len(more[n].calls)
                        /\ \A c \in 1..Len(messages[n].calls) :
                              more[n].calls[c] = messages[n].calls[c]
      BY <1>1, <1>3, <1>6 DEF grown
    <2>1. CASE n = last
      BY <1>4, <1>6, <2>1
    <2>2. CASE n # last
      <3>1. more[n] = messages[n]
        BY <1>4, <2>2
      <3> QED
        BY <1>5, <2>2, <3>1
    <2> QED
      BY <2>1, <2>2
  <1>8. \A n \in 1..last - 1 : n \in 1..last /\ n # last
    BY <1>1
  <1> QED
    BY <1>1, <1>3, <1>4, <1>6, <1>7, <1>8

\* The message makes the call.
makes(m, call) == \E c \in 1..Len(m.calls) : m.calls[c] = call

\* A call joins the assistant's last message or opens one.
LEMMA CallAppended ==
    ASSUME NEW messages \in Seq(ChatMessages), NEW call \in ChatCalls, NEW more,
           more = appendAssistantToolCall(messages, call)
    PROVE  /\ more \in Seq(ChatMessages) /\ grown(messages, more)
           /\ Len(more) \in Nat \ {0} /\ more[Len(more)].role = "assistant"
           /\ makes(more[Len(more)], call)
           /\ messages # <<>> /\ messages[Len(messages)].role = "assistant"
                 => Len(more) = Len(messages)
  <1>1. CASE messages # <<>> /\ messages[Len(messages)].role = "assistant"
    <2> DEFINE last == Len(messages)
               calls == messages[last].calls
               m == [messages[last] EXCEPT !.calls = Append(calls, call)]
    <2>1. last \in 1..last
      BY <1>1, EmptySeq
    <2>2. messages[last] \in ChatMessages /\ calls \in Seq(ChatCalls) /\ Len(calls) \in Nat
      BY <2>1, MessageCalls
    <2>3. /\ Append(calls, call) \in Seq(ChatCalls) /\ Len(Append(calls, call)) = Len(calls) + 1
          /\ Append(calls, call)[Len(calls) + 1] = call
          /\ \A c \in 1..Len(calls) : Append(calls, call)[c] = calls[c]
      BY <2>2, AppendProperties
    <2>4. m \in ChatMessages /\ m.role = "assistant" /\ m.calls = Append(calls, call)
      BY <1>1, <2>2, <2>3 DEF ChatMessages
    <2>5. more = [messages EXCEPT ![last] = m]
      <3>1. more = [messages EXCEPT ![last].calls = Append(@, call)]
        BY <1>1 DEF appendAssistantToolCall, Last
      <3> QED
        BY <3>1
    <2> HIDE DEF m
    <2>6. Len(calls) <= Len(m.calls) /\ \A c \in 1..Len(calls) : m.calls[c] = calls[c]
      BY <2>2, <2>3, <2>4
    <2>7. /\ more \in Seq(ChatMessages) /\ grown(messages, more)
          /\ Len(more) = last /\ last \in Nat \ {0} /\ more[last] = m
      BY <1>1, <2>4, <2>5, <2>6, LastLonger, ZenonT(30)
    <2>8. Len(calls) + 1 \in 1..Len(m.calls) /\ m.calls[Len(calls) + 1] = call
      BY <2>2, <2>3, <2>4
    <2>9. makes(m, call)
      BY <2>8 DEF makes
    <2> QED
      BY <2>4, <2>7, <2>9
  <1>2. CASE ~(messages # <<>> /\ messages[Len(messages)].role = "assistant")
    <2> DEFINE m == chatMessage("assistant", <<>>, <<call>>, NoCall)
    <2>1. <<>> \in Seq(Atoms) /\ <<call>> \in Seq(ChatCalls) /\ NoCall \in Answers
      BY DEF Answers
    <2>2. m \in ChatMessages /\ m.role = "assistant" /\ m.calls = <<call>>
      <3>1. m \in ChatMessages
        BY <2>1, MessageTypes
      <3> QED
        BY <3>1 DEF chatMessage
    <2>3. more = Append(messages, m)
      BY <1>2 DEF appendAssistantToolCall, Last
    <2> HIDE DEF m
    <2>4. /\ more \in Seq(ChatMessages) /\ grown(messages, more)
          /\ Len(more) = Len(messages) + 1 /\ Len(messages) \in Nat
          /\ more[Len(messages) + 1] = m
      BY <2>2, <2>3, Appended
    <2>5. makes(m, call)
      <3>1. 1 \in 1..Len(m.calls) /\ m.calls[1] = call
        BY <2>2
      <3> QED
        BY <3>1 DEF makes
    <2>6. Len(more) \in Nat \ {0} /\ more[Len(more)] = m
      BY <2>4
    <2> QED
      BY <1>2, <2>2, <2>4, <2>5, <2>6
  <1> QED
    BY <1>1, <1>2

\* What the assistant says joins its last message or opens one.
LEMMA SpeechAppended ==
    ASSUME NEW messages \in Seq(ChatMessages), NEW content \in Seq(Atoms)
    PROVE  /\ appendAssistantMessage(messages, content) \in Seq(ChatMessages)
           /\ grown(messages, appendAssistantMessage(messages, content))
  <1> DEFINE more == appendAssistantMessage(messages, content)
  <1>1. CASE /\ messages # <<>> /\ messages[Len(messages)].role = "assistant"
             /\ messages[Len(messages)].calls = <<>>
    <2> DEFINE last == Len(messages)
               m == [messages[last] EXCEPT !.content = messages[last].content \o content]
    <2>1. last \in 1..last
      BY <1>1, EmptySeq
    <2>2. messages[last] \in ChatMessages /\ messages[last].content \in Seq(Atoms)
      BY <2>1, MessageCalls
    <2>3. messages[last].content \o content \in Seq(Atoms)
      BY <2>2, ConcatProperties
    <2>4. m \in ChatMessages /\ m.role = "assistant" /\ m.calls = messages[last].calls
      BY <1>1, <2>2, <2>3 DEF ChatMessages
    <2>5. more = [messages EXCEPT ![last] = m]
      <3>1. more = [messages EXCEPT ![last].content = @ \o content]
        BY <1>1 DEF appendAssistantMessage, Last
      <3> QED
        BY <3>1
    <2>6. Len(messages[last].calls) \in Nat
      BY <2>1, MessageCalls
    <2> HIDE DEF m, more
    <2>7. /\ Len(messages[last].calls) <= Len(m.calls)
          /\ \A c \in 1..Len(messages[last].calls) : m.calls[c] = messages[last].calls[c]
      BY <2>4, <2>6
    <2>8. more \in Seq(ChatMessages) /\ grown(messages, more)
      BY <1>1, <2>4, <2>5, <2>7, LastLonger
    <2> QED
      BY <2>8 DEF more
  <1>2. CASE ~(/\ messages # <<>> /\ messages[Len(messages)].role = "assistant"
               /\ messages[Len(messages)].calls = <<>>)
    <2>1. <<>> \in Seq(ChatCalls) /\ NoCall \in Answers
      BY DEF Answers
    <2>2. chatMessage("assistant", content, <<>>, NoCall) \in ChatMessages
      BY <2>1, MessageTypes
    <2>3. more = Append(messages, chatMessage("assistant", content, <<>>, NoCall))
      BY <1>2 DEF appendAssistantMessage, Last
    <2> HIDE DEF more
    <2> QED
      BY <2>2, <2>3, Appended DEF more
  <1> QED
    BY <1>1, <1>2

\* Blocks of a message of the Anthropic request.
LEMMA BlockTypes ==
    ASSUME NEW i \in 1..MaxItems, NEW item \in Items, NEW content \in Seq(Atoms)
    PROVE  /\ contentBlocks(content) \in Seq(Blocks) /\ Len(contentBlocks(content)) = Len(content)
           /\ \A k \in 1..Len(content) : /\ contentBlocks(content)[k].type = "content"
                                         /\ contentBlocks(content)[k].content = <<content[k]>>
           /\ content = <<>> => contentBlocks(content) = <<>>
           /\ item.type \in Calls => toolUseBlock(i, item) \in Blocks
           /\ item.type = "output" => toolResultBlock(i, item) \in Blocks
  <1> DEFINE out == contentBlocks(content)
             block(k) == [type |-> "content", id |-> NoCall, content |-> <<content[k]>>]
  <1>1. DOMAIN content = 1..Len(content) /\ Len(content) \in Nat
        /\ \A k \in 1..Len(content) : content[k] \in Atoms
    BY LenProperties
  <1>2. \A k \in 1..Len(content) : block(k) \in Blocks
    <2> TAKE k \in 1..Len(content)
    <2>1. <<content[k]>> \in Seq(Atoms)
      BY <1>1
    <2>2. block(k) \in Told
      BY <2>1 DEF Told
    <2> QED
      BY <2>2 DEF Blocks
  <1>3. out = [k \in 1..Len(content) |-> block(k)]
    BY <1>1 DEF contentBlocks
  <1>4. \A k \in 1..Len(content) : block(k).type = "content" /\ block(k).content = <<content[k]>>
    OBVIOUS
  <1> HIDE DEF out, block
  <1>5. out \in Seq(Blocks) /\ Len(out) = Len(content)
    BY <1>1, <1>2, <1>3
  <1>6. \A k \in 1..Len(content) : out[k].type = "content" /\ out[k].content = <<content[k]>>
    BY <1>3, <1>4
  <1>7. content = <<>> => out = <<>>
    BY <1>5, EmptySeq
  <1>8. item.type \in Calls => toolUseBlock(i, item) \in Blocks
    BY DEF Blocks, Uses
  <1>9. item.type = "output" => toolResultBlock(i, item) \in Blocks
    BY DEF Blocks, Results
  <1> QED
    BY <1>5, <1>6, <1>7, <1>8, <1>9 DEF out

\* Messages that are only added or get more blocks.
grownBlocks(old, new) ==
    /\ Len(old) <= Len(new)
    /\ \A n \in 1..Len(old) :
          /\ new[n].role = old[n].role
          /\ Len(old[n].blocks) <= Len(new[n].blocks)
          /\ \A b \in 1..Len(old[n].blocks) : new[n].blocks[b] = old[n].blocks[b]

\* A message's blocks.
LEMMA MessageBlocks ==
    ASSUME NEW messages \in Seq(AnthropicMessages), NEW n \in 1..Len(messages)
    PROVE  /\ messages[n] \in AnthropicMessages /\ messages[n].blocks \in Seq(Blocks)
           /\ messages[n].role \in {"user", "assistant"}
           /\ Len(messages[n].blocks) \in Nat /\ DOMAIN messages = 1..Len(messages)
           /\ DOMAIN messages[n].blocks = 1..Len(messages[n].blocks)
  <1>1. messages[n] \in AnthropicMessages /\ DOMAIN messages = 1..Len(messages)
    BY LenProperties
  <1>2. messages[n].blocks \in Seq(Blocks) /\ messages[n].role \in {"user", "assistant"}
    BY <1>1 DEF AnthropicMessages
  <1> QED
    BY <1>1, <1>2, LenProperties

\* Messages grow into themselves.
LEMMA GrownBlocksSame ==
    ASSUME NEW messages \in Seq(AnthropicMessages)
    PROVE  grownBlocks(messages, messages)
  <1>1. Len(messages) \in Nat /\ \A n \in 1..Len(messages) : Len(messages[n].blocks) \in Nat
    BY MessageBlocks
  <1> QED
    BY <1>1 DEF grownBlocks

\* Where the blocks went.
joined(messages, role, blocks, more) ==
    /\ blocks = <<>> => more = messages
    /\ blocks # <<>> /\ messages # <<>> /\ messages[Len(messages)].role = role =>
          /\ Len(more) = Len(messages) /\ Len(messages) \in Nat \ {0}
          /\ more[Len(messages)].role = role
          /\ more[Len(messages)].blocks = messages[Len(messages)].blocks \o blocks
          /\ \A n \in 1..Len(messages) - 1 : more[n] = messages[n]
    /\ blocks # <<>> /\ ~(messages # <<>> /\ messages[Len(messages)].role = role) =>
          /\ Len(more) = Len(messages) + 1 /\ Len(messages) \in Nat
          /\ more[Len(messages) + 1].role = role
          /\ more[Len(messages) + 1].blocks = blocks
          /\ \A n \in 1..Len(messages) : more[n] = messages[n]

\* Blocks join the last message of their role or open one.
LEMMA BlocksAppended ==
    ASSUME NEW messages \in Seq(AnthropicMessages), NEW role \in {"user", "assistant"},
           NEW blocks \in Seq(Blocks), NEW more, more = appendMessage(messages, role, blocks)
    PROVE  /\ more \in Seq(AnthropicMessages) /\ grownBlocks(messages, more)
           /\ joined(messages, role, blocks, more)
  <1> DEFINE last == Len(messages)
  <1>0. /\ last \in Nat
        /\ \A n \in 1..last : /\ messages[n].blocks \in Seq(Blocks)
                              /\ Len(messages[n].blocks) \in Nat
    BY MessageBlocks, LenProperties
  <1>1. CASE blocks = <<>>
    <2>1. more = messages
      BY <1>1 DEF appendMessage
    <2> QED
      BY <1>1, <2>1, GrownBlocksSame DEF joined
  <1>2. CASE blocks # <<>> /\ messages # <<>> /\ messages[last].role = role
    <2> DEFINE m == [messages[last] EXCEPT !.blocks = messages[last].blocks \o blocks]
    <2>1. last \in 1..last /\ last # 0
      BY <1>2, EmptySeq
    <2>2. messages[last] \in AnthropicMessages /\ messages[last].blocks \in Seq(Blocks)
      BY <2>1, MessageBlocks
    <2>3. /\ messages[last].blocks \o blocks \in Seq(Blocks)
          /\ Len(messages[last].blocks \o blocks) = Len(messages[last].blocks) + Len(blocks)
          /\ Len(blocks) \in Nat
          /\ \A b \in 1..Len(messages[last].blocks) :
                (messages[last].blocks \o blocks)[b] = messages[last].blocks[b]
      <3> DEFINE old == messages[last].blocks
      <3>1. old \in Seq(Blocks) /\ Len(old) \in Nat /\ Len(blocks) \in Nat
        BY <2>2
      <3> HIDE DEF old
      <3>2. /\ old \o blocks \in Seq(Blocks) /\ Len(old \o blocks) = Len(old) + Len(blocks)
            /\ \A b \in 1..Len(old) + Len(blocks) :
                  (old \o blocks)[b] = IF b <= Len(old) THEN old[b] ELSE blocks[b - Len(old)]
        BY <3>1, ConcatProperties
      <3>3. \A b \in 1..Len(old) : b \in 1..Len(old) + Len(blocks) /\ b <= Len(old)
        BY <3>1
      <3> QED
        BY <3>1, <3>2, <3>3 DEF old
    <2>4. /\ m \in AnthropicMessages /\ m.role = role
          /\ m.blocks = messages[last].blocks \o blocks
      BY <1>2, <2>2, <2>3 DEF AnthropicMessages
    <2>5. more = [messages EXCEPT ![last] = m]
      <3>1. more = [messages EXCEPT ![last].blocks = @ \o blocks]
        BY <1>2 DEF appendMessage, Last
      <3> QED
        BY <3>1
    <2> HIDE DEF m, last
    <2>6. last = Len(messages)
      BY DEF last
    <2>7. /\ more \in Seq(AnthropicMessages) /\ Len(more) = last
          /\ \A n \in 1..last : more[n] = IF n = last THEN m ELSE messages[n]
      BY <2>1, <2>4, <2>5, <2>6, ExceptSeq
    <2>8. more[last] = m /\ \A n \in 1..last - 1 : more[n] = messages[n]
      BY <1>0, <2>1, <2>7
    <2>9. grownBlocks(messages, more)
      <3> SUFFICES ASSUME NEW n \in 1..last
                   PROVE  /\ more[n].role = messages[n].role
                          /\ Len(messages[n].blocks) <= Len(more[n].blocks)
                          /\ \A b \in 1..Len(messages[n].blocks) :
                                more[n].blocks[b] = messages[n].blocks[b]
        BY <1>0, <2>6, <2>7 DEF grownBlocks
      <3>1. CASE n = last
        BY <1>0, <1>2, <2>3, <2>4, <2>8, <3>1
      <3>2. CASE n # last
        <4>1. more[n] = messages[n]
          BY <2>7, <3>2
        <4> QED
          BY <1>0, <4>1
      <3> QED
        BY <3>1, <3>2
    <2> QED
      BY <1>0, <1>2, <2>1, <2>4, <2>6, <2>7, <2>8, <2>9 DEF joined
  <1>3. CASE blocks # <<>> /\ ~(messages # <<>> /\ messages[last].role = role)
    <2> DEFINE m == [role |-> role, blocks |-> blocks]
    <2>1. more = Append(messages, m)
      BY <1>3 DEF appendMessage, Last
    <2>2. m \in AnthropicMessages /\ m.role = role /\ m.blocks = blocks
      BY DEF AnthropicMessages
    <2> HIDE DEF m
    <2>3. /\ more \in Seq(AnthropicMessages) /\ Len(more) = last + 1
          /\ more[last + 1] = m /\ \A n \in 1..last : more[n] = messages[n]
      BY <2>1, <2>2, AppendProperties
    <2>4. grownBlocks(messages, more)
      BY <1>0, <2>3 DEF grownBlocks
    <2> QED
      BY <1>0, <1>3, <2>2, <2>3, <2>4 DEF joined
  <1> QED
    BY <1>1, <1>2, <1>3

\* An item that is read and not refused, nor an element that is no object.
Taken(item) == \/ SkippedItem(item) \/ ToolCall(item) \/ ToolOutput(item)
               \/ UserMessage(item) \/ AssistantMessage(item) \/ SystemMessage(item)

\* What such an item makes of the Chat messages, while they are made.
LEMMA ChatTaken ==
    ASSUME DialogueTypes, NEW item \in Items, Taken(item)
    PROVE  /\ Read(item) /\ chatError' = chatError
           /\ chat' \in Seq(ChatMessages) /\ grown(chat, chat')
           /\ pendingMedia' \in Seq(Atoms)
           /\ item.type # "output" => pendingMedia' = <<>>
           /\ chatError # "" => chat' = <<>> /\ pendingMedia' = <<>>
  <1>1. Read(item) /\ chatError' = chatError
    BY DEF Taken, SkippedItem, ToolCall, ToolOutput, UserMessage, AssistantMessage,
           SystemMessage, Chat
  <1>2. here \in 1..MaxItems /\ chat \in Seq(ChatMessages) /\ pendingMedia \in Seq(Atoms)
    BY <1>1, ReadExtends DEF DialogueTypes
  <1>3. <<>> \in Seq(Atoms) /\ <<>> \in Seq(ChatCalls) /\ NoCall \in Answers
    BY DEF Answers
  <1>4. CASE chatError # ""
    <2>1. chat = <<>> /\ pendingMedia = <<>> /\ UNCHANGED <<chat, pendingMedia>>
      BY <1>4 DEF DialogueTypes, Taken, SkippedItem, ToolCall, ToolOutput, UserMessage,
                  AssistantMessage, SystemMessage, Chat
    <2> QED
      BY <1>1, <1>2, <1>4, <2>1, GrownSame
  <1>5. ASSUME chatError = "", NEW messages \in Seq(ChatMessages), grown(chat, messages),
               NEW media \in Seq(Atoms), Chat(messages, media),
               item.type # "output" => media = <<>>
        PROVE  /\ chat' \in Seq(ChatMessages) /\ grown(chat, chat') /\ pendingMedia' \in Seq(Atoms)
               /\ item.type # "output" => pendingMedia' = <<>>
    BY <1>5 DEF Chat
  <1> DEFINE base == withPendingMedia(chat)
  <1>6. base \in Seq(ChatMessages) /\ grown(chat, base)
    BY PendingSent
  <1>7. ASSUME NEW m \in ChatMessages
        PROVE  Append(base, m) \in Seq(ChatMessages) /\ grown(chat, Append(base, m))
    BY <1>2, <1>6, Appended, GrownOn
  <1> HIDE DEF base
  <1>8. CASE chatError = "" /\ SkippedItem(item)
    <2>1. Chat(base, <<>>)
      BY <1>8 DEF SkippedItem, base
    <2> QED
      BY <1>1, <1>3, <1>5, <1>6, <1>8, <2>1
  <1>9. CASE chatError = "" /\ ToolCall(item)
    <2> DEFINE call == callOf(here, item)
               more == appendAssistantToolCall(base, call)
    <2>1. call \in ChatCalls /\ Chat(more, <<>>)
      <3>1. item.type \in Calls /\ Chat(more, <<>>)
        BY <1>9, Zenon DEF ToolCall, callOf, base
      <3>2. item \in {it \in Items : it.type \in Calls}
        BY <3>1
      <3>3. call \in ChatCalls
        BY <1>2, <3>2 DEF ChatCalls
      <3> QED
        BY <3>1, <3>3
    <2> HIDE DEF call
    <2>2. more \in Seq(ChatMessages) /\ grown(base, more)
      BY <1>6, <2>1, CallAppended
    <2>3. grown(chat, more)
      BY <1>2, <1>6, <2>2, GrownOn
    <2> QED
      BY <1>1, <1>3, <1>5, <1>9, <2>1, <2>2, <2>3
  <1>10. CASE chatError = "" /\ ToolOutput(item)
    <2> DEFINE converted == responsesToolOutputToChat(here, item.output)
               m == chatMessage("tool", converted.text, <<>>, item.id)
    <2>1. item.type = "output" /\ Chat(Append(chat, m), pendingMedia \o converted.media)
      BY <1>10 DEF ToolOutput
    <2>2. converted.text \in Seq(Atoms) /\ converted.media \in Seq(Atoms) /\ item.id \in Answers
      BY <1>2, <2>1, ContentTypes DEF Answers
    <2> HIDE DEF converted
    <2>3. m \in ChatMessages
      BY <1>3, <2>2, MessageTypes
    <2> HIDE DEF m
    <2>4. Append(chat, m) \in Seq(ChatMessages) /\ grown(chat, Append(chat, m))
      BY <1>2, <2>3, Appended
    <2>5. pendingMedia \o converted.media \in Seq(Atoms)
      BY <1>2, <2>2, ConcatProperties
    <2> QED
      BY <1>1, <1>5, <1>10, <2>1, <2>4, <2>5
  <1>11. CASE chatError = "" /\ UserMessage(item)
    <2> DEFINE content == responsesContentToChat(here, item.content, FALSE)
               m == chatMessage("user", content, <<>>, NoCall)
               more == IF item.content.form = "absent" THEN base ELSE Append(base, m)
    <2>1. item.type = "message" /\ Chat(more, <<>>)
      BY <1>11 DEF UserMessage, base
    <2>2. content \in Seq(Atoms)
      BY <1>2, <2>1, ContentTypes
    <2> HIDE DEF content
    <2>3. m \in ChatMessages
      BY <1>3, <2>2, MessageTypes
    <2> HIDE DEF m
    <2>4. more \in Seq(ChatMessages) /\ grown(chat, more)
      BY <1>6, <1>7, <2>3
    <2> QED
      BY <1>1, <1>3, <1>5, <1>11, <2>1, <2>4
  <1>12. CASE chatError = "" /\ AssistantMessage(item)
    <2> DEFINE content == responsesContentToChat(here, item.content, TRUE)
               more == IF item.content.form = "absent" THEN base
                       ELSE appendAssistantMessage(base, content)
    <2>1. item.type = "message" /\ Chat(more, <<>>)
      BY <1>12 DEF AssistantMessage, base
    <2>2. content \in Seq(Atoms)
      BY <1>2, <2>1, ContentTypes
    <2> HIDE DEF content
    <2>3. /\ appendAssistantMessage(base, content) \in Seq(ChatMessages)
          /\ grown(base, appendAssistantMessage(base, content))
      BY <1>6, <2>2, SpeechAppended
    <2>4. grown(chat, appendAssistantMessage(base, content))
      BY <1>2, <1>6, <2>3, GrownOn
    <2>5. more \in Seq(ChatMessages) /\ grown(chat, more)
      BY <1>6, <2>3, <2>4
    <2> QED
      BY <1>1, <1>3, <1>5, <1>12, <2>1, <2>5
  <1>13. CASE chatError = "" /\ SystemMessage(item)
    <2> DEFINE content == responsesContentToChat(here, item.content, FALSE)
               places == {k \in DOMAIN content : content[k].kind \in {"text", "attachment"}}
               text == subsequence(content, places)
               m == chatMessage("system", text, <<>>, NoCall)
               more == IF text = <<>> THEN base ELSE Append(base, m)
    <2>1. item.type = "message" /\ Chat(more, <<>>)
      BY <1>13 DEF SystemMessage, base
    <2>2. content \in Seq(Atoms)
      BY <1>2, <2>1, ContentTypes
    <2> HIDE DEF content
    <2>3. DOMAIN content = 1..Len(content) /\ Len(content) \in Nat
      BY <2>2, LenProperties
    <2>4. places \subseteq 1..Len(content)
      BY <2>3
    <2> HIDE DEF places
    <2>5. PICK n, at : enumerates(at, n, places) /\ text = through(content, at, n)
      BY <2>3, <2>4, SubsequenceAt
    <2>6. n \in Nat /\ \A k \in 1..n : content[at[k]] \in Atoms
      <3>1. n \in Nat /\ \A k \in 1..n : at[k] \in 1..Len(content)
        BY <2>4, <2>5 DEF enumerates
      <3> QED
        BY <2>2, <3>1
    <2>7. text \in Seq(Atoms)
      BY <2>5, <2>6 DEF through
    <2> HIDE DEF text
    <2>8. m \in ChatMessages
      BY <1>3, <2>7, MessageTypes
    <2> HIDE DEF m
    <2>9. more \in Seq(ChatMessages) /\ grown(chat, more)
      BY <1>6, <1>7, <2>8
    <2> QED
      BY <1>1, <1>3, <1>5, <1>13, <2>1, <2>9
  <1> QED
    BY <1>1, <1>4, <1>8, <1>9, <1>10, <1>11, <1>12, <1>13 DEF Taken

\* What such an item makes of the Anthropic messages: blocks of one role, or
\* nothing.
LEMMA AnthropicTaken ==
    ASSUME DialogueTypes, NEW item \in Items, Taken(item)
    PROVE  /\ anthropicError' = "" /\ anthropicError = ""
           /\ anthropic' \in Seq(AnthropicMessages) /\ grownBlocks(anthropic, anthropic')
  <1>1. Read(item) /\ anthropicError' = anthropicError
    BY DEF Taken, SkippedItem, ToolCall, ToolOutput, UserMessage, AssistantMessage,
           SystemMessage, Anthropic
  <1>2. /\ here \in 1..MaxItems /\ anthropic \in Seq(AnthropicMessages)
        /\ anthropicError = ""
    BY <1>1, ReadExtends DEF DialogueTypes
  <1>3. ASSUME NEW role \in {"user", "assistant"}, NEW blocks \in Seq(Blocks),
               Anthropic(appendMessage(anthropic, role, blocks))
        PROVE  anthropic' \in Seq(AnthropicMessages) /\ grownBlocks(anthropic, anthropic')
    BY <1>2, <1>3, BlocksAppended DEF Anthropic
  <1>4. <<>> \in Seq(Atoms)
    OBVIOUS
  <1>5. CASE SkippedItem(item) \/ SystemMessage(item)
    <2>1. anthropic' = anthropic
      BY <1>5 DEF SkippedItem, SystemMessage, Anthropic
    <2> QED
      BY <1>1, <1>2, <2>1, GrownBlocksSame
  <1>6. CASE ToolCall(item)
    <2> DEFINE use == toolUseBlock(here, item)
    <2>1. item.type \in Calls /\ Anthropic(appendMessage(anthropic, "assistant", <<use>>))
      BY <1>6 DEF ToolCall
    <2>2. use \in Blocks
      BY <1>2, <1>4, <2>1, BlockTypes
    <2> HIDE DEF use
    <2>3. <<use>> \in Seq(Blocks)
      BY <2>2
    <2> QED
      BY <1>1, <1>2, <1>3, <2>1, <2>3
  <1>7. CASE ToolOutput(item)
    <2> DEFINE result == toolResultBlock(here, item)
    <2>1. item.type = "output" /\ Anthropic(appendMessage(anthropic, "user", <<result>>))
      BY <1>7 DEF ToolOutput
    <2>2. result \in Blocks
      BY <1>2, <1>4, <2>1, BlockTypes
    <2> HIDE DEF result
    <2>3. <<result>> \in Seq(Blocks)
      BY <2>2
    <2> QED
      BY <1>1, <1>2, <1>3, <2>1, <2>3
  <1>8. CASE UserMessage(item) \/ AssistantMessage(item)
    <2> DEFINE content == responsesContentToAnthropic(here, item.content)
    <2>1. item.type = "message"
      BY <1>8 DEF UserMessage, AssistantMessage
    <2>2. content \in Seq(Atoms)
      BY <1>2, <2>1, ContentTypes
    <2> DEFINE blocks == contentBlocks(content)
    <2>3. \E role \in {"user", "assistant"} : Anthropic(appendMessage(anthropic, role, blocks))
      BY <1>8 DEF UserMessage, AssistantMessage
    <2> HIDE DEF content
    <2>4. blocks \in Seq(Blocks)
      BY <1>2, <2>2, BlockTypes
    <2> HIDE DEF blocks
    <2> QED
      BY <1>1, <1>2, <1>3, <2>3, <2>4
  <1> QED
    BY <1>5, <1>6, <1>7, <1>8 DEF Taken

\* A step reads an item that is taken, is refused or is no object, or ends the
\* input, or changes nothing.
LEMMA DialogueSteps ==
    ASSUME [DialogueNext]_dialogueVars
    PROVE  \/ \E item \in Items : \/ Taken(item) \/ NotAnObject(item)
                                  \/ Refused(item)
           \/ EndOfInput
           \/ UNCHANGED dialogueVars
  BY DEF DialogueNext, Taken, Returned

\* Messages, media and blocks keep their types, and media are held back only
\* behind an output.
THEOREM DialogueInvariant == DialogueSpec => []DialogueTypes
  <1>1. DialogueInit => DialogueTypes
    <2> SUFFICES ASSUME DialogueInit PROVE DialogueTypes
      OBVIOUS
    <2>1. /\ <<>> \in Seq(Items) /\ <<>> \in Seq(ChatMessages) /\ <<>> \in Seq(Atoms)
          /\ <<>> \in Seq(AnthropicMessages)
      BY EmptySeq
    <2>2. Len(input) <= MaxItems
      <3>1. Len(input) = 0 /\ MaxItems \in Nat
        BY ItemsAssumption, EmptySeq DEF DialogueInit
      <3> QED
        BY <3>1
    <2> QED
      BY <2>1, <2>2 DEF DialogueInit, DialogueTypes
  <1>2. DialogueTypes /\ [DialogueNext]_dialogueVars => DialogueTypes'
    <2> SUFFICES ASSUME DialogueTypes, [DialogueNext]_dialogueVars PROVE DialogueTypes'
      OBVIOUS
    <2>1. \A S : <<>> \in Seq(S)
      BY EmptySeq
    <2>2. ASSUME NEW item \in Items, Taken(item)
          PROVE  DialogueTypes'
      <3>1. /\ Read(item) /\ chatError' = chatError /\ chat' \in Seq(ChatMessages)
            /\ pendingMedia' \in Seq(Atoms)
            /\ item.type # "output" => pendingMedia' = <<>>
            /\ chatError # "" => chat' = <<>> /\ pendingMedia' = <<>>
        BY <2>2, ChatTaken
      <3>2. anthropicError' = "" /\ anthropic' \in Seq(AnthropicMessages)
        BY <2>2, AnthropicTaken
      <3>3. /\ input' \in Seq(Items) /\ Len(input') = Len(input) + 1 /\ Len(input) \in Nat
            /\ Len(input') <= MaxItems /\ here = Len(input) + 1
            /\ input'[here] = item /\ ~done'
        BY <3>1, ReadExtends
      <3>4. pendingMedia' # <<>> => Len(input') > 0 /\ isOutput(Len(input))'
        <4>1. Len(input') > 0 /\ input'[Len(input')] = item
          BY <3>3
        <4> QED
          BY <3>1, <4>1 DEF isOutput
      <3>5. done' \in BOOLEAN
        BY <3>1 DEF Read, DialogueTypes
      <3> QED
        BY <3>1, <3>2, <3>3, <3>4, <3>5 DEF DialogueTypes
    <2>3. ASSUME NEW item \in Items, NotAnObject(item) \/ Refused(item)
          PROVE  DialogueTypes'
      <3>1. /\ Read(item) /\ chat' = <<>> /\ pendingMedia' = <<>>
            /\ \/ anthropic' = anthropic /\ anthropicError' = anthropicError
               \/ anthropic' = <<>>
        BY <2>3 DEF NotAnObject, Refused, ChatFails, AnthropicFails, Anthropic
      <3>2. /\ input' \in Seq(Items) /\ Len(input') <= MaxItems /\ ~done'
        BY <3>1, ReadExtends
      <3>3. /\ anthropic' \in Seq(AnthropicMessages) /\ chat' \in Seq(ChatMessages)
            /\ pendingMedia' \in Seq(Atoms)
        <4>1. /\ <<>> \in Seq(AnthropicMessages) /\ <<>> \in Seq(ChatMessages)
              /\ <<>> \in Seq(Atoms)
          BY EmptySeq
        <4> QED
          BY <3>1, <4>1 DEF DialogueTypes
      <3>4. anthropicError' # "" => anthropic' = <<>>
        BY <3>1 DEF DialogueTypes
      <3>5. done' \in BOOLEAN
        BY <3>1 DEF Read, DialogueTypes
      <3> QED
        BY <3>1, <3>2, <3>3, <3>4, <3>5 DEF DialogueTypes
    <2>4. CASE EndOfInput
      <3>1. /\ UNCHANGED <<input, anthropic, anthropicError, chatError>> /\ done'
            /\ \/ chatError = "" /\ chat' = withPendingMedia(chat) /\ pendingMedia' = <<>>
               \/ chatError # "" /\ UNCHANGED <<chat, pendingMedia>>
        BY <2>4 DEF EndOfInput, Chat, anthropicVars
      <3>2. withPendingMedia(chat) \in Seq(ChatMessages)
        BY PendingSent
      <3>3. /\ chat' \in Seq(ChatMessages) /\ pendingMedia' = <<>>
            /\ chatError' # "" => chat' = <<>>
        BY <3>1, <3>2 DEF DialogueTypes
      <3> QED
        BY <2>1, <3>1, <3>3 DEF DialogueTypes
    <2>5. CASE UNCHANGED dialogueVars
      BY <2>5 DEF DialogueTypes, dialogueVars, chatVars, anthropicVars, isOutput
    <2> QED
      BY <2>2, <2>3, <2>4, <2>5, DialogueSteps
  <1> QED
    BY <1>1, <1>2, PTL DEF DialogueSpec

\* The items read, and the one read last.
LEMMA ReadItems ==
    ASSUME DialogueTypes, NEW item \in Items, Read(item)
    PROVE  /\ here \in DOMAIN input' /\ input'[here] = item /\ anthropicError = ""
           /\ \A l \in DOMAIN input : l \in DOMAIN input' /\ input'[l] = input[l] /\ l < here
           /\ \A l \in DOMAIN input' : l = here \/ l \in DOMAIN input
  <1>1. /\ Len(input) \in Nat /\ here = Len(input) + 1 /\ input'[here] = item /\ anthropicError = ""
        /\ DOMAIN input = 1..Len(input) /\ DOMAIN input' = 1..Len(input) + 1
        /\ \A l \in 1..Len(input) : input'[l] = input[l]
    BY ReadExtends
  <1>2. ASSUME NEW n \in Nat
        PROVE  /\ n + 1 \in 1..n + 1
               /\ \A l \in 1..n : l \in 1..n + 1 /\ l < n + 1
               /\ \A l \in 1..n + 1 : l = n + 1 \/ l \in 1..n
    OBVIOUS
  <1> QED
    BY <1>1, <1>2, Zenon

\* Both translations refuse the same inputs for the same reason, those aside
\* that hold an element that is no object (responses_request.go:213, 642).
THEOREM VerdictsAgree == DialogueSpec => []SameVerdict
  <1>1. DialogueInit => SameVerdict
    BY DEF DialogueInit, SameVerdict
  <1>2. DialogueTypes /\ SameVerdict /\ [DialogueNext]_dialogueVars => SameVerdict'
    <2> SUFFICES ASSUME DialogueTypes, SameVerdict, [DialogueNext]_dialogueVars,
                        \A k \in DOMAIN input' : input'[k].type # "scalar"
                 PROVE  chatError' = anthropicError'
      BY DEF SameVerdict
    <2>1. ASSUME NEW item \in Items, Read(item)
          PROVE  item.type # "scalar" /\ chatError = "" /\ anthropicError = ""
      <3>1. /\ here \in DOMAIN input' /\ input'[here] = item /\ anthropicError = ""
            /\ \A l \in DOMAIN input : l \in DOMAIN input' /\ input'[l] = input[l]
        BY <2>1, ReadItems
      <3> QED
        BY <3>1 DEF SameVerdict
    <2>2. ASSUME NEW item \in Items, Taken(item)
          PROVE  chatError' = anthropicError'
      <3>1. Read(item) /\ chatError' = chatError /\ anthropicError' = ""
        BY <2>2, ChatTaken, AnthropicTaken
      <3> QED
        BY <2>1, <3>1
    <2>3. ASSUME NEW item \in Items, NotAnObject(item)
          PROVE  chatError' = anthropicError'
      BY <2>1, <2>3 DEF NotAnObject
    <2>4. ASSUME NEW item \in Items, Refused(item)
          PROVE  chatError' = anthropicError'
      <3>1. chatError = "" /\ ChatFails(refusal(item)) /\ AnthropicFails(refusal(item))
        BY <2>1, <2>4 DEF Refused
      <3> QED
        BY <3>1 DEF ChatFails, AnthropicFails
    <2>5. CASE EndOfInput \/ UNCHANGED dialogueVars
      <3>1. UNCHANGED <<input, chatError, anthropicError>>
        BY <2>5 DEF EndOfInput, Chat, dialogueVars, chatVars, anthropicVars
      <3> QED
        BY <3>1 DEF SameVerdict
    <2> QED
      BY <2>2, <2>3, <2>4, <2>5, DialogueSteps
  <1> QED
    BY <1>1, <1>2, DialogueInvariant, PTL DEF DialogueSpec

-----------------------------------------------------------------------------
(* Dialogue: calls.                                                          *)

\* A call of a message.
calledIn(messages, m, id) ==
    /\ m \in 1..Len(messages) /\ messages[m].role = "assistant"
    /\ \E c \in 1..Len(messages[m].calls) : messages[m].calls[c].id = id

\* Only tools have spoken since the call.
pendingCall(messages, id) ==
    \E m \in 1..Len(messages) :
       /\ calledIn(messages, m, id)
       /\ \A l \in m + 1..Len(messages) : messages[l].role = "tool"

\* While calls, and then outputs, are read, the message that made the calls is
\* the last but for the tool messages.
TurnInv ==
    ~done /\ chatError = "" =>
        \A j \in 1..Len(input) :
           /\ (\A l \in j..Len(input) : input[l].type \in Calls)
                 => calledIn(chat, Len(chat), callIDOf(input[j]))
           /\ \A b \in j..Len(input) :
                 /\ \A l \in j..b : input[l].type \in Calls
                 /\ \A l \in b + 1..Len(input) : isOutput(l)
                 => pendingCall(chat, callIDOf(input[j]))

\* A message that grows keeps its calls.
LEMMA CallsGrow ==
    ASSUME NEW old \in Seq(ChatMessages), NEW new \in Seq(ChatMessages), grown(old, new),
           NEW m, NEW id, calledIn(old, m, id)
    PROVE  calledIn(new, m, id)
  <1>1. /\ m \in 1..Len(old) /\ old[m].role = "assistant" /\ Len(old) \in Nat /\ Len(new) \in Nat
        /\ Len(old) <= Len(new)
    BY DEF calledIn, grown
  <1>2. PICK c \in 1..Len(old[m].calls) : old[m].calls[c].id = id
    BY DEF calledIn
  <1>3. m \in 1..Len(new)
    BY <1>1
  <1>4. Len(old[m].calls) \in Nat /\ Len(new[m].calls) \in Nat
    BY <1>1, <1>3, MessageCalls
  <1>5. /\ new[m].role = old[m].role /\ Len(old[m].calls) <= Len(new[m].calls)
        /\ new[m].calls[c] = old[m].calls[c]
    BY <1>1 DEF grown
  <1>6. c \in 1..Len(new[m].calls)
    BY <1>4, <1>5
  <1> QED
    BY <1>1, <1>2, <1>3, <1>5, <1>6 DEF calledIn

\* The output of the call has become a tool message with nothing but others
\* between the two.
answeredIn(messages, id, k) ==
    \E m, n \in DOMAIN messages :
       /\ m < n
       /\ \E call \in ToSet(messages[m].calls) : call.id = id
       /\ messages[n].answers = id /\ messages[n].content[1].item = k
       /\ \A l \in m + 1..n : messages[l].role = "tool"

\* It stays so when messages grow.
LEMMA AnswersGrow ==
    ASSUME NEW old \in Seq(ChatMessages), NEW new \in Seq(ChatMessages), grown(old, new),
           NEW id, NEW k, answeredIn(old, id, k)
    PROVE  answeredIn(new, id, k)
  <1>1. PICK m \in DOMAIN old, n \in DOMAIN old :
           /\ m < n
           /\ \E call \in ToSet(old[m].calls) : call.id = id
           /\ old[n].answers = id /\ old[n].content[1].item = k
           /\ \A l \in m + 1..n : old[l].role = "tool"
    BY DEF answeredIn
  <1>2. /\ DOMAIN old = 1..Len(old) /\ DOMAIN new = 1..Len(new)
        /\ Len(old) \in Nat /\ Len(new) \in Nat /\ Len(old) <= Len(new)
    BY LenProperties DEF grown
  <1>3. m \in 1..Len(old) /\ n \in 1..Len(old) /\ m \in DOMAIN new /\ n \in DOMAIN new
    BY <1>2
  <1>4. \A l \in 1..Len(old) : new[l].role = old[l].role
    BY DEF grown
  <1>5. \E call \in ToSet(new[m].calls) : call.id = id
    <2>1. /\ DOMAIN old[m].calls = 1..Len(old[m].calls)
          /\ DOMAIN new[m].calls = 1..Len(new[m].calls)
          /\ Len(old[m].calls) \in Nat /\ Len(new[m].calls) \in Nat
      BY <1>2, <1>3, MessageCalls
    <2>2. PICK c \in 1..Len(old[m].calls) : old[m].calls[c].id = id
      BY <1>1, <2>1 DEF ToSet
    <2>3. Len(old[m].calls) <= Len(new[m].calls) /\ new[m].calls[c] = old[m].calls[c]
      BY <1>3 DEF grown
    <2>4. c \in DOMAIN new[m].calls
      BY <2>1, <2>3
    <2> QED
      BY <2>2, <2>3, <2>4 DEF ToSet
  <1>6. \A l \in m + 1..n : new[l].role = "tool"
    <2>1. \A l \in m + 1..n : l \in 1..Len(old)
      BY <1>2, <1>3
    <2> QED
      BY <1>1, <1>4, <2>1
  <1>7. new[n] = old[n]
    <2>1. n \in m + 1..n
      BY <1>1, <1>2, <1>3
    <2>2. old[n].role = "tool"
      BY <1>1, <2>1
    <2> QED
      BY <1>3, <2>2 DEF grown
  <1> QED
    BY <1>1, <1>3, <1>5, <1>6, <1>7 DEF answeredIn

\* What is read later does not change whether an output follows its call.
LEMMA AnsweredBefore ==
    ASSUME DialogueTypes, NEW item \in Items, Read(item), NEW k \in DOMAIN input, AnsweredAtOnce(k)'
    PROVE  AnsweredAtOnce(k) /\ input'[k] = input[k]
  <1>1. \A l \in DOMAIN input : input'[l] = input[l]
    BY ReadItems
  <1>2. DOMAIN input = 1..Len(input) /\ Len(input) \in Nat
    BY ReadExtends
  <1>3. \A l \in 1..k : input'[l] = input[l]
    BY <1>1, <1>2
  <1>4. k \in Nat
    BY <1>2
  <1>5. PICK j \in 1..k - 1 :
           /\ input'[k].type = "output"
           /\ input'[j].type \in Calls /\ callIDOf(input'[j]) = input'[k].id
           /\ \E b \in j..k - 1 : /\ \A l \in j..b : input'[l].type \in Calls
                                  /\ \A l \in b + 1..k : input'[l].type = "output"
    BY DEF AnsweredAtOnce, isOutput, isCall
  <1>6. PICK b \in j..k - 1 : /\ \A l \in j..b : input'[l].type \in Calls
                              /\ \A l \in b + 1..k : input'[l].type = "output"
    BY <1>5
  <1>7. /\ j \in 1..k /\ k \in 1..k /\ \A l \in j..b : l \in 1..k
        /\ \A l \in b + 1..k : l \in 1..k
    BY <1>4
  <1> QED
    BY <1>3, <1>5, <1>6, <1>7 DEF AnsweredAtOnce, isOutput, isCall

\* A tool message does not come between a call and its output.
LEMMA PendingStays ==
    ASSUME NEW messages \in Seq(ChatMessages), NEW m \in ChatMessages, m.role = "tool",
           NEW id, pendingCall(messages, id)
    PROVE  pendingCall(Append(messages, m), id)
  <1> DEFINE more == Append(messages, m)
             n == Len(messages)
  <1>1. /\ more \in Seq(ChatMessages) /\ grown(messages, more) /\ Len(more) = n + 1 /\ n \in Nat
        /\ more[n + 1] = m /\ \A l \in 1..n : more[l] = messages[l]
    BY Appended
  <1>2. PICK c \in 1..n : calledIn(messages, c, id) /\ \A l \in c + 1..n : messages[l].role = "tool"
    BY DEF pendingCall
  <1> HIDE DEF more, n
  <1>3. calledIn(more, c, id)
    BY <1>1, <1>2, CallsGrow
  <1>4. \A l \in c + 1..n + 1 : l = n + 1 \/ (l \in c + 1..n /\ l \in 1..n)
    BY <1>1, <1>2
  <1>5. \A l \in c + 1..n + 1 : more[l].role = "tool"
    BY <1>1, <1>2, <1>4
  <1>6. c \in 1..n + 1
    BY <1>1, <1>2
  <1> QED
    BY <1>1, <1>3, <1>5, <1>6 DEF pendingCall, more

\* The turn's message stays the last but for the tool messages.
LEMMA TurnKept ==
    ASSUME DialogueTypes, TurnInv, [DialogueNext]_dialogueVars
    PROVE  TurnInv'
  <1> DEFINE N == Len(input)
             id(j) == callIDOf(input'[j])
  <1>1. ASSUME NEW item \in Items, Taken(item), chatError' = ""
        PROVE  TurnInv'
    <2>1. /\ Read(item) /\ chatError = "" /\ ~done
          /\ chat' \in Seq(ChatMessages) /\ grown(chat, chat')
      BY <1>1, ChatTaken, ReadExtends
    <2>2. /\ N \in Nat /\ Len(input') = N + 1 /\ here = N + 1 /\ here \in 1..MaxItems
          /\ input'[N + 1] = item /\ \A l \in 1..N : input'[l] = input[l]
      BY <2>1, ReadExtends
    <2>3. chat \in Seq(ChatMessages)
      BY DEF DialogueTypes
    <2> HIDE DEF N
    <2>4. \A j \in 1..N + 1 : j = N + 1 \/ j \in 1..N
      BY <2>2
    <2>5. \A j \in 1..N + 1 : N + 1 \in j..N + 1 /\ N + 1 \in 1..N + 1
      BY <2>2
    <2>6. \A j \in 1..N : \A l \in j..N : l \in 1..N /\ l \in j..N + 1
      BY <2>2
    <2>7. SUFFICES ASSUME NEW j \in 1..N + 1
                   PROVE  /\ (\A l \in j..N + 1 : input'[l].type \in Calls)
                                => calledIn(chat', Len(chat'), id(j))
                          /\ \A b \in j..N + 1 :
                                /\ \A l \in j..b : input'[l].type \in Calls
                                /\ \A l \in b + 1..N + 1 : input'[l].type = "output"
                                => pendingCall(chat', id(j))
      BY <2>2 DEF TurnInv, isOutput
    <2>8. CASE ToolCall(item)
      <3> DEFINE base == withPendingMedia(chat)
                 call == callOf(here, item)
      <3>1. item.type \in Calls /\ Chat(appendAssistantToolCall(base, call), <<>>)
        BY <2>8, Zenon DEF ToolCall, callOf
      <3>2. item \in {it \in Items : it.type \in Calls}
        BY <3>1
      <3>3. call \in ChatCalls /\ call.id = callIDOf(item)
        BY <2>2, <3>2 DEF ChatCalls, callOf
      <3>4. chat' = appendAssistantToolCall(base, call)
        BY <2>1, <3>1 DEF Chat
      <3>5. /\ base \in Seq(ChatMessages) /\ (pendingMedia = <<>> => base = chat)
        BY PendingSent
      <3> HIDE DEF base, call
      <3>6. /\ Len(chat') \in Nat \ {0} /\ chat'[Len(chat')].role = "assistant"
            /\ makes(chat'[Len(chat')], call)
            /\ base # <<>> /\ base[Len(base)].role = "assistant" => Len(chat') = Len(base)
        <4>1. PICK more : more = appendAssistantToolCall(base, call)
          OBVIOUS
        <4>2. /\ Len(more) \in Nat \ {0} /\ more[Len(more)].role = "assistant"
              /\ makes(more[Len(more)], call)
              /\ base # <<>> /\ base[Len(base)].role = "assistant" => Len(more) = Len(base)
          BY <3>3, <3>5, <4>1, CallAppended
        <4> QED
          BY <3>4, <4>1, <4>2
      <3>7. calledIn(chat', Len(chat'), callIDOf(item))
        BY <3>3, <3>6 DEF calledIn, makes
      <3>8. ASSUME \A l \in j..N + 1 : input'[l].type \in Calls
            PROVE  calledIn(chat', Len(chat'), id(j))
        <4>1. CASE j = N + 1
          BY <2>2, <3>7, <4>1
        <4>2. CASE j \in 1..N
          <5>1. \A l \in j..N : input[l].type \in Calls
            BY <2>2, <2>6, <3>8, <4>2
          <5>2. calledIn(chat, Len(chat), callIDOf(input[j]))
            BY <2>1, <4>2, <5>1 DEF TurnInv, N
          <5>3. N \in j..N
            BY <2>2, <4>2
          <5>4. input[N].type \in Calls
            BY <5>1, <5>3
          <5>5. pendingMedia = <<>>
            BY <5>4 DEF DialogueTypes, isOutput, N, Calls
          <5>6. Len(chat) # 0 /\ chat[Len(chat)].role = "assistant"
            BY <5>2 DEF calledIn
          <5>7. Len(chat') = Len(chat)
            BY <3>5, <3>6, <5>5, <5>6, EmptySeq
          <5>8. calledIn(chat', Len(chat), callIDOf(input[j]))
            BY <2>1, <2>3, <5>2, CallsGrow
          <5> QED
            BY <2>2, <4>2, <5>7, <5>8
        <4> QED
          BY <2>4, <4>1, <4>2
      <3>9. ASSUME NEW b \in j..N + 1, \A l \in j..b : input'[l].type \in Calls,
                   \A l \in b + 1..N + 1 : input'[l].type = "output"
            PROVE  pendingCall(chat', id(j))
        <4>1. b = N + 1
          <5> SUFFICES ASSUME b # N + 1 PROVE FALSE
            OBVIOUS
          <5>1. N + 1 \in b + 1..N + 1
            BY <2>2, <3>9
          <5>2. input'[N + 1].type = "output"
            BY <3>9, <5>1
          <5> QED
            BY <2>2, <3>1, <5>2 DEF Calls
        <4>2. calledIn(chat', Len(chat'), id(j))
          BY <3>8, <3>9, <4>1
        <4>3. Len(chat') \in 1..Len(chat') /\ \A l \in Len(chat') + 1..Len(chat') : FALSE
          BY <3>6
        <4> QED
          BY <4>2, <4>3 DEF pendingCall
      <3> QED
        BY <3>8, <3>9
    <2>9. CASE ToolOutput(item)
      <3> DEFINE converted == responsesToolOutputToChat(here, item.output)
                 m == chatMessage("tool", converted.text, <<>>, item.id)
      <3>1. item.type = "output" /\ Chat(Append(chat, m), pendingMedia \o converted.media)
        BY <2>9 DEF ToolOutput
      <3>2. converted.text \in Seq(Atoms) /\ item.id \in Answers /\ <<>> \in Seq(ChatCalls)
        <4>1. converted.text \in Seq(Atoms)
          BY <2>2, <3>1, ContentTypes
        <4>2. item.id \in Answers
          BY <3>1 DEF Answers
        <4> QED
          BY <4>1, <4>2
      <3>3. chat' = Append(chat, m)
        BY <2>1, <3>1 DEF Chat
      <3> HIDE DEF converted
      <3>4. m \in ChatMessages /\ m.role = "tool"
        <4>1. m \in ChatMessages
          BY <3>2, MessageTypes
        <4> QED
          BY <4>1 DEF chatMessage
      <3> HIDE DEF m
      <3>5. ~(\A l \in j..N + 1 : input'[l].type \in Calls)
        BY <2>2, <2>5, <3>1 DEF Calls
      <3>6. ASSUME NEW b \in j..N + 1, \A l \in j..b : input'[l].type \in Calls,
                   \A l \in b + 1..N + 1 : input'[l].type = "output"
            PROVE  pendingCall(chat', id(j))
        <4>1. b # N + 1
          BY <3>5, <3>6
        <4>2. j \in 1..N /\ b \in j..N
          BY <2>2, <4>1
        <4>3. /\ \A l \in j..b : l \in 1..N
              /\ \A l \in b + 1..N : l \in 1..N /\ l \in b + 1..N + 1
          BY <2>2, <4>2
        <4>4. /\ \A l \in j..b : input[l].type \in Calls
              /\ \A l \in b + 1..N : isOutput(l)
          BY <2>2, <3>6, <4>3 DEF isOutput
        <4>5. pendingCall(chat, callIDOf(input[j]))
          BY <2>1, <4>2, <4>4 DEF TurnInv, N
        <4> QED
          BY <2>2, <2>3, <3>3, <3>4, <4>2, <4>5, PendingStays
      <3> QED
        BY <3>5, <3>6
    <2>10. CASE ~ToolCall(item) /\ ~ToolOutput(item)
      <3>1. item.type \notin Calls /\ item.type # "output"
        BY <1>1, <2>10 DEF Taken, SkippedItem, UserMessage, AssistantMessage, SystemMessage, Calls
      <3>2. ~(\A l \in j..N + 1 : input'[l].type \in Calls)
        BY <2>2, <2>5, <3>1
      <3>3. ASSUME NEW b \in j..N + 1, \A l \in j..b : input'[l].type \in Calls,
                   \A l \in b + 1..N + 1 : input'[l].type = "output"
            PROVE  FALSE
        <4>1. b # N + 1
          BY <3>2, <3>3
        <4>2. N + 1 \in b + 1..N + 1
          BY <2>2, <4>1
        <4> QED
          BY <2>2, <3>1, <3>3, <4>2
      <3> QED
        BY <3>2, <3>3
    <2> QED
      BY <2>8, <2>9, <2>10
  <1>2. ASSUME NEW item \in Items, NotAnObject(item) \/ Refused(item)
        PROVE  TurnInv'
    <2>1. refusal(item) # "" \/ NotAnObject(item)
      BY <1>2 DEF Refused
    <2>2. chatError' # ""
      BY <1>2, <2>1 DEF NotAnObject, Refused, ChatFails
    <2> QED
      BY <2>2 DEF TurnInv
  <1>3. CASE EndOfInput
    BY <1>3 DEF EndOfInput, TurnInv
  <1>4. CASE UNCHANGED dialogueVars
    BY <1>4 DEF TurnInv, pendingCall, calledIn, isOutput, dialogueVars, chatVars
  <1>5. CASE chatError' # ""
    BY <1>5 DEF TurnInv
  <1> QED
    BY <1>1, <1>2, <1>3, <1>4, <1>5, DialogueSteps

\* What a tool message, or a result, says begins with something of its output.
LEMMA OutputTold ==
    ASSUME NEW i \in 1..MaxItems, NEW item \in Items, item.type = "output"
    PROVE  /\ responsesToolOutputToChat(i, item.output).text[1].item = i
           /\ responsesToolOutputToAnthropic(i, item.output)[1].item = i
  <1>1. item.output.parts \in Seq(PartKinds)
    BY ItemsAssumption
  <1>2. \A kind : <<atom(i, 0, kind)>>[1].item = i
    BY DEF atom
  <1>3. ASSUME NEW kinds, partsOf(i, item.output.parts, kinds) # <<>>
        PROVE  partsOf(i, item.output.parts, kinds)[1].item = i
    <2>1. PICK parts \in Seq(PartKinds) : parts = item.output.parts
      BY <1>1, Zenon
    <2> DEFINE out == partsOf(i, parts, kinds)
    <2>2. out \in Seq(Atoms) /\ \A n \in 1..Len(out) : out[n].item = i
      BY PartsAt
    <2>3. out # <<>>
      BY <1>3, <2>1
    <2> HIDE DEF out
    <2>4. 1 \in 1..Len(out)
      BY <2>2, <2>3, EmptySeq
    <2>5. out[1].item = i
      BY <2>2, <2>4
    <2> QED
      BY <2>1, <2>5 DEF out
  <1>4. responsesToolOutputToAnthropic(i, item.output)[1].item = i
    BY <1>2, <1>3 DEF responsesToolOutputToAnthropic
  <1>5. responsesToolOutputToChat(i, item.output).text[1].item = i
    <2>1. CASE hasPart(item.output.parts, {"other"})
      BY <1>2, <2>1 DEF responsesToolOutputToChat
    <2>2. CASE ~hasPart(item.output.parts, {"other"})
      BY <1>2, <1>3, <2>2 DEF responsesToolOutputToChat
    <2> QED
      BY <2>1, <2>2
  <1> QED
    BY <1>4, <1>5

\* The output that is read becomes a tool message behind the call's.
LEMMA OutputAnswers ==
    ASSUME DialogueTypes, TurnInv, NEW item \in Items, ToolOutput(item), chatError = "",
           NEW k, k = here, AnsweredAtOnce(k)'
    PROVE  answeredIn(chat', item.id, k)
  <1> DEFINE N == Len(input)
             M == Len(chat)
             converted == responsesToolOutputToChat(here, item.output)
             message == chatMessage("tool", converted.text, <<>>, item.id)
  <1>1. /\ item.type = "output" /\ Read(item)
        /\ Chat(Append(chat, message), pendingMedia \o converted.media)
    BY DEF ToolOutput
  <1>2. /\ N \in Nat /\ here = N + 1 /\ here \in 1..MaxItems /\ ~done
        /\ input'[N + 1] = item /\ \A l \in 1..N : input'[l] = input[l]
    BY <1>1, ReadExtends
  <1>3. converted.text \in Seq(Atoms) /\ converted.text[1].item = here
    BY <1>1, <1>2, ContentTypes, OutputTold
  <1>4. chat' = Append(chat, message)
    BY <1>1 DEF Chat
  <1> HIDE DEF converted
  <1>5. /\ message \in ChatMessages /\ message.role = "tool" /\ message.answers = item.id
        /\ message.content = converted.text
    <2>1. item.id \in Answers /\ <<>> \in Seq(ChatCalls)
      <3>1. item \in {it \in Items : it.type = "output"}
        BY <1>1
      <3>2. item.id \in Answers
        BY <3>1, Zenon DEF Answers
      <3> QED
        BY <3>2, EmptySeq
    <2>2. message \in ChatMessages
      BY <1>3, <2>1, MessageTypes
    <2> QED
      BY <2>2 DEF chatMessage
  <1> HIDE DEF message
  <1>6. /\ chat' \in Seq(ChatMessages) /\ grown(chat, chat') /\ Len(chat') = M + 1 /\ M \in Nat
        /\ chat'[M + 1] = message /\ \A n \in 1..M : chat'[n] = chat[n]
        /\ chat \in Seq(ChatMessages)
    BY <1>4, <1>5, Appended DEF DialogueTypes
  <1> HIDE DEF N, M
  <1>7. PICK j \in 1..k - 1 :
           /\ input'[j].type \in Calls /\ callIDOf(input'[j]) = input'[k].id
           /\ \E b \in j..k - 1 : /\ \A l \in j..b : input'[l].type \in Calls
                                  /\ \A l \in b + 1..k : input'[l].type = "output"
    BY DEF AnsweredAtOnce, isOutput, isCall
  <1>8. PICK b \in j..k - 1 : /\ \A l \in j..b : input'[l].type \in Calls
                              /\ \A l \in b + 1..k : input'[l].type = "output"
    BY <1>7
  <1>9. /\ k = N + 1 /\ input'[k] = item /\ j \in 1..N /\ b \in j..N
        /\ \A l \in j..b : l \in 1..N
        /\ \A l \in b + 1..N : l \in 1..N /\ l \in b + 1..k
    <2>1. k = N + 1 /\ input'[k] = item
      BY <1>2, Zenon
    <2>2. N \in Nat /\ k = N + 1
      BY <1>2, <2>1, Zenon
    <2>3. ASSUME NEW p \in 1..N, NEW q \in p..N
          PROVE  /\ \A l \in p..q : l \in 1..N
                 /\ \A l \in q + 1..N : l \in 1..N /\ l \in q + 1..N + 1
      BY ONLY <2>2
    <2>4. k - 1 = N
      BY ONLY <2>2
    <2>5. j \in 1..N /\ b \in j..N
      BY <2>4, Zenon
    <2>6. /\ \A l \in j..b : l \in 1..N
          /\ \A l \in b + 1..N : l \in 1..N /\ l \in b + 1..N + 1
      BY <2>3, <2>5, Zenon
    <2> QED
      BY <2>1, <2>5, <2>6, Zenon
  <1>10. /\ \A l \in j..b : input[l].type \in Calls
         /\ \A l \in b + 1..N : isOutput(l)
    BY <1>2, <1>8, <1>9 DEF isOutput
  <1>11. pendingCall(chat, item.id)
    <2>1. pendingCall(chat, callIDOf(input[j]))
      BY <1>2, <1>9, <1>10 DEF TurnInv, N
    <2> QED
      BY <1>2, <1>7, <1>9, <2>1
  <1>12. PICK m \in 1..M :
            calledIn(chat, m, item.id) /\ \A l \in m + 1..M : chat[l].role = "tool"
    BY <1>11 DEF pendingCall, M
  <1>13. \A l \in m + 1..M + 1 : l = M + 1 \/ (l \in m + 1..M /\ l \in 1..M)
    <2>1. M \in Nat
      BY <1>6
    <2>2. ASSUME NEW p \in 1..M
          PROVE  \A l \in p + 1..M + 1 : l = M + 1 \/ (l \in p + 1..M /\ l \in 1..M)
      BY ONLY <2>1
    <2> QED
      BY <2>2, Zenon
  <1>14. \A l \in m + 1..M + 1 : chat'[l].role = "tool"
    BY <1>5, <1>6, <1>12, <1>13
  <1>15. m \in DOMAIN chat' /\ M + 1 \in DOMAIN chat' /\ m < M + 1
    <2>1. DOMAIN chat' = 1..Len(chat') /\ Len(chat') = M + 1
      BY <1>6, LenProperties
    <2>2. M \in Nat
      BY <1>6
    <2>3. ASSUME NEW p \in 1..M
          PROVE  p \in 1..M + 1 /\ M + 1 \in 1..M + 1 /\ p < M + 1
      BY ONLY <2>2
    <2>4. DOMAIN chat' = 1..M + 1
      BY <2>1, Zenon
    <2> QED
      BY <2>3, <2>4, Zenon
  <1>16. \E call \in ToSet(chat'[m].calls) : call.id = item.id
    <2>1. calledIn(chat', m, item.id)
      BY <1>6, <1>12, CallsGrow
    <2>2. m \in 1..Len(chat')
      BY <2>1 DEF calledIn
    <2>3. DOMAIN chat'[m].calls = 1..Len(chat'[m].calls)
      BY <1>6, <2>2, MessageCalls
    <2> QED
      BY <2>1, <2>3 DEF calledIn, ToSet
  <1> QED
    <2>1. /\ chat'[M + 1].answers = item.id /\ chat'[M + 1].content[1].item = k
      BY <1>3, <1>5, <1>6
    <2> QED
      BY <1>14, <1>15, <1>16, <2>1 DEF answeredIn

\* The turn's message is where its calls are, whatever the dialogue.
THEOREM CallsAwaitOutputs == DialogueSpec => []TurnInv
  <1>1. DialogueInit => TurnInv
    <2> SUFFICES ASSUME DialogueInit PROVE TurnInv
      OBVIOUS
    <2>1. \A j \in 1..Len(input) : FALSE
      <3>1. Len(input) = 0
        BY EmptySeq DEF DialogueInit
      <3> QED
        BY <3>1
    <2> QED
      BY <2>1 DEF TurnInv
  <1>2. DialogueTypes /\ TurnInv /\ [DialogueNext]_dialogueVars => TurnInv'
    BY TurnKept
  <1> QED
    BY <1>1, <1>2, DialogueInvariant, PTL DEF DialogueSpec

\* Whatever the dialogue and the media its outputs carry, only tool messages
\* stand between a call's message and the tool message of an output that
\* follows it at once (responses_request.go:217).
THEOREM ToolMessagesInPlace == DialogueSpec => []ToolMessagesFollowTheirCall
  <1>1. DialogueInit => ToolMessagesFollowTheirCall
    <2> SUFFICES ASSUME DialogueInit PROVE ToolMessagesFollowTheirCall
      OBVIOUS
    <2>1. \A k \in DOMAIN input : FALSE
      <3>1. input \in Seq(Items) /\ Len(input) = 0
        BY EmptySeq DEF DialogueInit
      <3>2. DOMAIN input = 1..0
        BY <3>1, LenProperties
      <3> QED
        BY <3>2
    <2> QED
      BY <2>1 DEF ToolMessagesFollowTheirCall
  <1>2. DialogueTypes /\ TurnInv /\ ToolMessagesFollowTheirCall /\ [DialogueNext]_dialogueVars
           => ToolMessagesFollowTheirCall'
    <2> SUFFICES ASSUME DialogueTypes, TurnInv, ToolMessagesFollowTheirCall,
                        [DialogueNext]_dialogueVars
                 PROVE  ToolMessagesFollowTheirCall'
      OBVIOUS
    <2>1. chat \in Seq(ChatMessages)
      BY DEF DialogueTypes
    <2>2. ASSUME NEW item \in Items, Taken(item), chatError' = "",
                 NEW k \in DOMAIN input', AnsweredAtOnce(k)'
          PROVE  answeredIn(chat', input'[k].id, k)
      <3>1. /\ Read(item) /\ chatError = ""
            /\ chat' \in Seq(ChatMessages) /\ grown(chat, chat')
        BY <2>2, ChatTaken
      <3>2. CASE k \in DOMAIN input
        <4>1. AnsweredAtOnce(k) /\ input'[k] = input[k]
          BY <2>2, <3>1, <3>2, AnsweredBefore
        <4>2. answeredIn(chat, input[k].id, k)
          BY <3>1, <3>2, <4>1 DEF ToolMessagesFollowTheirCall, answeredIn
        <4> QED
          BY <2>1, <3>1, <4>1, <4>2, AnswersGrow
      <3>3. CASE k = here
        <4>1. input'[k] = item
          BY <3>1, <3>3, ReadItems
        <4>2. item.type = "output"
          BY <2>2, <4>1 DEF AnsweredAtOnce, isOutput
        <4>3. ToolOutput(item)
          BY <2>2, <4>2 DEF Taken, SkippedItem, ToolCall, UserMessage, AssistantMessage,
                            SystemMessage, Calls
        <4> QED
          BY <2>2, <3>1, <3>3, <4>1, <4>3, OutputAnswers
      <3> QED
        BY <2>2, <3>1, <3>2, <3>3, ReadItems
    <2>3. ASSUME NEW item \in Items, NotAnObject(item) \/ Refused(item)
          PROVE  chatError' # ""
      BY <2>3 DEF NotAnObject, Refused, ChatFails
    <2>4. ASSUME UNCHANGED <<input, chatError>>, chatError = "" => grown(chat, chat'),
                 chat' \in Seq(ChatMessages),
                 chatError' = "", NEW k \in DOMAIN input', AnsweredAtOnce(k)'
          PROVE  answeredIn(chat', input'[k].id, k)
      <3>1. AnsweredAtOnce(k) /\ input' = input /\ chatError = "" /\ k \in DOMAIN input
        BY <2>4 DEF AnsweredAtOnce, isOutput, isCall
      <3>2. answeredIn(chat, input[k].id, k)
        BY <3>1 DEF ToolMessagesFollowTheirCall, answeredIn
      <3> QED
        BY <2>1, <2>4, <3>1, <3>2, AnswersGrow
    <2>5. ASSUME EndOfInput \/ UNCHANGED dialogueVars
          PROVE  /\ UNCHANGED <<input, chatError>> /\ chat' \in Seq(ChatMessages)
                 /\ chatError = "" => grown(chat, chat')
      <3>1. /\ UNCHANGED <<input, chatError>>
            /\ chat' = chat \/ chat' = withPendingMedia(chat)
        BY <2>5 DEF EndOfInput, Chat, dialogueVars, chatVars
      <3> QED
        BY <2>1, <3>1, PendingSent, GrownSame
    <2>6. ASSUME chatError' = "", NEW k \in DOMAIN input', AnsweredAtOnce(k)'
          PROVE  answeredIn(chat', input'[k].id, k)
      BY <2>2, <2>3, <2>4, <2>5, <2>6, DialogueSteps
    <2> QED
      BY <2>6 DEF ToolMessagesFollowTheirCall, answeredIn
  <1> QED
    BY <1>1, <1>2, DialogueInvariant, CallsAwaitOutputs, PTL DEF DialogueSpec

\* The wrapper taken off a custom tool's arguments and put on again.
LEMMA WrapperRestored ==
    ASSUME NEW sent \in Seq(Fragments), Wrapped(sent)
    PROVE  wrap(customToolInput(sent)) = sent
  <1> DEFINE n == Len(sent)
             inner == SubSeq(sent, 2, n - 1)
             opened == <<Opening>> \o inner
             out == wrap(customToolInput(sent))
  <1>1. /\ n \in Nat /\ 2 <= n /\ sent[1] = Opening /\ sent[n] = Closing
        /\ sent \in Seq(Fragments)
    BY LenProperties DEF Wrapped
  <1>2. out = opened \o <<Closing>>
    BY DEF wrap, customToolInput
  <1>3. <<Opening>> \in Seq(Fragments) /\ <<Closing>> \in Seq(Fragments)
    BY DEF Fragments
  <1> HIDE DEF n, out
  <1>4. \A i \in 2..n - 1 : i \in 1..n
    BY <1>1
  <1>5. /\ inner \in Seq(Fragments) /\ Len(inner) = n - 2
        /\ \A k \in 1..n - 2 : inner[k] = sent[k + 1]
    <2>1. 2 \in 1..n + 1 /\ n - 1 \in 2 - 1..n
      BY <1>1
    <2>2. /\ inner \in Seq(Fragments)
          /\ Len(inner) = IF 2 <= n - 1 THEN n - 1 - 2 + 1 ELSE 0
          /\ \A k \in 1..n - 1 - 2 + 1 : inner[k] = sent[2 + k - 1]
      BY <1>1, <1>4, <2>1, SubSeqProperties DEF n
    <2> QED
      BY <1>1, <2>2
  <1> HIDE DEF inner
  <1>6. /\ opened \in Seq(Fragments) /\ Len(opened) = n - 1 /\ opened[1] = Opening
        /\ \A k \in 2..n - 1 : opened[k] = sent[k]
    BY <1>1, <1>3, <1>5, ConcatProperties
  <1> HIDE DEF opened
  <1>7. /\ out \in Seq(Fragments) /\ Len(out) = n /\ out[n] = Closing
        /\ \A k \in 1..n - 1 : out[k] = opened[k]
    BY <1>1, <1>2, <1>3, <1>6, ConcatProperties
  <1>8. \A k \in 1..n : out[k] = sent[k]
    BY <1>1, <1>6, <1>7
  <1>9. Len(sent) = n
    BY DEF n
  <1>10. out = sent
    BY <1>1, <1>7, <1>8, <1>9, SeqEqual
  <1> QED
    BY <1>10 DEF out

\* What the client echoes becomes what was sent.
LEMMA ArgumentsRestored ==
    ASSUME NEW item \in Items, item.type \in Calls, sentAsDeclared(item)
    PROVE  /\ chatArguments(item) = item.sent
           /\ Parses(item.sent) => anthropicInput(item) = item.sent
  <1>1. item.sent \in Seq(Fragments)
    BY ItemsAssumption
  <1>2. CASE item.type = "custom_tool_call"
    <2>1. wrap(echoed(item)) = item.sent
      BY <1>1, <1>2, WrapperRestored DEF sentAsDeclared, echoed, callBody
    <2> QED
      BY <1>2, <2>1 DEF chatArguments, anthropicInput
  <1>3. CASE item.type = "function_call"
    <2>1. echoed(item) = item.sent
      BY <1>3 DEF echoed, callBody
    <2>2. Parses(item.sent) => item.sent # <<>>
      <3>1. Len(<<>>) = 0 /\ ~(0 >= 2) /\ <<EmptyObject>> # <<>>
        OBVIOUS
      <3>2. Wrapped(item.sent) => Len(item.sent) >= 2
        BY DEF Wrapped
      <3> QED
        BY <3>1, <3>2, Zenon DEF Parses
    <2> QED
      BY <1>3, <2>1, <2>2 DEF chatArguments, anthropicInput
  <1> QED
    BY <1>2, <1>3 DEF Calls

\* The message has the block.
holds(m, block) == \E b \in 1..Len(m.blocks) : m.blocks[b] = block

\* A message that grows keeps the call it makes.
LEMMA CallStays ==
    ASSUME NEW old \in Seq(ChatMessages), NEW new \in Seq(ChatMessages), grown(old, new),
           NEW call, NEW m \in 1..Len(old), makes(old[m], call)
    PROVE  m \in 1..Len(new) /\ makes(new[m], call)
  <1>1. Len(old) \in Nat /\ Len(new) \in Nat /\ Len(old) <= Len(new)
    BY LenProperties DEF grown
  <1>2. m \in 1..Len(new)
    BY <1>1
  <1>3. Len(old[m].calls) \in Nat /\ Len(new[m].calls) \in Nat
    BY <1>2, MessageCalls
  <1>4. PICK c \in 1..Len(old[m].calls) : old[m].calls[c] = call
    BY DEF makes
  <1>5. Len(old[m].calls) <= Len(new[m].calls) /\ new[m].calls[c] = call
    BY <1>4 DEF grown
  <1>6. c \in 1..Len(new[m].calls)
    BY <1>3, <1>5
  <1> QED
    BY <1>2, <1>5, <1>6 DEF makes

\* A message that grows keeps its blocks.
LEMMA BlockStays ==
    ASSUME NEW old \in Seq(AnthropicMessages), NEW new \in Seq(AnthropicMessages),
           grownBlocks(old, new), NEW block, NEW m \in 1..Len(old), holds(old[m], block)
    PROVE  m \in 1..Len(new) /\ holds(new[m], block)
  <1>1. Len(old) \in Nat /\ Len(new) \in Nat /\ Len(old) <= Len(new)
    BY LenProperties DEF grownBlocks
  <1>2. m \in 1..Len(new)
    BY <1>1
  <1>3. Len(old[m].blocks) \in Nat /\ Len(new[m].blocks) \in Nat
    BY <1>2, MessageBlocks
  <1>4. PICK b \in 1..Len(old[m].blocks) : old[m].blocks[b] = block
    BY DEF holds
  <1>5. Len(old[m].blocks) <= Len(new[m].blocks) /\ new[m].blocks[b] = block
    BY <1>4 DEF grownBlocks
  <1>6. b \in 1..Len(new[m].blocks)
    BY <1>3, <1>5
  <1> QED
    BY <1>2, <1>5, <1>6 DEF holds

\* Every call that was read is in a message of either translation.
EchoInv ==
    \A k \in DOMAIN input : input[k].type \in Calls /\ input[k].name # <<>> =>
        /\ chatError = "" => \E m \in 1..Len(chat) : makes(chat[m], callOf(k, input[k]))
        /\ anthropicError = "" =>
              \E m \in 1..Len(anthropic) : holds(anthropic[m], toolUseBlock(k, input[k]))

\* A block that is appended is in the last message.
LEMMA BlockPut ==
    ASSUME NEW messages \in Seq(AnthropicMessages), NEW role \in {"user", "assistant"},
           NEW block \in Blocks, NEW more, more = appendMessage(messages, role, <<block>>)
    PROVE  \E m \in 1..Len(more) : holds(more[m], block)
  <1>1. PICK blocks \in Seq(Blocks) : blocks = <<block>>
    <2>1. <<block>> \in Seq(Blocks)
      OBVIOUS
    <2> QED
      BY <2>1, Zenon
  <1>2. blocks # <<>> /\ Len(blocks) = 1 /\ blocks[1] = block
    BY <1>1
  <1>3. more = appendMessage(messages, role, blocks)
    BY <1>1
  <1>0. joined(messages, role, blocks, more)
    BY <1>3, BlocksAppended
  <1>4. CASE messages # <<>> /\ messages[Len(messages)].role = role
    <2> DEFINE last == Len(messages)
               old == messages[last].blocks
    <2>1. /\ Len(more) = Len(messages) /\ Len(messages) \in Nat \ {0}
          /\ more[Len(messages)].role = role
          /\ more[Len(messages)].blocks = messages[Len(messages)].blocks \o blocks
          /\ \A n \in 1..Len(messages) - 1 : more[n] = messages[n]
      BY <1>0, <1>2, <1>4 DEF joined
    <2>2. last \in 1..last
      BY <2>1
    <2>3. old \in Seq(Blocks) /\ Len(old) \in Nat
      BY <2>2, MessageBlocks
    <2> HIDE DEF old
    <2>4. Len(old \o blocks) = Len(old) + 1 /\ (old \o blocks)[Len(old) + 1] = block
      BY <1>2, <2>3, ConcatProperties
    <2>5. Len(old) + 1 \in 1..Len(old \o blocks)
      BY <2>3, <2>4
    <2>6. holds(more[last], block)
      BY <2>1, <2>4, <2>5 DEF holds, old
    <2> QED
      BY <2>1, <2>2, <2>6
  <1>5. CASE ~(messages # <<>> /\ messages[Len(messages)].role = role)
    <2> DEFINE last == Len(messages)
    <2>1. /\ Len(more) = Len(messages) + 1 /\ Len(messages) \in Nat
          /\ more[Len(messages) + 1].role = role
          /\ more[Len(messages) + 1].blocks = blocks
          /\ \A n \in 1..Len(messages) : more[n] = messages[n]
      BY <1>0, <1>2, <1>5 DEF joined
    <2>2. holds(more[last + 1], block)
      BY <1>2, <2>1 DEF holds
    <2>3. last + 1 \in 1..Len(more)
      BY <2>1
    <2> QED
      BY <2>2, <2>3
  <1> QED
    BY <1>4, <1>5

\* A call that is read is put into a message of either translation.
LEMMA CallPut ==
    ASSUME DialogueTypes, NEW item \in Items, ToolCall(item)
    PROVE  /\ chatError = "" => \E m \in 1..Len(chat') : makes(chat'[m], callOf(here, item))
           /\ \E m \in 1..Len(anthropic') : holds(anthropic'[m], toolUseBlock(here, item))
  <1> DEFINE call == callOf(here, item)
             use == toolUseBlock(here, item)
             base == withPendingMedia(chat)
  <1>1. /\ item.type \in Calls /\ Read(item) /\ Chat(appendAssistantToolCall(base, call), <<>>)
        /\ Anthropic(appendMessage(anthropic, "assistant", <<use>>))
    BY Zenon DEF ToolCall, callOf
  <1>2. here \in 1..MaxItems
    BY <1>1, ReadExtends
  <1>3. item \in {it \in Items : it.type \in Calls}
    BY <1>1
  <1>4. call \in ChatCalls
    BY <1>2, <1>3 DEF ChatCalls
  <1>5. use \in Blocks
    BY <1>1, <1>2, EmptySeq, BlockTypes
  <1>6. base \in Seq(ChatMessages) /\ anthropic \in Seq(AnthropicMessages)
    BY PendingSent DEF DialogueTypes
  <1>7. ASSUME chatError = ""
        PROVE  \E m \in 1..Len(chat') : makes(chat'[m], call)
    <2>1. chat' = appendAssistantToolCall(base, call)
      BY <1>1, <1>7 DEF Chat
    <2> HIDE DEF base, call
    <2>2. Len(chat') \in Nat \ {0} /\ makes(chat'[Len(chat')], call)
      <3>1. PICK more : more = appendAssistantToolCall(base, call)
        OBVIOUS
      <3>2. Len(more) \in Nat \ {0} /\ makes(more[Len(more)], call)
        BY <1>4, <1>6, <3>1, CallAppended
      <3> QED
        BY <2>1, <3>1, <3>2
    <2>3. Len(chat') \in 1..Len(chat')
      BY <2>2
    <2> QED
      BY <2>2, <2>3
  <1> HIDE DEF use, call, base
  <1>8. anthropic' = appendMessage(anthropic, "assistant", <<use>>)
    BY <1>1 DEF Anthropic
  <1>9. \E m \in 1..Len(anthropic') : holds(anthropic'[m], use)
    <2>1. PICK role \in {"user", "assistant"} : role = "assistant"
      OBVIOUS
    <2>2. PICK more : more = appendMessage(anthropic, role, <<use>>)
      OBVIOUS
    <2>3. \E m \in 1..Len(more) : holds(more[m], use)
      BY <1>5, <1>6, <2>2, BlockPut
    <2> QED
      BY <1>8, <2>1, <2>2, <2>3
  <1> QED
    BY <1>7, <1>9 DEF call, use

\* What the items read before have been made into stays when messages grow.
LEMMA EchoStays ==
    ASSUME DialogueTypes, EchoInv,
           chat' \in Seq(ChatMessages), anthropic' \in Seq(AnthropicMessages),
           chatError' = "" => chatError = "" /\ grown(chat, chat'),
           anthropicError' = "" => anthropicError = "" /\ grownBlocks(anthropic, anthropic'),
           NEW k \in DOMAIN input, input'[k] = input[k],
           input[k].type \in Calls /\ input[k].name # <<>>
    PROVE  /\ chatError' = "" => \E m \in 1..Len(chat') : makes(chat'[m], callOf(k, input'[k]))
           /\ anthropicError' = "" =>
                 \E m \in 1..Len(anthropic') : holds(anthropic'[m], toolUseBlock(k, input'[k]))
  <1>1. chat \in Seq(ChatMessages) /\ anthropic \in Seq(AnthropicMessages)
    BY DEF DialogueTypes
  <1>2. PICK call, use : call = callOf(k, input[k]) /\ use = toolUseBlock(k, input[k])
    OBVIOUS
  <1>3. /\ chatError = "" => \E m \in 1..Len(chat) : makes(chat[m], call)
        /\ anthropicError = "" => \E m \in 1..Len(anthropic) : holds(anthropic[m], use)
    BY <1>2 DEF EchoInv
  <1>4. ASSUME chatError' = ""
        PROVE  \E m \in 1..Len(chat') : makes(chat'[m], call)
    <2>1. PICK m \in 1..Len(chat) : makes(chat[m], call)
      BY <1>3, <1>4
    <2>2. m \in 1..Len(chat') /\ makes(chat'[m], call)
      BY <1>1, <1>4, <2>1, CallStays
    <2> QED
      BY <2>2
  <1>5. ASSUME anthropicError' = ""
        PROVE  \E m \in 1..Len(anthropic') : holds(anthropic'[m], use)
    <2>1. PICK m \in 1..Len(anthropic) : holds(anthropic[m], use)
      BY <1>3, <1>5
    <2>2. m \in 1..Len(anthropic') /\ holds(anthropic'[m], use)
      BY <1>1, <1>5, <2>1, BlockStays
    <2> QED
      BY <2>2
  <1>6. call = callOf(k, input'[k]) /\ use = toolUseBlock(k, input'[k])
    BY <1>2
  <1> QED
    BY <1>4, <1>5, <1>6

\* A call that is in its message is what the upstream made.
LEMMA EchoTells ==
    ASSUME DialogueTypes, EchoInv
    PROVE  CallsEchoed
  <1> SUFFICES ASSUME NEW k \in DOMAIN input, input[k].type \in Calls, input[k].name # <<>>
               PROVE  /\ chatError = "" => \E m \in ToSet(chat) : \E call \in ToSet(m.calls) :
                            /\ call.item = k /\ call.name = input[k].name
                            /\ call.id = callIDOf(input[k])
                            /\ sentAsDeclared(input[k]) => call.arguments = input[k].sent
                      /\ anthropicError = "" =>
                            \E m \in ToSet(anthropic) : \E block \in ToSet(m.blocks) :
                               /\ block.type = "tool_use" /\ block.item = k
                               /\ block.name = input[k].name /\ block.id = callIDOf(input[k])
                               /\ sentAsDeclared(input[k]) /\ Parses(input[k].sent)
                                     => block.input = input[k].sent
    BY DEF CallsEchoed
  <1>1. /\ chat \in Seq(ChatMessages) /\ anthropic \in Seq(AnthropicMessages)
        /\ input[k] \in Items
    <2>1. input \in Seq(Items)
      BY DEF DialogueTypes
    <2>2. input[k] \in Items
      BY <2>1, LenProperties
    <2> QED
      BY <2>2 DEF DialogueTypes
  <1>2. sentAsDeclared(input[k]) =>
           /\ chatArguments(input[k]) = input[k].sent
           /\ Parses(input[k].sent) => anthropicInput(input[k]) = input[k].sent
    BY <1>1, ArgumentsRestored
  <1>3. ASSUME chatError = ""
        PROVE  \E m \in ToSet(chat) : \E call \in ToSet(m.calls) :
                  /\ call.item = k /\ call.name = input[k].name
                  /\ call.id = callIDOf(input[k])
                  /\ sentAsDeclared(input[k]) => call.arguments = input[k].sent
    <2>1. PICK call : call = callOf(k, input[k])
      OBVIOUS
    <2>2. PICK m \in 1..Len(chat) : makes(chat[m], call)
      BY <1>3, <2>1 DEF EchoInv
    <2>3. PICK c \in 1..Len(chat[m].calls) : chat[m].calls[c] = call
      BY <2>2 DEF makes
    <2>4. DOMAIN chat = 1..Len(chat) /\ DOMAIN chat[m].calls = 1..Len(chat[m].calls)
      BY <1>1, MessageCalls
    <2>5. chat[m] \in ToSet(chat) /\ call \in ToSet(chat[m].calls)
      BY <2>2, <2>3, <2>4 DEF ToSet
    <2>6. /\ call.item = k /\ call.name = input[k].name /\ call.id = callIDOf(input[k])
          /\ call.arguments = chatArguments(input[k])
      BY <2>1 DEF callOf
    <2> QED
      BY <1>2, <2>5, <2>6
  <1>4. ASSUME anthropicError = ""
        PROVE  \E m \in ToSet(anthropic) : \E block \in ToSet(m.blocks) :
                  /\ block.type = "tool_use" /\ block.item = k
                  /\ block.name = input[k].name /\ block.id = callIDOf(input[k])
                  /\ sentAsDeclared(input[k]) /\ Parses(input[k].sent)
                        => block.input = input[k].sent
    <2>1. PICK use : use = toolUseBlock(k, input[k])
      OBVIOUS
    <2>2. PICK m \in 1..Len(anthropic) : holds(anthropic[m], use)
      BY <1>4, <2>1 DEF EchoInv
    <2>3. PICK b \in 1..Len(anthropic[m].blocks) : anthropic[m].blocks[b] = use
      BY <2>2 DEF holds
    <2>4. /\ DOMAIN anthropic = 1..Len(anthropic)
          /\ DOMAIN anthropic[m].blocks = 1..Len(anthropic[m].blocks)
      BY <1>1, MessageBlocks
    <2>5. anthropic[m] \in ToSet(anthropic) /\ use \in ToSet(anthropic[m].blocks)
      BY <2>2, <2>3, <2>4 DEF ToSet
    <2>6. /\ use.type = "tool_use" /\ use.item = k /\ use.name = input[k].name
          /\ use.id = callIDOf(input[k]) /\ use.input = anthropicInput(input[k])
      BY <2>1 DEF toolUseBlock
    <2> QED
      BY <1>2, <2>5, <2>6
  <1> QED
    BY <1>3, <1>4

\* Whatever the dialogue, a call the client echoes goes back to the upstream
\* as the upstream made it, by either translation
\* (responses_request.go:316-344, 655-677).
THEOREM CallsComeBack == DialogueSpec => []CallsEchoed
  <1>1. DialogueInit => EchoInv
    <2> SUFFICES ASSUME DialogueInit PROVE EchoInv
      OBVIOUS
    <2>1. \A k \in DOMAIN input : FALSE
      <3>1. input \in Seq(Items) /\ Len(input) = 0
        BY EmptySeq DEF DialogueInit
      <3>2. DOMAIN input = 1..0
        BY <3>1, LenProperties
      <3> QED
        BY <3>2
    <2> QED
      BY <2>1 DEF EchoInv
  <1>2. DialogueTypes /\ EchoInv /\ [DialogueNext]_dialogueVars => EchoInv'
    <2> SUFFICES ASSUME DialogueTypes, EchoInv, [DialogueNext]_dialogueVars PROVE EchoInv'
      OBVIOUS
    <2>1. chat \in Seq(ChatMessages) /\ anthropic \in Seq(AnthropicMessages)
      BY DEF DialogueTypes
    <2>2. ASSUME NEW item \in Items, Taken(item)
          PROVE  EchoInv'
      <3>1. /\ Read(item) /\ chatError' = chatError
            /\ chat' \in Seq(ChatMessages) /\ grown(chat, chat')
        BY <2>2, ChatTaken
      <3>2. /\ anthropicError' = "" /\ anthropicError = ""
            /\ anthropic' \in Seq(AnthropicMessages) /\ grownBlocks(anthropic, anthropic')
        BY <2>2, AnthropicTaken
      <3>3. SUFFICES ASSUME NEW k \in DOMAIN input',
                            input'[k].type \in Calls, input'[k].name # <<>>
                     PROVE  /\ chatError' = "" =>
                                  \E m \in 1..Len(chat') : makes(chat'[m], callOf(k, input'[k]))
                            /\ anthropicError' = "" =>
                                  \E m \in 1..Len(anthropic') :
                                     holds(anthropic'[m], toolUseBlock(k, input'[k]))
        BY DEF EchoInv
      <3>4. CASE k \in DOMAIN input
        <4>1. input'[k] = input[k]
          BY <3>1, <3>4, ReadItems
        <4> QED
          BY <3>1, <3>2, <3>3, <3>4, <4>1, EchoStays
      <3>5. CASE k = here
        <4>1. input'[k] = item
          BY <3>1, <3>5, ReadItems
        <4>2. ToolCall(item)
          BY <2>2, <3>3, <4>1 DEF Taken, SkippedItem, ToolOutput, UserMessage, AssistantMessage,
                                  SystemMessage, Calls
        <4> QED
          BY <3>1, <3>5, <4>1, <4>2, CallPut
      <3> QED
        BY <3>1, <3>3, <3>4, <3>5, ReadItems
    <2>3. ASSUME NEW item \in Items, NotAnObject(item)
          PROVE  EchoInv'
      <3>1. /\ Read(item) /\ item.type = "scalar" /\ chatError' # "" /\ chat' = <<>>
            /\ UNCHANGED <<anthropic, anthropicError>>
        BY <2>3 DEF NotAnObject, ChatFails, Anthropic
      <3>2. chat' \in Seq(ChatMessages) /\ grownBlocks(anthropic, anthropic')
            /\ anthropic' \in Seq(AnthropicMessages)
        BY <2>1, <3>1, EmptySeq, GrownBlocksSame
      <3>3. SUFFICES ASSUME NEW k \in DOMAIN input',
                            input'[k].type \in Calls, input'[k].name # <<>>
                     PROVE  /\ chatError' = "" =>
                                  \E m \in 1..Len(chat') : makes(chat'[m], callOf(k, input'[k]))
                            /\ anthropicError' = "" =>
                                  \E m \in 1..Len(anthropic') :
                                     holds(anthropic'[m], toolUseBlock(k, input'[k]))
        BY DEF EchoInv
      <3>4. k \in DOMAIN input /\ input'[k] = input[k]
        <4>1. k # here
          <5>1. k = here => input'[k].type = "scalar"
            BY <3>1, ReadItems
          <5> QED
            BY <3>3, <5>1 DEF Calls
        <4> QED
          BY <3>1, <4>1, ReadItems
      <3> QED
        BY <3>1, <3>2, <3>3, <3>4, EchoStays
    <2>4. ASSUME NEW item \in Items, Refused(item)
          PROVE  EchoInv'
      <3>1. chatError' # "" /\ anthropicError' # ""
        BY <2>4 DEF Refused, ChatFails, AnthropicFails
      <3> QED
        BY <3>1 DEF EchoInv
    <2>5. CASE EndOfInput \/ UNCHANGED dialogueVars
      <3>1. /\ UNCHANGED <<input, chatError, anthropic, anthropicError>>
            /\ chat' = chat \/ chat' = withPendingMedia(chat)
        BY <2>5 DEF EndOfInput, Chat, dialogueVars, chatVars, anthropicVars
      <3>2. /\ chat' \in Seq(ChatMessages) /\ grown(chat, chat')
            /\ grownBlocks(anthropic, anthropic') /\ anthropic' \in Seq(AnthropicMessages)
        BY <2>1, <3>1, PendingSent, GrownSame, GrownBlocksSame
      <3>3. SUFFICES ASSUME NEW k \in DOMAIN input',
                            input'[k].type \in Calls, input'[k].name # <<>>
                     PROVE  /\ chatError' = "" =>
                                  \E m \in 1..Len(chat') : makes(chat'[m], callOf(k, input'[k]))
                            /\ anthropicError' = "" =>
                                  \E m \in 1..Len(anthropic') :
                                     holds(anthropic'[m], toolUseBlock(k, input'[k]))
        BY DEF EchoInv
      <3>4. k \in DOMAIN input /\ input'[k] = input[k]
        BY <3>1
      <3> QED
        BY <3>1, <3>2, <3>3, <3>4, EchoStays
    <2> QED
      BY <2>2, <2>3, <2>4, <2>5, DialogueSteps
  <1>3. DialogueTypes /\ EchoInv => CallsEchoed
    BY EchoTells
  <1> QED
    BY <1>1, <1>2, <1>3, DialogueInvariant, PTL DEF DialogueSpec

-----------------------------------------------------------------------------
(* Dialogue: turns of the Anthropic messages.                                *)

usedIn(m, id) ==
    \E b \in 1..Len(m.blocks) : m.blocks[b].type = "tool_use" /\ m.blocks[b].id = id
resultsOnly(m) == \A b \in 1..Len(m.blocks) : m.blocks[b].type = "tool_result"

\* The last message makes the call.
usedLast(messages, id) ==
    /\ Len(messages) \in 1..Len(messages) /\ messages[Len(messages)].role = "assistant"
    /\ usedIn(messages[Len(messages)], id)

\* The last message has results only, the one before makes the call.
resultsLast(messages, id) ==
    /\ Len(messages) - 1 \in 1..Len(messages) /\ messages[Len(messages)].role = "user"
    /\ resultsOnly(messages[Len(messages)]) /\ usedIn(messages[Len(messages) - 1], id)

alternates(messages) ==
    \A n \in 1..Len(messages) - 1 : messages[n].role # messages[n + 1].role

\* Roles alternate whatever is appended.
LEMMA JoinAlternates ==
    ASSUME NEW messages \in Seq(AnthropicMessages), NEW role, NEW blocks, NEW more,
           joined(messages, role, blocks, more), alternates(messages)
    PROVE  alternates(more)
  <1> DEFINE last == Len(messages)
  <1>1. last \in Nat
    BY LenProperties
  <1>2. CASE blocks = <<>>
    BY <1>2 DEF joined
  <1>3. CASE blocks # <<>> /\ messages # <<>> /\ messages[last].role = role
    <2>1. /\ Len(more) = last /\ last # 0 /\ more[last].role = role
          /\ \A n \in 1..last - 1 : more[n] = messages[n]
      BY <1>3 DEF joined
    <2>2. \A n \in 1..last - 1 : messages[n].role # messages[n + 1].role
      BY DEF alternates
    <2> HIDE DEF last
    <2>3. \A n \in 1..last - 1 : n + 1 = last \/ n + 1 \in 1..last - 1
      BY <1>1
    <2>4. \A n \in 1..last - 1 : more[n].role # more[n + 1].role
      BY <1>3, <2>1, <2>2, <2>3
    <2> QED
      BY <2>1, <2>4 DEF alternates
  <1>4. CASE blocks # <<>> /\ ~(messages # <<>> /\ messages[last].role = role)
    <2>1. /\ Len(more) = last + 1 /\ more[last + 1].role = role
          /\ \A n \in 1..last : more[n] = messages[n]
      BY <1>4 DEF joined
    <2>2. \A n \in 1..last - 1 : messages[n].role # messages[n + 1].role
      BY DEF alternates
    <2>3. last # 0 => messages[last].role # role
      BY <1>4, EmptySeq
    <2> HIDE DEF last
    <2>4. \A n \in 1..last : (n = last \/ (n \in 1..last - 1 /\ n + 1 \in 1..last))
      BY <1>1
    <2>5. last # 0 => last \in 1..last
      BY <1>1
    <2>6. ASSUME NEW n \in 1..last
          PROVE  more[n].role # more[n + 1].role
      <3>1. CASE n = last
        <4>1. last # 0
          BY <1>1, <3>1
        <4> QED
          BY <2>1, <2>3, <2>5, <3>1, <4>1
      <3>2. CASE n \in 1..last - 1 /\ n \in 1..last /\ n + 1 \in 1..last
        BY <2>1, <2>2, <3>2
      <3> QED
        BY <2>4, <3>1, <3>2
    <2>7. Len(more) - 1 = last
      BY <1>1, <2>1
    <2> QED
      BY <2>6, <2>7, Zenon DEF alternates
  <1> QED
    BY <1>2, <1>3, <1>4

filled(messages) == \A n \in 1..Len(messages) : messages[n].blocks # <<>>

\* No message is empty whatever is appended.
LEMMA JoinFilled ==
    ASSUME NEW messages \in Seq(AnthropicMessages), NEW role, NEW blocks \in Seq(Blocks),
           NEW more, joined(messages, role, blocks, more), filled(messages)
    PROVE  filled(more)
  <1> DEFINE last == Len(messages)
  <1>1. last \in Nat
    BY LenProperties
  <1>2. CASE blocks = <<>>
    BY <1>2 DEF joined
  <1>3. CASE blocks # <<>> /\ messages # <<>> /\ messages[last].role = role
    <2>1. /\ Len(more) = last /\ last # 0
          /\ more[last].blocks = messages[last].blocks \o blocks
          /\ \A n \in 1..last - 1 : more[n] = messages[n]
      BY <1>3 DEF joined
    <2>2. messages[last].blocks \o blocks # <<>>
      <3>1. last \in 1..last
        BY <1>1, <2>1
      <3>2. messages[last].blocks \in Seq(Blocks)
        BY <3>1, MessageBlocks
      <3>3. \A old \in Seq(Blocks) : old \o blocks # <<>>
        BY <1>3
      <3> QED
        BY <3>2, <3>3
    <2>3. \A n \in 1..last : messages[n].blocks # <<>>
      BY DEF filled
    <2> HIDE DEF last
    <2>4. \A n \in 1..last : n = last \/ n \in 1..last - 1
      BY <1>1
    <2> QED
      BY <2>1, <2>2, <2>3, <2>4 DEF filled
  <1>4. CASE blocks # <<>> /\ ~(messages # <<>> /\ messages[last].role = role)
    <2>1. /\ Len(more) = last + 1 /\ more[last + 1].blocks = blocks
          /\ \A n \in 1..last : more[n] = messages[n]
      BY <1>4 DEF joined
    <2>2. \A n \in 1..last : messages[n].blocks # <<>>
      BY DEF filled
    <2> HIDE DEF last
    <2>3. \A n \in 1..last + 1 : n = last + 1 \/ n \in 1..last
      BY <1>1
    <2> QED
      BY <1>4, <2>1, <2>2, <2>3 DEF filled
  <1> QED
    BY <1>2, <1>3, <1>4

\* Blocks joined to a message.
LEMMA BlocksJoined ==
    ASSUME NEW old \in Seq(Blocks), NEW blocks \in Seq(Blocks), NEW new, new = old \o blocks
    PROVE  /\ Len(new) = Len(old) + Len(blocks) /\ Len(old) \in Nat /\ Len(blocks) \in Nat
           /\ \A b \in 1..Len(old) : b \in 1..Len(new) /\ new[b] = old[b]
           /\ \A b \in 1..Len(new) :
                 b \in 1..Len(old) \/ \E c \in 1..Len(blocks) : new[b] = blocks[c]
  <1>1. /\ Len(old) \in Nat /\ Len(blocks) \in Nat /\ Len(new) = Len(old) + Len(blocks)
        /\ \A b \in 1..Len(old) + Len(blocks) :
              new[b] = IF b <= Len(old) THEN old[b] ELSE blocks[b - Len(old)]
    BY ConcatProperties, LenProperties
  <1>2. ASSUME NEW n \in Nat, NEW m \in Nat
        PROVE  /\ \A b \in 1..n : b \in 1..n + m /\ b <= n
               /\ \A b \in 1..n + m : b \in 1..n \/ (~(b <= n) /\ b - n \in 1..m)
    OBVIOUS
  <1>3. /\ \A b \in 1..Len(old) : b \in 1..Len(old) + Len(blocks) /\ b <= Len(old)
        /\ \A b \in 1..Len(old) + Len(blocks) :
              b \in 1..Len(old) \/ (~(b <= Len(old)) /\ b - Len(old) \in 1..Len(blocks))
    BY <1>1, <1>2, Zenon
  <1>4. \A b \in 1..Len(old) + Len(blocks) :
           b \in 1..Len(old) \/ \E c \in 1..Len(blocks) : new[b] = blocks[c]
    BY <1>1, <1>3
  <1> QED
    BY <1>1, <1>3, <1>4

\* What the assistant adds leaves the call in the last message.
LEMMA JoinAssistant ==
    ASSUME NEW messages \in Seq(AnthropicMessages), NEW id, usedLast(messages, id),
           NEW blocks \in Seq(Blocks), NEW role, role = "assistant",
           NEW more, joined(messages, role, blocks, more)
    PROVE  usedLast(more, id)
  <1> DEFINE last == Len(messages)
             old == messages[last].blocks
  <1>1. last \in 1..last /\ messages[last].role = "assistant"
    BY DEF usedLast
  <1>2. CASE blocks = <<>>
    BY <1>2 DEF joined
  <1>3. CASE blocks # <<>>
    <2>1. messages # <<>>
      BY <1>1, EmptySeq
    <2>2. /\ Len(more) = last /\ more[last].role = role
          /\ more[last].blocks = old \o blocks
      BY <1>1, <1>3, <2>1 DEF joined
    <2>3. old \in Seq(Blocks)
      BY <1>1, MessageBlocks
    <2>4. PICK b \in 1..Len(old) : old[b].type = "tool_use" /\ old[b].id = id
      BY DEF usedLast, usedIn
    <2>5. \A c \in 1..Len(old) : c \in 1..Len(more[last].blocks) /\ more[last].blocks[c] = old[c]
      BY <2>2, <2>3, BlocksJoined
    <2> HIDE DEF last, old
    <2>6. usedIn(more[last], id)
      BY <2>4, <2>5 DEF usedIn
    <2> QED
      BY <1>1, <2>2, <2>6 DEF usedLast
  <1> QED
    BY <1>2, <1>3

\* A call that is added is in the last message.
LEMMA JoinUse ==
    ASSUME NEW messages \in Seq(AnthropicMessages), NEW use \in Blocks, use.type = "tool_use",
           NEW blocks \in Seq(Blocks), blocks = <<use>>, NEW role, role = "assistant",
           NEW more, joined(messages, role, blocks, more)
    PROVE  usedLast(more, use.id)
  <1> DEFINE last == Len(messages)
             old == messages[last].blocks
  <1>1. blocks # <<>> /\ Len(blocks) = 1 /\ blocks[1] = use
    OBVIOUS
  <1>2. CASE messages # <<>> /\ messages[last].role = role
    <2>1. /\ Len(more) = last /\ last \in Nat \ {0} /\ more[last].role = role
          /\ more[last].blocks = old \o blocks
      BY <1>1, <1>2 DEF joined
    <2>2. last \in 1..last
      BY <2>1
    <2>3. old \in Seq(Blocks) /\ Len(old) \in Nat
      BY <2>2, MessageBlocks
    <2> HIDE DEF old, last
    <2>4. Len(old \o blocks) = Len(old) + 1 /\ (old \o blocks)[Len(old) + 1] = use
      BY <1>1, <2>3, ConcatProperties
    <2>5. Len(old) + 1 \in 1..Len(old \o blocks)
      BY <2>3, <2>4
    <2>6. usedIn(more[last], use.id)
      BY <2>1, <2>4, <2>5 DEF usedIn
    <2> QED
      BY <2>1, <2>2, <2>6 DEF usedLast
  <1>3. CASE ~(messages # <<>> /\ messages[last].role = role)
    <2>1. /\ Len(more) = last + 1 /\ last \in Nat /\ more[last + 1].role = role
          /\ more[last + 1].blocks = blocks
      BY <1>1, <1>3 DEF joined
    <2> HIDE DEF old, last
    <2>2. usedIn(more[last + 1], use.id)
      BY <1>1, <2>1 DEF usedIn
    <2>3. last + 1 \in 1..last + 1
      BY <2>1
    <2> QED
      BY <2>1, <2>2, <2>3 DEF usedLast
  <1> QED
    BY <1>2, <1>3

\* A result joins the results of the turn or opens their message.
LEMMA JoinResult ==
    ASSUME NEW messages \in Seq(AnthropicMessages), NEW id,
           usedLast(messages, id) \/ resultsLast(messages, id),
           NEW result \in Blocks, result.type = "tool_result",
           NEW blocks \in Seq(Blocks), blocks = <<result>>, NEW role, role = "user",
           NEW more, joined(messages, role, blocks, more)
    PROVE  resultsLast(more, id) /\ holds(more[Len(more)], result)
  <1> DEFINE last == Len(messages)
             old == messages[last].blocks
  <1>1. blocks # <<>> /\ Len(blocks) = 1 /\ blocks[1] = result
    OBVIOUS
  <1>2. CASE usedLast(messages, id)
    <2>1. last \in 1..last /\ messages[last].role = "assistant" /\ usedIn(messages[last], id)
      BY <1>2 DEF usedLast
    <2>2. /\ Len(more) = last + 1 /\ last \in Nat /\ more[last + 1].role = role
          /\ more[last + 1].blocks = blocks
          /\ \A n \in 1..last : more[n] = messages[n]
      BY <1>1, <2>1 DEF joined
    <2> HIDE DEF old, last
    <2>3. resultsOnly(more[last + 1]) /\ holds(more[last + 1], result)
      BY <1>1, <2>2 DEF resultsOnly, holds
    <2>4. usedIn(more[last], id)
      BY <2>1, <2>2
    <2>5. last + 1 - 1 = last /\ last \in 1..last + 1
      BY <2>1, <2>2
    <2> QED
      BY <2>2, <2>3, <2>4, <2>5 DEF resultsLast
  <1>3. CASE resultsLast(messages, id)
    <2>1. /\ last - 1 \in 1..last /\ messages[last].role = "user"
          /\ resultsOnly(messages[last]) /\ usedIn(messages[last - 1], id)
      BY <1>3 DEF resultsLast
    <2>2. last \in Nat /\ last \in 1..last /\ last # 0 /\ last - 1 \in 1..last - 1
      <3>1. last \in Nat
        BY LenProperties
      <3> HIDE DEF last
      <3> QED
        BY <2>1, <3>1
    <2>3. messages # <<>>
      BY <2>2, EmptySeq
    <2>4. /\ Len(more) = last /\ more[last].role = role
          /\ more[last].blocks = old \o blocks
          /\ \A n \in 1..last - 1 : more[n] = messages[n]
      BY <1>1, <2>1, <2>3 DEF joined
    <2>5. old \in Seq(Blocks) /\ Len(old) \in Nat
      BY <2>2, MessageBlocks
    <2>6. PICK new : new = old \o blocks
      OBVIOUS
    <2>7. /\ Len(new) = Len(old) + Len(blocks)
          /\ \A b \in 1..Len(old) : b \in 1..Len(new) /\ new[b] = old[b]
          /\ \A b \in 1..Len(new) :
                b \in 1..Len(old) \/ \E c \in 1..Len(blocks) : new[b] = blocks[c]
      BY <2>5, <2>6, BlocksJoined, SMTT(30)
    <2>8. \A b \in 1..Len(old) : old[b].type = "tool_result"
      BY <2>1 DEF resultsOnly
    <2>9. (old \o blocks)[Len(old) + 1] = result
      BY <1>1, <2>5, ConcatProperties
    <2> HIDE DEF old, last
    <2>10. \A c \in 1..Len(blocks) : blocks[c] = result
      BY <1>1
    <2>11. resultsOnly(more[last])
      BY <2>4, <2>6, <2>7, <2>8, <2>10 DEF resultsOnly
    <2>12. Len(old) + 1 \in 1..Len(new)
      BY <1>1, <2>5, <2>7
    <2>13. holds(more[last], result)
      BY <2>4, <2>6, <2>9, <2>12 DEF holds
    <2>14. more[last - 1] = messages[last - 1]
      BY <2>2, <2>4
    <2> QED
      BY <2>1, <2>4, <2>11, <2>13, <2>14 DEF resultsLast
  <1> QED
    BY <1>2, <1>3

\* What an item that is taken makes of the Anthropic messages.
LEMMA BlocksTaken ==
    ASSUME DialogueTypes, NEW item \in Items, Taken(item)
    PROVE  \/ anthropic' = anthropic /\ item.type \notin Calls /\ item.type # "output"
           \/ \E role \in {"user", "assistant"}, blocks \in Seq(Blocks) :
                 /\ joined(anthropic, role, blocks, anthropic')
                 /\ item.type \in Calls =>
                       role = "assistant" /\ blocks = <<toolUseBlock(here, item)>>
                 /\ item.type = "output" =>
                       role = "user" /\ blocks = <<toolResultBlock(here, item)>>
                 /\ item.type = "message" => role = item.role
                 /\ item.type # "reasoning"
  <1>1. Read(item)
    BY DEF Taken, SkippedItem, ToolCall, ToolOutput, UserMessage, AssistantMessage, SystemMessage
  <1>2. here \in 1..MaxItems /\ anthropic \in Seq(AnthropicMessages)
    BY <1>1, ReadExtends DEF DialogueTypes
  <1>3. ASSUME NEW role \in {"user", "assistant"}, NEW blocks \in Seq(Blocks),
               Anthropic(appendMessage(anthropic, role, blocks))
        PROVE  joined(anthropic, role, blocks, anthropic')
    <2>1. PICK more : more = appendMessage(anthropic, role, blocks)
      OBVIOUS
    <2>2. joined(anthropic, role, blocks, more)
      BY <1>2, <2>1, BlocksAppended
    <2>3. anthropic' = more
      BY <1>3, <2>1 DEF Anthropic
    <2> QED
      BY <2>2, <2>3
  <1>4. <<>> \in Seq(Atoms)
    OBVIOUS
  <1>5. CASE SkippedItem(item) \/ SystemMessage(item)
    BY <1>5 DEF SkippedItem, SystemMessage, Anthropic, Calls
  <1>6. CASE ToolCall(item)
    <2> DEFINE use == toolUseBlock(here, item)
    <2>1. item.type \in Calls /\ Anthropic(appendMessage(anthropic, "assistant", <<use>>))
      BY <1>6 DEF ToolCall
    <2>2. use \in Blocks
      BY <1>2, <1>4, <2>1, BlockTypes
    <2> HIDE DEF use
    <2>3. <<use>> \in Seq(Blocks)
      BY <2>2
    <2>4. PICK role \in {"user", "assistant"}, blocks \in Seq(Blocks) :
             role = "assistant" /\ blocks = <<use>>
      BY <2>3, Zenon
    <2>5. joined(anthropic, role, blocks, anthropic')
      BY <1>3, <2>1, <2>4
    <2>6. item.type # "output" /\ item.type # "message" /\ item.type # "reasoning"
      BY <2>1 DEF Calls
    <2> QED
      BY <2>4, <2>5, <2>6, Zenon DEF use
  <1>7. CASE ToolOutput(item)
    <2> DEFINE result == toolResultBlock(here, item)
    <2>1. item.type = "output" /\ Anthropic(appendMessage(anthropic, "user", <<result>>))
      BY <1>7 DEF ToolOutput
    <2>2. result \in Blocks
      BY <1>2, <1>4, <2>1, BlockTypes
    <2> HIDE DEF result
    <2>3. <<result>> \in Seq(Blocks)
      BY <2>2
    <2>4. PICK role \in {"user", "assistant"}, blocks \in Seq(Blocks) :
             role = "user" /\ blocks = <<result>>
      BY <2>3, Zenon
    <2>5. joined(anthropic, role, blocks, anthropic')
      BY <1>3, <2>1, <2>4
    <2>6. item.type \notin Calls /\ item.type # "message" /\ item.type # "reasoning"
      BY <2>1 DEF Calls
    <2> QED
      BY <2>4, <2>5, <2>6, Zenon DEF result
  <1>8. CASE UserMessage(item) \/ AssistantMessage(item)
    <2> DEFINE content == responsesContentToAnthropic(here, item.content)
    <2>1. item.type = "message"
      BY <1>8 DEF UserMessage, AssistantMessage
    <2>2. content \in Seq(Atoms)
      BY <1>2, <2>1, ContentTypes
    <2> DEFINE blocks == contentBlocks(content)
    <2>3. PICK role \in {"user", "assistant"} :
             role = item.role /\ Anthropic(appendMessage(anthropic, role, blocks))
      BY <1>8 DEF UserMessage, AssistantMessage
    <2> HIDE DEF content
    <2>4. blocks \in Seq(Blocks)
      BY <1>2, <2>2, BlockTypes
    <2> HIDE DEF blocks
    <2>5. joined(anthropic, role, blocks, anthropic')
      BY <1>3, <2>3, <2>4
    <2>6. item.type \notin Calls /\ item.type # "output" /\ item.type # "reasoning"
      BY <2>1 DEF Calls
    <2> QED
      BY <2>3, <2>4, <2>5, <2>6, Zenon
  <1> QED
    BY <1>5, <1>6, <1>7, <1>8 DEF Taken

callPhase(l) == ~isOutput(l) /\ (input[l].type = "message" => input[l].role # "user")
resultPhase(l) == isOutput(l) \/ input[l].type \in {"reasoning", "scalar"}

\* The last message makes the calls until the results come, and is theirs
\* from then on.
AnthropicTurnInv ==
    anthropicError = "" =>
        \A j \in 1..Len(input) : input[j].type \in Calls =>
           /\ (\A l \in j..Len(input) : callPhase(l)) => usedLast(anthropic, callIDOf(input[j]))
           /\ \A b \in j..Len(input) :
                 /\ \A l \in j..b : callPhase(l)
                 /\ \A l \in b + 1..Len(input) : resultPhase(l)
                 => \/ usedLast(anthropic, callIDOf(input[j]))
                    \/ resultsLast(anthropic, callIDOf(input[j]))

\* Intervals that end with the item just read.
LEMMA Intervals ==
    ASSUME NEW n \in Nat
    PROVE  /\ \A j \in 1..n + 1 : j = n + 1 \/ j \in 1..n
           /\ n + 1 \in 1..n + 1
           /\ \A j \in 1..n + 1 : n + 1 \in j..n + 1
           /\ \A j \in 1..n : n \in j..n /\ j \in 1..n + 1
           /\ \A j \in 1..n : \A l \in j..n : l \in 1..n /\ l \in j..n + 1
           /\ \A j \in 1..n : \A b \in j..n + 1 : b = n + 1 \/ b \in j..n
           /\ \A b \in n + 1..n + 1 : b = n + 1
           /\ \A j \in 1..n : \A b \in j..n :
                 /\ n + 1 \in b + 1..n + 1
                 /\ \A l \in j..b : l \in 1..n
                 /\ \A l \in b + 1..n : l \in 1..n /\ l \in b + 1..n + 1
  OBVIOUS

\* The turn's messages stay the last while nothing else is read.
LEMMA AnthropicTurnKept ==
    ASSUME DialogueTypes, AnthropicTurnInv, [DialogueNext]_dialogueVars
    PROVE  AnthropicTurnInv'
  <1> DEFINE N == Len(input)
             id(j) == callIDOf(input'[j])
             calling(l) == /\ input'[l].type # "output"
                           /\ input'[l].type = "message" => input'[l].role # "user"
             answering(l) == input'[l].type \in {"output", "reasoning", "scalar"}
  <1>1. ASSUME NEW item \in Items, Taken(item) \/ NotAnObject(item), anthropicError' = ""
        PROVE  AnthropicTurnInv'
    <2>1. Read(item)
      BY <1>1, ChatTaken DEF NotAnObject
    <2>2. /\ N \in Nat /\ Len(input') = N + 1 /\ here = N + 1 /\ here \in 1..MaxItems
          /\ input'[N + 1] = item /\ \A l \in 1..N : input'[l] = input[l]
          /\ anthropicError = ""
      BY <2>1, ReadExtends
    <2>3. anthropic \in Seq(AnthropicMessages)
      BY DEF DialogueTypes
    <2>4. \/ anthropic' = anthropic /\ item.type \notin Calls /\ item.type # "output"
          \/ \E role \in {"user", "assistant"}, blocks \in Seq(Blocks) :
                /\ joined(anthropic, role, blocks, anthropic')
                /\ item.type \in Calls =>
                      role = "assistant" /\ blocks = <<toolUseBlock(here, item)>>
                /\ item.type = "output" =>
                      role = "user" /\ blocks = <<toolResultBlock(here, item)>>
                /\ item.type = "message" => role = item.role
                /\ item.type # "reasoning"
      <3>1. CASE Taken(item)
        BY <3>1, BlocksTaken
      <3>2. CASE NotAnObject(item)
        BY <3>2 DEF NotAnObject, Anthropic, Calls
      <3> QED
        BY <1>1, <3>1, <3>2
    <2> HIDE DEF N
    <2>5. /\ \A j \in 1..N + 1 : j = N + 1 \/ j \in 1..N
          /\ N + 1 \in 1..N + 1
          /\ \A j \in 1..N + 1 : N + 1 \in j..N + 1
          /\ \A j \in 1..N : N \in j..N /\ j \in 1..N + 1
          /\ \A j \in 1..N : \A l \in j..N : l \in 1..N /\ l \in j..N + 1
          /\ \A j \in 1..N : \A b \in j..N + 1 : b = N + 1 \/ b \in j..N
          /\ \A b \in N + 1..N + 1 : b = N + 1
          /\ \A j \in 1..N : \A b \in j..N :
                /\ N + 1 \in b + 1..N + 1
                /\ \A l \in j..b : l \in 1..N
                /\ \A l \in b + 1..N : l \in 1..N /\ l \in b + 1..N + 1
      BY <2>2, Intervals
    <2>6. SUFFICES ASSUME NEW j \in 1..N + 1, input'[j].type \in Calls
                   PROVE  /\ (\A l \in j..N + 1 : calling(l)) => usedLast(anthropic', id(j))
                          /\ \A b \in j..N + 1 :
                                /\ \A l \in j..b : calling(l)
                                /\ \A l \in b + 1..N + 1 : answering(l)
                                => \/ usedLast(anthropic', id(j))
                                   \/ resultsLast(anthropic', id(j))
      BY <2>2 DEF AnthropicTurnInv, callPhase, resultPhase, isOutput
    <2>7. ASSUME \A l \in j..N + 1 : calling(l)
          PROVE  usedLast(anthropic', id(j))
      <3>1. calling(N + 1)
        BY <2>5, <2>7
      <3>2. item.type # "output" /\ (item.type = "message" => item.role # "user")
        BY <2>2, <3>1
      <3>3. CASE j = N + 1
        <4>1. item.type \in Calls
          BY <2>2, <2>6, <3>3
        <4>2. PICK role \in {"user", "assistant"}, blocks \in Seq(Blocks) :
                 /\ joined(anthropic, role, blocks, anthropic')
                 /\ role = "assistant" /\ blocks = <<toolUseBlock(here, item)>>
          BY <2>4, <4>1
        <4>3. toolUseBlock(here, item) \in Blocks
          BY <2>2, <4>1, EmptySeq, BlockTypes
        <4>4. PICK use \in Blocks : use = toolUseBlock(here, item)
          BY <4>3, Zenon
        <4>5. use.type = "tool_use" /\ use.id = callIDOf(item)
          BY <4>4 DEF toolUseBlock
        <4>6. usedLast(anthropic', use.id)
          BY <2>3, <4>2, <4>4, <4>5, JoinUse
        <4> QED
          BY <2>2, <3>3, <4>5, <4>6
      <3>4. CASE j \in 1..N
        <4>1. \A l \in j..N : input'[l] = input[l] /\ calling(l)
          BY <2>2, <2>5, <2>7, <3>4
        <4>2. \A l \in j..N : callPhase(l)
          BY <4>1 DEF callPhase, isOutput
        <4>3. input'[j] = input[j]
          BY <2>2, <3>4
        <4>4. usedLast(anthropic, id(j))
          BY <2>2, <2>6, <3>4, <4>2, <4>3 DEF AnthropicTurnInv, N
        <4>5. CASE anthropic' = anthropic
          BY <4>4, <4>5
        <4>6. CASE anthropic' # anthropic
          <5>1. PICK role \in {"user", "assistant"}, blocks \in Seq(Blocks) :
                   /\ joined(anthropic, role, blocks, anthropic')
                   /\ item.type \in Calls => role = "assistant"
                   /\ item.type = "message" => role = item.role
                   /\ item.type # "reasoning"
            BY <2>4, <4>6
          <5>2. item.type \in Calls \/ item.type = "message"
            BY <1>1, <3>2, <4>6, <5>1
               DEF Taken, SkippedItem, ToolCall, ToolOutput, UserMessage, AssistantMessage,
                   SystemMessage, NotAnObject, Anthropic
          <5>3. role = "assistant"
            BY <3>2, <5>1, <5>2
          <5> QED
            BY <2>3, <4>4, <5>1, <5>3, JoinAssistant
        <4> QED
          BY <4>5, <4>6
      <3> QED
        BY <2>5, <3>3, <3>4
    <2>8. ASSUME NEW b \in j..N + 1, \A l \in j..b : calling(l),
                 \A l \in b + 1..N + 1 : answering(l)
          PROVE  usedLast(anthropic', id(j)) \/ resultsLast(anthropic', id(j))
      <3>1. CASE b = N + 1
        BY <2>7, <2>8, <3>1
      <3>2. CASE b # N + 1
        <4>1. j \in 1..N /\ b \in j..N
          BY <2>5, <3>2
        <4>2. answering(N + 1)
          BY <2>5, <2>8, <4>1
        <4>3. item.type \in {"output", "reasoning", "scalar"}
          BY <2>2, <4>2
        <4>4. /\ \A l \in j..b : input'[l] = input[l] /\ calling(l)
              /\ \A l \in b + 1..N : input'[l] = input[l] /\ answering(l)
          BY <2>2, <2>5, <2>8, <4>1
        <4>5. /\ \A l \in j..b : callPhase(l)
              /\ \A l \in b + 1..N : resultPhase(l)
          BY <4>4 DEF callPhase, resultPhase, isOutput
        <4>6. input'[j] = input[j]
          BY <2>2, <4>1
        <4>7. usedLast(anthropic, id(j)) \/ resultsLast(anthropic, id(j))
          BY <2>2, <2>6, <4>1, <4>5, <4>6 DEF AnthropicTurnInv, N
        <4>8. CASE item.type = "output"
          <5>1. PICK role \in {"user", "assistant"}, blocks \in Seq(Blocks) :
                   /\ joined(anthropic, role, blocks, anthropic')
                   /\ role = "user" /\ blocks = <<toolResultBlock(here, item)>>
            BY <2>4, <4>8
          <5>2. toolResultBlock(here, item) \in Blocks
            BY <2>2, <4>8, EmptySeq, BlockTypes
          <5>3. PICK result \in Blocks : result = toolResultBlock(here, item)
            BY <5>2, Zenon
          <5>4. result.type = "tool_result"
            BY <5>3 DEF toolResultBlock
          <5> QED
            BY <2>3, <4>7, <5>1, <5>3, <5>4, JoinResult
        <4>9. CASE item.type # "output"
          <5>1. anthropic' = anthropic
            BY <1>1, <4>3, <4>9
               DEF Taken, SkippedItem, ToolCall, ToolOutput, UserMessage, AssistantMessage,
                   SystemMessage, NotAnObject, Anthropic, Calls
          <5> QED
            BY <4>7, <5>1
        <4> QED
          BY <4>8, <4>9
      <3> QED
        BY <3>1, <3>2
    <2> QED
      BY <2>7, <2>8
  <1>2. ASSUME NEW item \in Items, Refused(item)
        PROVE  AnthropicTurnInv'
    BY <1>2 DEF Refused, AnthropicFails, AnthropicTurnInv
  <1>3. CASE EndOfInput \/ UNCHANGED dialogueVars
    <2>1. UNCHANGED <<input, anthropic, anthropicError>>
      BY <1>3 DEF EndOfInput, dialogueVars, chatVars, anthropicVars
    <2>2. /\ Len(input') = Len(input) /\ anthropicError' = anthropicError
          /\ \A l : callPhase(l)' = callPhase(l) /\ resultPhase(l)' = resultPhase(l)
          /\ \A l : /\ usedLast(anthropic', callIDOf(input'[l]))
                          = usedLast(anthropic, callIDOf(input[l]))
                    /\ resultsLast(anthropic', callIDOf(input'[l]))
                          = resultsLast(anthropic, callIDOf(input[l]))
      BY <2>1, Zenon DEF callPhase, resultPhase, isOutput
    <2> QED
      BY <2>1, <2>2, Zenon DEF AnthropicTurnInv
  <1>4. CASE anthropicError' # ""
    BY <1>4 DEF AnthropicTurnInv
  <1> QED
    BY <1>1, <1>2, <1>3, <1>4, DialogueSteps

\* The output has become a result of the user's message behind the call's.
resultIn(messages, id, k) ==
    \E n \in 2..Len(messages) :
       /\ usedIn(messages[n - 1], id)
       /\ \E b \in 1..Len(messages[n].blocks) :
             /\ messages[n].blocks[b].id = id
             /\ messages[n].blocks[b].content[1].item = k
             /\ \A c \in 1..b : messages[n].blocks[c].type = "tool_result"

\* It stays so when messages grow.
LEMMA ResultStays ==
    ASSUME NEW old \in Seq(AnthropicMessages), NEW new \in Seq(AnthropicMessages),
           grownBlocks(old, new), NEW id, NEW k, resultIn(old, id, k)
    PROVE  resultIn(new, id, k)
  <1>1. PICK n \in 2..Len(old) :
           /\ usedIn(old[n - 1], id)
           /\ \E b \in 1..Len(old[n].blocks) :
                 /\ old[n].blocks[b].id = id /\ old[n].blocks[b].content[1].item = k
                 /\ \A c \in 1..b : old[n].blocks[c].type = "tool_result"
    BY DEF resultIn
  <1>2. PICK b \in 1..Len(old[n].blocks) :
           /\ old[n].blocks[b].id = id /\ old[n].blocks[b].content[1].item = k
           /\ \A c \in 1..b : old[n].blocks[c].type = "tool_result"
    BY <1>1
  <1>3. PICK u \in 1..Len(old[n - 1].blocks) :
           old[n - 1].blocks[u].type = "tool_use" /\ old[n - 1].blocks[u].id = id
    BY <1>1 DEF usedIn
  <1>4. Len(old) \in Nat /\ Len(new) \in Nat /\ Len(old) <= Len(new)
    BY LenProperties DEF grownBlocks
  <1>5. /\ n \in 1..Len(old) /\ n - 1 \in 1..Len(old) /\ n \in 1..Len(new) /\ n - 1 \in 1..Len(new)
        /\ n \in 2..Len(new)
    BY <1>4
  <1>6. /\ Len(old[n].blocks) \in Nat /\ Len(new[n].blocks) \in Nat
        /\ Len(old[n - 1].blocks) \in Nat /\ Len(new[n - 1].blocks) \in Nat
    BY <1>5, MessageBlocks
  <1>7. /\ Len(old[n].blocks) <= Len(new[n].blocks)
        /\ \A c \in 1..Len(old[n].blocks) : new[n].blocks[c] = old[n].blocks[c]
        /\ Len(old[n - 1].blocks) <= Len(new[n - 1].blocks)
        /\ \A c \in 1..Len(old[n - 1].blocks) : new[n - 1].blocks[c] = old[n - 1].blocks[c]
    BY <1>5 DEF grownBlocks
  <1>8. /\ u \in 1..Len(new[n - 1].blocks) /\ b \in 1..Len(new[n].blocks)
        /\ \A c \in 1..b : c \in 1..Len(old[n].blocks)
    <2>1. ASSUME NEW m \in Nat, NEW l \in Nat, m <= l
          PROVE  \A c \in 1..m : c \in 1..l /\ \A d \in 1..c : d \in 1..m
      BY <2>1
    <2> DEFINE p == Len(old[n].blocks)
               q == Len(old[n - 1].blocks)
    <2>2. \A c \in 1..p : c \in 1..Len(new[n].blocks) /\ \A d \in 1..c : d \in 1..p
      BY ONLY <1>6, <1>7, <2>1
    <2>3. \A c \in 1..q : c \in 1..Len(new[n - 1].blocks)
      BY ONLY <1>6, <1>7, <2>1
    <2> QED
      BY <2>2, <2>3
  <1>9. usedIn(new[n - 1], id)
    BY <1>3, <1>7, <1>8 DEF usedIn
  <1>10. /\ new[n].blocks[b].id = id /\ new[n].blocks[b].content[1].item = k
         /\ \A c \in 1..b : new[n].blocks[c].type = "tool_result"
    BY <1>2, <1>7, <1>8
  <1> QED
    BY <1>5, <1>8, <1>9, <1>10 DEF resultIn

\* What is read later does not change whether an output belongs to a turn.
LEMMA InTurnBefore ==
    ASSUME DialogueTypes, NEW item \in Items, Read(item), NEW k \in DOMAIN input, AnsweredInTurn(k)'
    PROVE  AnsweredInTurn(k) /\ input'[k] = input[k]
  <1>1. \A l \in DOMAIN input : input'[l] = input[l]
    BY ReadItems
  <1>2. DOMAIN input = 1..Len(input) /\ Len(input) \in Nat
    BY ReadExtends
  <1>3. \A l \in 1..k : input'[l] = input[l]
    BY <1>1, <1>2
  <1>4. k \in Nat
    BY <1>2
  <1>5. PICK j \in 1..k - 1 :
           /\ input'[k].type = "output"
           /\ input'[j].type \in Calls /\ callIDOf(input'[j]) = input'[k].id
           /\ \E b \in j..k - 1 :
                 /\ \A l \in j..b : /\ input'[l].type # "output"
                                    /\ input'[l].type = "message" => input'[l].role # "user"
                 /\ \A l \in b + 1..k :
                       input'[l].type = "output" \/ input'[l].type \in {"reasoning", "scalar"}
    BY DEF AnsweredInTurn, isOutput, isCall
  <1>6. PICK b \in j..k - 1 :
           /\ \A l \in j..b : /\ input'[l].type # "output"
                              /\ input'[l].type = "message" => input'[l].role # "user"
           /\ \A l \in b + 1..k :
                 input'[l].type = "output" \/ input'[l].type \in {"reasoning", "scalar"}
    BY <1>5
  <1>7. /\ j \in 1..k /\ k \in 1..k /\ \A l \in j..b : l \in 1..k
        /\ \A l \in b + 1..k : l \in 1..k
    BY <1>4
  <1> QED
    BY <1>3, <1>5, <1>6, <1>7 DEF AnsweredInTurn, isOutput, isCall

\* The output that is read becomes a result behind the call's message.
LEMMA OutputBecomesResult ==
    ASSUME DialogueTypes, AnthropicTurnInv, NEW item \in Items, ToolOutput(item),
           NEW k, k = here, AnsweredInTurn(k)'
    PROVE  resultIn(anthropic', item.id, k)
  <1> DEFINE N == Len(input)
  <1>1. item.type = "output" /\ Read(item) /\ Taken(item)
    BY DEF ToolOutput, Taken
  <1>2. /\ N \in Nat /\ here = N + 1 /\ here \in 1..MaxItems /\ anthropicError = ""
        /\ input'[N + 1] = item /\ \A l \in 1..N : input'[l] = input[l]
    BY <1>1, ReadExtends
  <1> HIDE DEF N
  <1>3. PICK j \in 1..k - 1 :
           /\ input'[j].type \in Calls /\ callIDOf(input'[j]) = input'[k].id
           /\ \E b \in j..k - 1 :
                 /\ \A l \in j..b : /\ input'[l].type # "output"
                                    /\ input'[l].type = "message" => input'[l].role # "user"
                 /\ \A l \in b + 1..k :
                       input'[l].type = "output" \/ input'[l].type \in {"reasoning", "scalar"}
    BY DEF AnsweredInTurn, isOutput, isCall
  <1>4. PICK b \in j..k - 1 :
           /\ \A l \in j..b : /\ input'[l].type # "output"
                              /\ input'[l].type = "message" => input'[l].role # "user"
           /\ \A l \in b + 1..k :
                 input'[l].type = "output" \/ input'[l].type \in {"reasoning", "scalar"}
    BY <1>3
  <1>5. /\ k = N + 1 /\ input'[k] = item /\ j \in 1..N /\ b \in j..N
        /\ \A l \in j..b : l \in 1..N
        /\ \A l \in b + 1..N : l \in 1..N /\ l \in b + 1..k
    <2>1. k = N + 1 /\ input'[k] = item
      BY <1>2, Zenon
    <2>2. N \in Nat /\ k = N + 1
      BY <1>2, <2>1, Zenon
    <2>3. ASSUME NEW p \in 1..N, NEW q \in p..N
          PROVE  /\ \A l \in p..q : l \in 1..N
                 /\ \A l \in q + 1..N : l \in 1..N /\ l \in q + 1..N + 1
      BY ONLY <2>2
    <2>4. k - 1 = N
      BY ONLY <2>2
    <2>5. j \in 1..N /\ b \in j..N
      BY <2>4, Zenon
    <2>6. /\ \A l \in j..b : l \in 1..N
          /\ \A l \in b + 1..N : l \in 1..N /\ l \in b + 1..N + 1
      BY <2>3, <2>5, Zenon
    <2> QED
      BY <2>1, <2>5, <2>6, Zenon
  <1>6. /\ \A l \in j..b : callPhase(l)
        /\ \A l \in b + 1..N : resultPhase(l)
    BY <1>2, <1>4, <1>5 DEF callPhase, resultPhase, isOutput
  <1>7. input'[j] = input[j] /\ callIDOf(input[j]) = item.id /\ input[j].type \in Calls
    BY <1>2, <1>3, <1>5
  <1>8. usedLast(anthropic, item.id) \/ resultsLast(anthropic, item.id)
    BY <1>2, <1>5, <1>6, <1>7 DEF AnthropicTurnInv, N
  <1>9. PICK role \in {"user", "assistant"}, blocks \in Seq(Blocks) :
           /\ joined(anthropic, role, blocks, anthropic')
           /\ role = "user" /\ blocks = <<toolResultBlock(here, item)>>
    BY <1>1, BlocksTaken
  <1>10. toolResultBlock(here, item) \in Blocks
    BY <1>1, <1>2, EmptySeq, BlockTypes
  <1>11. PICK result \in Blocks : result = toolResultBlock(here, item)
    BY <1>10, Zenon
  <1>12. /\ result.type = "tool_result" /\ result.id = item.id
         /\ result.content = responsesToolOutputToAnthropic(here, item.output)
    BY <1>11 DEF toolResultBlock
  <1>13. result.content[1].item = k
    BY <1>1, <1>2, <1>12, OutputTold
  <1>14. anthropic \in Seq(AnthropicMessages)
    BY DEF DialogueTypes
  <1>15. resultsLast(anthropic', item.id) /\ holds(anthropic'[Len(anthropic')], result)
    BY <1>8, <1>9, <1>11, <1>12, <1>14, JoinResult
  <1>16. PICK n : n = Len(anthropic')
    OBVIOUS
  <1>17. /\ n - 1 \in 1..n /\ usedIn(anthropic'[n - 1], item.id)
         /\ \A c \in 1..Len(anthropic'[n].blocks) : anthropic'[n].blocks[c].type = "tool_result"
    BY <1>15, <1>16 DEF resultsLast, resultsOnly
  <1>18. PICK c \in 1..Len(anthropic'[n].blocks) : anthropic'[n].blocks[c] = result
    BY <1>15, <1>16 DEF holds
  <1>19. n \in Nat /\ Len(anthropic'[n].blocks) \in Nat /\ n \in 2..n
    <2>1. anthropic' \in Seq(AnthropicMessages) /\ n \in Nat
      BY <1>1, <1>16, AnthropicTaken, LenProperties
    <2>2. n \in 1..n /\ n \in 2..n
      BY <1>17, <2>1
    <2> QED
      BY <1>16, <2>1, <2>2, MessageBlocks
  <1>20. \A d \in 1..c : d \in 1..Len(anthropic'[n].blocks)
    BY <1>19
  <1> QED
    BY <1>12, <1>13, <1>16, <1>17, <1>18, <1>19, <1>20 DEF resultIn

\* The turns of every dialogue's Anthropic messages.
THEOREM TurnsAwaitResults == DialogueSpec => []AnthropicTurnInv
  <1>1. DialogueInit => AnthropicTurnInv
    <2> SUFFICES ASSUME DialogueInit PROVE AnthropicTurnInv
      OBVIOUS
    <2>1. \A j \in 1..Len(input) : FALSE
      <3>1. Len(input) = 0
        BY EmptySeq DEF DialogueInit
      <3> QED
        BY <3>1
    <2> QED
      BY <2>1 DEF AnthropicTurnInv
  <1>2. DialogueTypes /\ AnthropicTurnInv /\ [DialogueNext]_dialogueVars => AnthropicTurnInv'
    BY AnthropicTurnKept
  <1> QED
    BY <1>1, <1>2, DialogueInvariant, PTL DEF DialogueSpec

\* Whatever the dialogue, no message is empty, roles alternate and an output of a
\* call's turn is among the results the next message of the user begins with
\* (responses_request.go:628, appendMessage).
THEOREM TurnsInPlace == DialogueSpec => []AnthropicTurns
  <1> DEFINE Inv == /\ alternates(anthropic) /\ filled(anthropic)
                    /\ \A k \in DOMAIN input : AnsweredInTurn(k) /\ anthropicError = "" =>
                          resultIn(anthropic, input[k].id, k)
  <1>1. DialogueInit => Inv
    <2> SUFFICES ASSUME DialogueInit PROVE Inv
      OBVIOUS
    <2>1. \A k \in DOMAIN input : FALSE
      <3>1. input \in Seq(Items) /\ Len(input) = 0
        BY EmptySeq DEF DialogueInit
      <3>2. DOMAIN input = 1..0
        BY <3>1, LenProperties
      <3> QED
        BY <3>2
    <2>2. /\ \A n \in 1..Len(anthropic) - 1 : FALSE
          /\ \A n \in 1..Len(anthropic) : FALSE
      <3>1. Len(anthropic) = 0
        BY EmptySeq DEF DialogueInit
      <3> QED
        BY <3>1
    <2> QED
      BY <2>1, <2>2 DEF alternates, filled
  <1>2. DialogueTypes /\ AnthropicTurnInv /\ Inv /\ [DialogueNext]_dialogueVars => Inv'
    <2> SUFFICES ASSUME DialogueTypes, AnthropicTurnInv, Inv, [DialogueNext]_dialogueVars
                 PROVE  Inv'
      OBVIOUS
    <2>1. anthropic \in Seq(AnthropicMessages)
      BY DEF DialogueTypes
    <2>2. ASSUME NEW item \in Items, Taken(item)
          PROVE  Inv'
      <3>1. Read(item)
        BY <2>2, ChatTaken
      <3>2. /\ anthropicError = "" /\ anthropic' \in Seq(AnthropicMessages)
            /\ grownBlocks(anthropic, anthropic')
        BY <2>2, AnthropicTaken
      <3>3. alternates(anthropic') /\ filled(anthropic')
        <4>1. anthropic' = anthropic \/
              \E role \in {"user", "assistant"}, blocks \in Seq(Blocks) :
                 joined(anthropic, role, blocks, anthropic')
          BY <2>2, BlocksTaken
        <4> QED
          BY <2>1, <4>1, JoinAlternates, JoinFilled
      <3>4. ASSUME NEW k \in DOMAIN input', AnsweredInTurn(k)'
            PROVE  resultIn(anthropic', input'[k].id, k)
        <4>1. CASE k \in DOMAIN input
          <5>1. AnsweredInTurn(k) /\ input'[k] = input[k]
            BY <3>1, <3>4, <4>1, InTurnBefore
          <5> QED
            BY <2>1, <3>2, <4>1, <5>1, ResultStays
        <4>2. CASE k = here
          <5>1. input'[k] = item
            BY <3>1, <4>2, ReadItems
          <5>2. item.type = "output"
            BY <3>4, <5>1 DEF AnsweredInTurn, isOutput
          <5>3. ToolOutput(item)
            BY <2>2, <5>2 DEF Taken, SkippedItem, ToolCall, UserMessage, AssistantMessage,
                              SystemMessage, Calls
          <5> QED
            BY <3>4, <4>2, <5>1, <5>3, OutputBecomesResult
        <4> QED
          BY <3>1, <3>4, <4>1, <4>2, ReadItems
      <3> QED
        BY <3>3, <3>4
    <2>3. ASSUME NEW item \in Items, NotAnObject(item)
          PROVE  Inv'
      <3>1. /\ Read(item) /\ item.type = "scalar"
            /\ UNCHANGED <<anthropic, anthropicError>>
        BY <2>3 DEF NotAnObject, Anthropic
      <3>2. ASSUME NEW k \in DOMAIN input', AnsweredInTurn(k)', anthropicError' = ""
            PROVE  resultIn(anthropic', input'[k].id, k)
        <4>1. k # here
          <5>1. k = here => input'[k].type = "scalar"
            BY <3>1, ReadItems
          <5> QED
            BY <3>2, <5>1 DEF AnsweredInTurn, isOutput
        <4>2. k \in DOMAIN input
          BY <3>1, <4>1, ReadItems
        <4>3. AnsweredInTurn(k) /\ input'[k] = input[k]
          BY <3>1, <3>2, <4>2, InTurnBefore
        <4> QED
          BY <3>1, <3>2, <4>2, <4>3
      <3> QED
        BY <3>1, <3>2
    <2>4. ASSUME NEW item \in Items, Refused(item)
          PROVE  Inv'
      <3>1. anthropicError' # "" /\ anthropic' = <<>>
        BY <2>4 DEF Refused, AnthropicFails
      <3>2. /\ \A n \in 1..Len(anthropic') - 1 : FALSE
            /\ \A n \in 1..Len(anthropic') : FALSE
        <4>1. PICK length : length = Len(anthropic')
          OBVIOUS
        <4>2. length = 0
          BY <3>1, <4>1, EmptySeq
        <4>3. (\A n \in 1..length - 1 : FALSE) /\ \A n \in 1..length : FALSE
          BY ONLY <4>2
        <4> QED
          BY <4>1, <4>3, Zenon
      <3> QED
        BY <3>1, <3>2 DEF alternates, filled
    <2>5. CASE EndOfInput \/ UNCHANGED dialogueVars
      <3>1. UNCHANGED <<input, anthropic, anthropicError>>
        BY <2>5 DEF EndOfInput, dialogueVars, chatVars, anthropicVars
      <3>2. \A k : AnsweredInTurn(k)' = AnsweredInTurn(k)
        BY <3>1, ZenonT(30) DEF AnsweredInTurn, isOutput, isCall
      <3> QED
        BY <3>1, <3>2
    <2> QED
      BY <2>2, <2>3, <2>4, <2>5, DialogueSteps
  <1>3. DialogueTypes /\ Inv => AnthropicTurns
    <2> SUFFICES ASSUME DialogueTypes, Inv PROVE AnthropicTurns
      OBVIOUS
    <2>1. anthropic \in Seq(AnthropicMessages)
      BY DEF DialogueTypes
    <2>2. ASSUME NEW n \in 2..Len(anthropic)
          PROVE  /\ DOMAIN anthropic[n].blocks = 1..Len(anthropic[n].blocks)
                 /\ DOMAIN anthropic[n - 1].blocks = 1..Len(anthropic[n - 1].blocks)
      <3>1. Len(anthropic) \in Nat
        BY <2>1, LenProperties
      <3>2. n \in 1..Len(anthropic) /\ n - 1 \in 1..Len(anthropic)
        BY ONLY <3>1
      <3> QED
        BY <2>1, <3>2, MessageBlocks
    <2>3. ASSUME NEW k \in DOMAIN input, AnsweredInTurn(k), anthropicError = ""
          PROVE  \E n \in 2..Len(anthropic) :
                    /\ \E block \in ToSet(anthropic[n - 1].blocks) :
                          block.type = "tool_use" /\ block.id = input[k].id
                    /\ \E b \in DOMAIN anthropic[n].blocks :
                          /\ anthropic[n].blocks[b].id = input[k].id
                          /\ anthropic[n].blocks[b].content[1].item = k
                          /\ \A c \in 1..b : anthropic[n].blocks[c].type = "tool_result"
      <3>1. resultIn(anthropic, input[k].id, k)
        BY <2>3
      <3>2. PICK n \in 2..Len(anthropic) :
               /\ usedIn(anthropic[n - 1], input[k].id)
               /\ \E b \in 1..Len(anthropic[n].blocks) :
                     /\ anthropic[n].blocks[b].id = input[k].id
                     /\ anthropic[n].blocks[b].content[1].item = k
                     /\ \A c \in 1..b : anthropic[n].blocks[c].type = "tool_result"
        BY <3>1 DEF resultIn
      <3>3. \E block \in ToSet(anthropic[n - 1].blocks) :
               block.type = "tool_use" /\ block.id = input[k].id
        BY <2>2, <3>2 DEF usedIn, ToSet
      <3> QED
        BY <2>2, <3>2, <3>3
    <2>4. DOMAIN anthropic = 1..Len(anthropic)
      BY <2>1, LenProperties
    <2> QED
      BY <2>3, <2>4 DEF AnthropicTurns, alternates, filled
  <1> QED
    BY <1>1, <1>2, <1>3, DialogueInvariant, TurnsAwaitResults, PTL DEF DialogueSpec
-----------------------------------------------------------------------------
(* Dialogue: the order of what is told.                                      *)

Triples == Nat \X Nat \X Nat

\* The one may be told before the other.
tellable(items, a, b) ==
    /\ origin(a) # origin(b)
    /\ a.item > b.item => \A k \in b.item..a.item : items[k].type = "output"
    /\ a.item = b.item => (a.part < b.part \/ items[a.item].type = "output")

ordered(items, atoms) ==
    \A p, q \in DOMAIN atoms : before(p, q) => tellable(items, atoms[p], atoms[q])

\* A sequence told from its beginning.
tells(items, s) == \A j, k \in 1..Len(s) : j < k => tellable(items, s[j], s[k])

\* What has been told stays, and the sequence is told behind it.
extends(old, new, more) ==
    \E at \in [1..Len(more) -> DOMAIN new] :
       /\ \A k \in 1..Len(more) : new[at[k]] = more[k]
       /\ \A j, k \in 1..Len(more) : j < k => before(at[j], at[k])
       /\ \A p \in DOMAIN old : /\ p \in DOMAIN new /\ new[p] = old[p]
                                /\ \A k \in 1..Len(more) : before(p, at[k])
       /\ \A q \in DOMAIN new : q \in DOMAIN old \/ \E k \in 1..Len(more) : q = at[k]

\* Places come in one order.
LEMMA PlacesOrdered ==
    ASSUME NEW p \in Triples, NEW q \in Triples, before(p, q)
    PROVE  p # q /\ ~before(q, p)
  <1>1. /\ p[1] \in Nat /\ p[2] \in Nat /\ p[3] \in Nat
        /\ q[1] \in Nat /\ q[2] \in Nat /\ q[3] \in Nat
    BY DEF Triples
  <1> QED
    BY <1>1 DEF before

\* What may follow all that was told keeps the order.
LEMMA OrderExtended ==
    ASSUME NEW items, NEW old, NEW new, NEW more, Len(more) \in Nat,
           DOMAIN new \subseteq Triples, extends(old, new, more),
           ordered(items, old), tells(items, more),
           \A p \in DOMAIN old : \A k \in 1..Len(more) : tellable(items, old[p], more[k])
    PROVE  ordered(items, new)
  <1>1. PICK at \in [1..Len(more) -> DOMAIN new] :
           /\ \A k \in 1..Len(more) : new[at[k]] = more[k]
           /\ \A j, k \in 1..Len(more) : j < k => before(at[j], at[k])
           /\ \A p \in DOMAIN old : /\ p \in DOMAIN new /\ new[p] = old[p]
                                    /\ \A k \in 1..Len(more) : before(p, at[k])
           /\ \A q \in DOMAIN new : q \in DOMAIN old \/ \E k \in 1..Len(more) : q = at[k]
    BY DEF extends
  <1>2. SUFFICES ASSUME NEW p \in DOMAIN new, NEW q \in DOMAIN new, before(p, q)
                 PROVE  tellable(items, new[p], new[q])
    BY DEF ordered
  <1>3. p # q /\ ~before(q, p)
    BY <1>2, PlacesOrdered
  <1>4. CASE p \in DOMAIN old /\ q \in DOMAIN old
    BY <1>1, <1>2, <1>4 DEF ordered
  <1>5. ASSUME NEW k \in 1..Len(more), p \in DOMAIN old, q = at[k]
        PROVE  tellable(items, new[p], new[q])
    BY <1>1, <1>5
  <1>6. ASSUME NEW k \in 1..Len(more), p = at[k]
        PROVE  q \notin DOMAIN old
    BY <1>1, <1>3, <1>6
  <1>7. ASSUME NEW j \in 1..Len(more), NEW k \in 1..Len(more), p = at[j], q = at[k]
        PROVE  tellable(items, new[p], new[q])
    <2>1. j # k /\ ~(k < j)
      BY <1>1, <1>3, <1>7
    <2>2. j < k
      BY <2>1
    <2> QED
      BY <1>1, <1>7, <2>2 DEF tells
  <1> QED
    BY <1>1, <1>4, <1>5, <1>6, <1>7

\* Atoms told somewhere, after something more has been told.
LEMMA ValuesExtended ==
    ASSUME NEW old, NEW new, NEW more, extends(old, new, more), NEW a
    PROVE  (\E q \in DOMAIN new : new[q] = a)
              <=> (\E p \in DOMAIN old : old[p] = a) \/ (\E k \in 1..Len(more) : more[k] = a)
  <1>1. PICK at \in [1..Len(more) -> DOMAIN new] :
           /\ \A k \in 1..Len(more) : new[at[k]] = more[k]
           /\ \A p \in DOMAIN old : p \in DOMAIN new /\ new[p] = old[p]
           /\ \A q \in DOMAIN new : q \in DOMAIN old \/ \E k \in 1..Len(more) : q = at[k]
    BY DEF extends
  <1>2. \A k \in 1..Len(more) : at[k] \in DOMAIN new
    BY <1>1
  <1> QED
    BY <1>1, <1>2

-----------------------------------------------------------------------------

\* The places of Chat messages' contents.
placedChat(messages) ==
    [place \in UNION {{<<n, 1, p>> : p \in DOMAIN messages[n].content} : n \in DOMAIN messages} |->
        messages[place[1]].content[place[3]]]

\* A place is a message and a place in its content.
LEMMA ChatPlaces ==
    ASSUME NEW messages \in Seq(ChatMessages)
    PROVE  /\ DOMAIN placedChat(messages) \subseteq Triples
           /\ \A n \in 1..Len(messages) : \A p \in 1..Len(messages[n].content) :
                 /\ <<n, 1, p>> \in DOMAIN placedChat(messages)
                 /\ placedChat(messages)[<<n, 1, p>>] = messages[n].content[p]
           /\ \A q \in DOMAIN placedChat(messages) :
                 \E n \in 1..Len(messages) : \E p \in 1..Len(messages[n].content) : q = <<n, 1, p>>
  <1> DEFINE D == UNION {{<<n, 1, p>> : p \in DOMAIN messages[n].content} : n \in DOMAIN messages}
  <1>1. DOMAIN messages = 1..Len(messages) /\ Len(messages) \in Nat
    BY LenProperties
  <1>2. \A n \in 1..Len(messages) : /\ DOMAIN messages[n].content = 1..Len(messages[n].content)
                                    /\ Len(messages[n].content) \in Nat
    BY MessageCalls, LenProperties
  <1>3. \A q \in D : \E n \in 1..Len(messages) : \E p \in 1..Len(messages[n].content) :
           q = <<n, 1, p>>
    BY <1>1, <1>2
  <1>4. \A n \in 1..Len(messages) : \A p \in 1..Len(messages[n].content) : <<n, 1, p>> \in D
    BY <1>1, <1>2
  <1>5. D \subseteq Triples
    <2> SUFFICES ASSUME NEW q \in D PROVE q \in Triples
      OBVIOUS
    <2>0. PICK n \in 1..Len(messages) : \E p \in 1..Len(messages[n].content) : q = <<n, 1, p>>
      BY <1>3
    <2>1. PICK p \in 1..Len(messages[n].content) : q = <<n, 1, p>>
      BY <2>0
    <2>2. n \in Nat /\ p \in Nat /\ 1 \in Nat
      BY <1>1, <1>2, <2>0, <2>1
    <2> QED
      BY <2>1, <2>2 DEF Triples
  <1>6. placedChat(messages) = [place \in D |-> messages[place[1]].content[place[3]]]
    BY DEF placedChat
  <1> HIDE DEF D
  <1>7. DOMAIN placedChat(messages) = D
    BY <1>6
  <1>8. ASSUME NEW n \in 1..Len(messages), NEW p \in 1..Len(messages[n].content)
        PROVE  placedChat(messages)[<<n, 1, p>>] = messages[n].content[p]
    BY <1>4, <1>6
  <1> QED
    BY <1>3, <1>4, <1>5, <1>7, <1>8

\* What is added to the last message, or is a message of its own, is told behind
\* what was told before.
LEMMA ContentAdded ==
    ASSUME NEW messages \in Seq(ChatMessages), NEW more \in Seq(ChatMessages),
           NEW content \in Seq(Atoms), NEW n \in Nat, NEW o \in Nat,
           n = Len(more), n > 0, Len(messages) \in {n - 1, n},
           \A l \in 1..n - 1 : more[l].content = messages[l].content,
           Len(messages) = n => o = Len(messages[n].content),
           Len(messages) # n => o = 0,
           Len(more[n].content) = o + Len(content),
           \A k \in 1..o : more[n].content[k] = messages[n].content[k],
           \A k \in 1..Len(content) : more[n].content[o + k] = content[k]
    PROVE  extends(placedChat(messages), placedChat(more), content)
  <1> DEFINE old == placedChat(messages)
             new == placedChat(more)
             len == Len(content)
             at == [k \in 1..len |-> <<n, 1, o + k>>]
  <1>1. len \in Nat /\ n \in 1..n /\ Len(messages) \in Nat
    BY LenProperties
  <1>2. \A k \in 1..len : /\ <<n, 1, o + k>> \in DOMAIN new
                          /\ new[<<n, 1, o + k>>] = content[k]
    <2> TAKE k \in 1..len
    <2>1. o + k \in 1..Len(more[n].content)
      BY <1>1
    <2> QED
      BY <1>1, <2>1, ChatPlaces
  <1>3. \A j, k \in 1..len : j < k => before(at[j], at[k])
    BY <1>1 DEF before
  <1>4. ASSUME NEW q \in DOMAIN old
        PROVE  /\ q \in DOMAIN new /\ new[q] = old[q]
               /\ \A k \in 1..len : before(q, at[k])
    <2>0. PICK l \in 1..Len(messages) : \E p \in 1..Len(messages[l].content) : q = <<l, 1, p>>
      BY ChatPlaces
    <2>1. PICK p \in 1..Len(messages[l].content) : q = <<l, 1, p>>
      BY <2>0
    <2>2. old[q] = messages[l].content[p]
      BY <2>1, ChatPlaces
    <2>3. l \in Nat /\ l \in 1..n /\ Len(messages[l].content) \in Nat /\ p \in Nat
      <3>1. Len(messages[l].content) \in Nat
        BY MessageCalls, LenProperties
      <3>2. l \in Nat /\ l \in 1..n
        BY <1>1, <2>1
      <3> QED
        BY <2>1, <3>1, <3>2
    <2>4. CASE l = n
      <3>1. Len(messages) = n /\ o = Len(messages[n].content) /\ p \in 1..o
        BY <1>1, <2>1, <2>4
      <3>2. p \in 1..Len(more[n].content) /\ more[n].content[p] = messages[n].content[p] /\ p <= o
        BY <1>1, <3>1
      <3>3. q \in DOMAIN new /\ new[q] = more[n].content[p]
        BY <1>1, <2>1, <2>4, <3>2, ChatPlaces
      <3>4. \A k \in 1..len : before(q, at[k])
        BY <1>1, <2>1, <2>3, <2>4, <3>2 DEF before
      <3> QED
        BY <2>2, <2>4, <3>2, <3>3, <3>4
    <2>5. CASE l # n
      <3>1. l \in 1..n - 1 /\ l < n
        BY <2>3, <2>5
      <3>2. more[l].content = messages[l].content
        BY <3>1
      <3>3. q \in DOMAIN new /\ new[q] = more[l].content[p]
        BY <2>1, <2>3, <3>2, ChatPlaces
      <3>4. \A k \in 1..len : before(q, at[k])
        BY <1>1, <2>1, <2>3, <3>1 DEF before
      <3> QED
        BY <2>2, <3>2, <3>3, <3>4
    <2> QED
      BY <2>4, <2>5
  <1>5. ASSUME NEW q \in DOMAIN new
        PROVE  q \in DOMAIN old \/ \E k \in 1..len : q = at[k]
    <2>0. PICK l \in 1..n : \E p \in 1..Len(more[l].content) : q = <<l, 1, p>>
      BY ChatPlaces
    <2>1. PICK p \in 1..Len(more[l].content) : q = <<l, 1, p>>
      BY <2>0
    <2>2. l \in Nat /\ Len(more[l].content) \in Nat /\ p \in Nat
      BY <2>1, MessageCalls, LenProperties
    <2>3. CASE l # n
      <3>1. l \in 1..n - 1 /\ l \in 1..Len(messages)
        BY <1>1, <2>2, <2>3
      <3>2. p \in 1..Len(messages[l].content)
        BY <2>1, <3>1
      <3> QED
        BY <2>1, <3>1, <3>2, ChatPlaces
    <2>4. CASE l = n /\ p <= o
      <3>1. Len(messages) = n /\ o = Len(messages[n].content)
        BY <2>1, <2>2, <2>4
      <3>2. n \in 1..Len(messages) /\ p \in 1..Len(messages[n].content)
        BY <1>1, <2>1, <2>2, <2>4, <3>1
      <3> QED
        BY <2>1, <2>4, <3>2, ChatPlaces
    <2>5. CASE l = n /\ p > o
      <3>1. p \in 1..o + len
        BY <2>1, <2>5
      <3>2. p - o \in 1..len /\ o + (p - o) = p
        BY <1>1, <2>2, <2>5, <3>1
      <3>3. at[p - o] = <<n, 1, p>>
        BY <3>2
      <3> QED
        BY <2>1, <2>5, <3>2, <3>3
    <2>6. p <= o \/ p > o
      BY <2>2
    <2> QED
      BY <2>3, <2>4, <2>5, <2>6
  <1>6. at \in [1..len -> DOMAIN new] /\ \A k \in 1..len : new[at[k]] = content[k]
    BY <1>2
  <1> HIDE DEF old, new, at
  <1>7. extends(old, new, content)
    BY <1>3, <1>4, <1>5, <1>6 DEF extends
  <1> QED
    BY <1>7 DEF old, new

-----------------------------------------------------------------------------
(* What an invariant says of all that was told: told so far, and held back.  *)

\* Every atom is of an item read, the order is kept, and what is held back may
\* be told at any time, as long as outputs are read.
Kept(items, n, atoms, held) ==
    /\ \A a \in Range(atoms) \cup Range(held) : a.item \in 1..n
    /\ ordered(items, atoms)
    /\ tells(items, held)
    /\ \A a \in Range(atoms) : \A b \in Range(held) : tellable(items, a, b)
    /\ \A b \in Range(held) : \A k \in b.item..n : items[k].type = "output"

\* Atoms of one item, in the order of its parts.
rising(s, i) ==
    /\ \A k \in 1..Len(s) : s[k].item = i /\ s[k].part \in Nat
    /\ \A j, k \in 1..Len(s) : j < k => s[j].part < s[k].part

\* The elements of a sequence.
LEMMA Elements ==
    ASSUME NEW S, NEW s \in Seq(S)
    PROVE  /\ Len(s) \in Nat /\ \A k \in 1..Len(s) : s[k] \in Range(s)
           /\ \A a \in Range(s) : \E k \in 1..Len(s) : s[k] = a
           /\ Range(s) \subseteq S
  <1>1. DOMAIN s = 1..Len(s) /\ Len(s) \in Nat /\ \A k \in 1..Len(s) : s[k] \in S
    BY LenProperties
  <1> QED
    BY <1>1 DEF Range

\* Nothing has no indices.
LEMMA NoIndices == DOMAIN <<>> = {}
  <1>1. <<>> \in Seq({}) /\ Len(<<>>) = 0
    BY EmptySeq
  <1> QED
    BY <1>1

\* Nothing has no elements.
LEMMA NoElements == Range(<<>>) = {} /\ \A items : tells(items, <<>>)
  <1>1. <<>> \in Seq({}) /\ Len(<<>>) = 0
    BY EmptySeq
  <1>2. Range(<<>>) = {}
    <2>1. DOMAIN <<>> = {}
      BY <1>1
    <2> QED
      BY <2>1, Zenon DEF Range
  <1> QED
    BY <1>1, <1>2 DEF tells

\* Elements of two sequences, one behind the other.
LEMMA ElementsOfBoth ==
    ASSUME NEW s \in Seq(Atoms), NEW t \in Seq(Atoms)
    PROVE  Range(s \o t) = Range(s) \cup Range(t)
  <1> DEFINE st == s \o t
             m == Len(s)
             n == Len(t)
  <1>1. /\ st \in Seq(Atoms) /\ Len(st) = m + n /\ m \in Nat /\ n \in Nat
        /\ \A k \in 1..m + n : st[k] = IF k <= m THEN s[k] ELSE t[k - m]
    BY ConcatProperties, LenProperties
  <1>2. /\ \A a : a \in Range(st) <=> \E k \in 1..Len(st) : st[k] = a
        /\ \A a : a \in Range(s) <=> \E k \in 1..m : s[k] = a
        /\ \A a : a \in Range(t) <=> \E k \in 1..n : t[k] = a
    <2>1. \A u \in Seq(Atoms) : \A a : a \in Range(u) <=> \E k \in 1..Len(u) : u[k] = a
      BY Elements
    <2> QED
      BY <1>1, <2>1
  <1> HIDE DEF m, n, st
  <1>3. \A k \in 1..m : k \in 1..m + n /\ st[k] = s[k]
    BY <1>1
  <1>4. \A k \in 1..n : m + k \in 1..m + n /\ st[m + k] = t[k]
    <2> TAKE k \in 1..n
    <2>1. m + k \in 1..m + n /\ ~(m + k <= m) /\ m + k - m = k
      BY <1>1
    <2> QED
      BY <1>1, <2>1
  <1>5. \A k \in 1..m + n : k \in 1..m \/ (k - m \in 1..n /\ st[k] = t[k - m])
    BY <1>1
  <1>6. \A a : a \in Range(st) <=> a \in Range(s) \/ a \in Range(t)
    BY <1>1, <1>2, <1>3, <1>4, <1>5
  <1>7. Range(st) = Range(s) \cup Range(t)
    BY <1>6
  <1> QED
    BY <1>7 DEF st

\* The same, of a sequence by its name.
LEMMA JoinedElements ==
    ASSUME NEW s \in Seq(Atoms), NEW t \in Seq(Atoms), NEW st, st = s \o t
    PROVE  Range(st) = Range(s) \cup Range(t)
  BY ElementsOfBoth, Zenon

\* What has been told is what was told before and what was added.
LEMMA RangeExtended ==
    ASSUME NEW old, NEW new, NEW S, NEW more \in Seq(S), extends(old, new, more)
    PROVE  Range(new) = Range(old) \cup Range(more)
  <1>1. \A a : a \in Range(new) <=> a \in Range(old) \/ \E k \in 1..Len(more) : more[k] = a
    <2>1. ASSUME NEW a
          PROVE  (\E q \in DOMAIN new : new[q] = a)
                    <=> (\E p \in DOMAIN old : old[p] = a) \/ (\E k \in 1..Len(more) : more[k] = a)
      BY ValuesExtended
    <2>2. \A f, a : a \in Range(f) <=> \E p \in DOMAIN f : f[p] = a
      BY DEF Range
    <2> QED
      BY <2>1, <2>2, Zenon
  <1>2. \A a : a \in Range(more) <=> \E k \in 1..Len(more) : more[k] = a
    BY Elements
  <1> QED
    BY <1>1, <1>2

\* Order between atoms.
LEMMA Tellable ==
    ASSUME NEW items, NEW a \in Atoms, NEW b \in Atoms
    PROVE  /\ a.item < b.item => tellable(items, a, b)
           /\ a.item = b.item /\ a.part < b.part => tellable(items, a, b)
           /\ a.item = b.item /\ a.part # b.part /\ items[a.item].type = "output"
                 => tellable(items, a, b)
           /\ a.item > b.item /\ (\A k \in b.item..a.item : items[k].type = "output")
                 => tellable(items, a, b)
  <1>1. a.item \in Nat /\ b.item \in Nat /\ a.part \in Nat /\ b.part \in Nat
    BY ItemsAssumption DEF Atoms
  <1>2. origin(a) = origin(b) => a.item = b.item /\ a.part = b.part
    BY DEF origin
  <1> QED
    BY <1>1, <1>2 DEF tellable

\* What is held back is sent on.
LEMMA KeptFlushed ==
    ASSUME NEW items, NEW n, NEW old, NEW new, NEW held \in Seq(Atoms),
           DOMAIN new \subseteq Triples, extends(old, new, held), Kept(items, n, old, held)
    PROVE  Kept(items, n, new, <<>>)
  <1>1. Range(new) = Range(old) \cup Range(held)
    BY RangeExtended
  <1>2. Len(held) \in Nat /\ \A k \in 1..Len(held) : held[k] \in Range(held)
    BY Elements
  <1>3. \A p \in DOMAIN old : old[p] \in Range(old)
    BY DEF Range
  <1>4. /\ ordered(items, old) /\ tells(items, held)
        /\ \A a \in Range(old) : \A b \in Range(held) : tellable(items, a, b)
        /\ \A a \in Range(old) \cup Range(held) : a.item \in 1..n
    BY DEF Kept
  <1>5. ordered(items, new)
    BY <1>2, <1>3, <1>4, OrderExtended
  <1>6. Range(<<>>) = {} /\ tells(items, <<>>)
    BY NoElements
  <1> QED
    BY <1>1, <1>4, <1>5, <1>6 DEF Kept

\* One more item has been read: media are held back only if it is an output.
LEMMA KeptRead ==
    ASSUME NEW items, NEW more, NEW n \in Nat, NEW last \in Nat, n = last - 1,
           NEW atoms, NEW held,
           \A k \in 1..n : more[k] = items[k],
           Range(atoms) \subseteq Atoms, held \in Seq(Atoms), Kept(items, n, atoms, held),
           held = <<>> \/ more[last].type = "output"
    PROVE  Kept(more, last, atoms, held)
  <1>1. \A a \in Range(atoms) \cup Range(held) : a.item \in 1..n
    BY DEF Kept
  <1>2. \A a \in Range(atoms) \cup Range(held) : \A b \in Range(atoms) \cup Range(held) :
           tellable(items, a, b) => tellable(more, a, b)
    <2> TAKE a \in Range(atoms) \cup Range(held)
    <2> TAKE b \in Range(atoms) \cup Range(held)
    <2>1. a.item \in 1..n /\ b.item \in 1..n
      BY <1>1
    <2>2. \A k \in b.item..a.item : k \in 1..n
      BY <2>1
    <2>3. more[a.item] = items[a.item] /\ \A k \in b.item..a.item : more[k] = items[k]
      BY <2>1, <2>2
    <2> QED
      BY <2>3 DEF tellable
  <1>3. ordered(more, atoms)
    <2>1. \A p \in DOMAIN atoms : atoms[p] \in Range(atoms)
      BY DEF Range
    <2> QED
      BY <1>2, <2>1 DEF Kept, ordered
  <1>4. tells(more, held)
    <2>1. \A k \in 1..Len(held) : held[k] \in Range(held)
      BY Elements
    <2> QED
      BY <1>2, <2>1 DEF Kept, tells
  <1>5. \A a \in Range(atoms) : \A b \in Range(held) : tellable(more, a, b)
    BY <1>2 DEF Kept
  <1>6. \A b \in Range(held) : \A k \in b.item..last : more[k].type = "output"
    <2> SUFFICES ASSUME NEW b \in Range(held), NEW k \in b.item..last
                 PROVE  more[k].type = "output"
      OBVIOUS
    <2>1. b.item \in 1..n /\ held # <<>>
      BY <1>1, NoElements
    <2>2. k = last \/ (k \in 1..n /\ k \in b.item..n)
      BY <2>1
    <2> QED
      BY <2>1, <2>2 DEF Kept
  <1>7. \A a \in Range(atoms) \cup Range(held) : a.item \in 1..last
    BY <1>1
  <1> QED
    BY <1>3, <1>4, <1>5, <1>6, <1>7 DEF Kept

\* All atoms are of the first items.
within(atoms, n) == \A a \in atoms : a.item \in 1..n

\* Atoms of the item told last are not among those to be held back.
apart(atoms, media, n, last) ==
    \A a \in atoms : a.item \in 1..n \/ (a.item = last /\ \A b \in media : a.part # b.part)

\* The item's own atoms are told behind the others.
LEMMA KeptTold ==
    ASSUME NEW items, NEW n \in Nat, NEW last \in Nat, n = last - 1,
           NEW old, NEW new, NEW held \in Seq(Atoms),
           NEW s \in Seq(Atoms), last \in 1..MaxItems,
           DOMAIN new \subseteq Triples, extends(old, new, s), rising(s, last),
           Range(old) \subseteq Atoms,
           Kept(items, last, old, held), within(Range(old), n), within(Range(held), n)
    PROVE  Kept(items, last, new, held)
  <1>0. \A a \in Range(old) \cup Range(held) : a.item \in 1..n
    BY DEF within
  <1>1. Range(new) = Range(old) \cup Range(s)
    BY RangeExtended
  <1>2. /\ Len(s) \in Nat /\ \A k \in 1..Len(s) : s[k] \in Range(s)
        /\ \A a \in Range(s) : \E k \in 1..Len(s) : s[k] = a
        /\ Range(s) \subseteq Atoms /\ Range(held) \subseteq Atoms
    BY Elements
  <1>3. \A a \in Range(s) : a.item = last
    BY <1>2 DEF rising
  <1>4. \A p \in DOMAIN old : old[p] \in Range(old)
    BY DEF Range
  <1>5. ASSUME NEW a \in Range(old), NEW b \in Range(s) PROVE tellable(items, a, b)
    <2>1. a.item < b.item /\ a \in Atoms /\ b \in Atoms
      BY <1>0, <1>2, <1>3
    <2> QED
      BY <2>1, Tellable
  <1>6. tells(items, s)
    <2> SUFFICES ASSUME NEW j \in 1..Len(s), NEW k \in 1..Len(s), j < k
                 PROVE  tellable(items, s[j], s[k])
      BY DEF tells
    <2>1. s[j] \in Atoms /\ s[k] \in Atoms
      BY <1>2
    <2>2. s[j].item = s[k].item /\ s[j].part < s[k].part
      BY DEF rising
    <2> QED
      BY <2>1, <2>2, Tellable
  <1>7. ordered(items, new)
    BY <1>2, <1>4, <1>5, <1>6, OrderExtended DEF Kept
  <1>8. ASSUME NEW a \in Range(s), NEW b \in Range(held) PROVE tellable(items, a, b)
    <2>1. /\ a.item > b.item /\ a \in Atoms /\ b \in Atoms
          /\ \A k \in b.item..a.item : items[k].type = "output"
      BY <1>0, <1>2, <1>3 DEF Kept
    <2> QED
      BY <2>1, Tellable
  <1>9. \A a \in Range(new) \cup Range(held) : a.item \in 1..last
    BY <1>1, <1>3 DEF Kept
  <1> QED
    BY <1>1, <1>7, <1>8, <1>9 DEF Kept

\* Media of an output are held back behind the others.
LEMMA KeptHeld ==
    ASSUME NEW items, NEW n \in Nat, NEW last \in Nat, n = last - 1,
           NEW atoms, NEW held \in Seq(Atoms),
           NEW media \in Seq(Atoms), last \in 1..MaxItems, items[last].type = "output",
           rising(media, last), Range(atoms) \subseteq Atoms,
           Kept(items, last, atoms, held),
           within(Range(held), n), apart(Range(atoms), Range(media), n, last),
           NEW all, all = held \o media
    PROVE  Kept(items, last, atoms, all)
  <1> DEFINE h == Len(held)
             m == Len(media)
  <1>0. /\ \A a \in Range(held) : a.item \in 1..n
        /\ \A a \in Range(atoms) :
              a.item \in 1..n \/ (a.item = last /\ \A b \in Range(media) : a.part # b.part)
    BY DEF within, apart
  <1>1. Range(all) = Range(held) \cup Range(media)
    BY JoinedElements
  <1>2. /\ Len(all) = h + m /\ h \in Nat /\ m \in Nat
        /\ \A k \in 1..h + m : all[k] = IF k <= h THEN held[k] ELSE media[k - h]
    BY ConcatProperties, LenProperties
  <1>3. /\ \A k \in 1..m : media[k] \in Range(media)
        /\ \A a \in Range(media) : \E k \in 1..m : media[k] = a
        /\ \A k \in 1..h : held[k] \in Range(held)
        /\ Range(media) \subseteq Atoms /\ Range(held) \subseteq Atoms
    BY Elements
  <1> HIDE DEF h, m
  <1>4. \A a \in Range(media) : a.item = last
    BY <1>3 DEF rising, m
  <1>5. ASSUME NEW a \in Range(atoms), NEW b \in Range(media) PROVE tellable(items, a, b)
    <2>1. a \in Atoms /\ b \in Atoms /\ b.item = last
      BY <1>3, <1>4
    <2>2. a.item < b.item \/ (a.item = b.item /\ a.part # b.part /\ items[a.item].type = "output")
      BY <1>0, <2>1
    <2> QED
      BY <2>1, <2>2, Tellable
  <1>6. ASSUME NEW a \in Range(held), NEW b \in Range(media) PROVE tellable(items, a, b)
    <2>1. a \in Atoms /\ b \in Atoms /\ a.item < b.item
      BY <1>0, <1>3, <1>4
    <2> QED
      BY <2>1, Tellable
  <1>7. ASSUME NEW j \in 1..m, NEW k \in 1..m, j < k PROVE tellable(items, media[j], media[k])
    <2>1. media[j] \in Atoms /\ media[k] \in Atoms
      BY <1>3
    <2>2. media[j].item = media[k].item /\ media[j].part < media[k].part
      BY <1>7 DEF rising, m
    <2> QED
      BY <2>1, <2>2, Tellable
  <1>8. tells(items, all)
    <2> SUFFICES ASSUME NEW j \in 1..h + m, NEW k \in 1..h + m, j < k
                 PROVE  tellable(items, all[j], all[k])
      BY <1>2 DEF tells
    <2>1. \A l \in 1..h + m : \/ l \in 1..h /\ all[l] = held[l] /\ l <= h
                              \/ l - h \in 1..m /\ all[l] = media[l - h] /\ ~(l <= h)
      BY <1>2
    <2>2. CASE j <= h /\ k <= h
      BY <2>1, <2>2 DEF Kept, tells, h
    <2>3. CASE j <= h /\ ~(k <= h)
      BY <1>3, <1>6, <2>1, <2>3
    <2>4. CASE ~(j <= h) /\ ~(k <= h)
      <3>1. j - h \in 1..m /\ k - h \in 1..m /\ j - h < k - h
        BY <1>2, <2>1, <2>4
      <3> QED
        BY <1>7, <2>1, <2>4, <3>1
    <2>5. ~(~(j <= h) /\ k <= h)
      BY <1>2
    <2> QED
      BY <2>2, <2>3, <2>4, <2>5
  <1>9. \A b \in Range(media) : \A k \in b.item..last : items[k].type = "output"
    BY <1>4
  <1>10. \A b \in Range(media) : b.item \in 1..last
    BY <1>4
  <1>11. Kept(items, last, atoms, all)
    BY <1>1, <1>5, <1>8, <1>9, <1>10 DEF Kept
  <1> QED
    BY <1>11

-----------------------------------------------------------------------------
(* What is told of one item.                                                 *)

\* Of the item these parts have been told, and the whole, or not.
covers(atoms, i, parts, whole) ==
    /\ \A a \in atoms : a.item = i => /\ a.part # 0 => a.part \in parts
                                      /\ a.kind = "json" => whole
    /\ \A j \in parts : \E a \in atoms : a.item = i /\ a.part = j
    /\ whole => \E a \in atoms : a.item = i /\ a.kind = "json"

\* What one item tells leaves the others as they were.
LEMMA CoversMore ==
    ASSUME NEW old, NEW more, NEW i, NEW k, \A a \in more : a.item = k,
           NEW parts, NEW whole
    PROVE  /\ i # k /\ covers(old, i, parts, whole) => covers(old \cup more, i, parts, whole)
           /\ (\A a \in old : a.item # k) /\ covers(more, k, parts, whole)
                 => covers(old \cup more, k, parts, whole)
  BY DEF covers

\* The atoms are those of the item's parts of some kinds.
standFor(s, i, parts, kinds) ==
    /\ s \in Seq(Atoms) /\ rising(s, i)
    /\ \A a \in Range(s) : /\ a.item = i /\ a.part # 0 /\ a.kind = parts[a.part]
                           /\ a.part \in ofKinds(parts, kinds) /\ a.kind # "json"
    /\ \A j \in ofKinds(parts, kinds) : \E a \in Range(s) : a.part = j

\* Parts come as atoms in their order.
LEMMA PartsRise ==
    ASSUME NEW i \in 1..MaxItems, NEW parts \in Seq(PartKinds), NEW kinds,
           NEW s, s = partsOf(i, parts, kinds)
    PROVE  standFor(s, i, parts, kinds)
  <1> DEFINE places == ofKinds(parts, kinds)
  <1>0. s \in Seq(Atoms)
    BY PartsAt
  <1>1. \E m, at : /\ enumerates(at, m, places) /\ DOMAIN s = 1..m /\ Len(s) = m
                   /\ \A n \in 1..m : s[n] = atom(i, at[n], parts[at[n]])
    BY PartsAt
  <1>2. /\ DOMAIN parts = 1..Len(parts) /\ Len(parts) \in Nat
        /\ \A j \in places : j \in Nat /\ j # 0 /\ parts[j] \in PartKinds
    <2>1. DOMAIN parts = 1..Len(parts) /\ Len(parts) \in Nat
      BY LenProperties
    <2> QED
      BY <2>1 DEF ofKinds
  <1> HIDE DEF places
  <1>3. PICK m, at : /\ enumerates(at, m, places) /\ DOMAIN s = 1..m /\ Len(s) = m
                     /\ \A n \in 1..m : s[n] = atom(i, at[n], parts[at[n]])
    BY <1>1
  <1>4. /\ m \in Nat /\ \A n \in 1..m : at[n] \in places
        /\ \A j, k \in 1..m : j < k => at[j] < at[k]
        /\ \A p \in places : \E k \in 1..m : at[k] = p
    BY <1>3 DEF enumerates
  <1>5. \A n \in 1..m : s[n].item = i /\ s[n].part = at[n] /\ s[n].kind = parts[at[n]]
    BY <1>3 DEF atom
  <1>6. rising(s, i)
    BY <1>2, <1>3, <1>4, <1>5 DEF rising
  <1>7. \A a \in Range(s) : \E n \in 1..m : s[n] = a
    BY <1>0, <1>3, Elements
  <1>8. \A n \in 1..m : s[n] \in Range(s)
    BY <1>0, <1>3, Elements
  <1>9. "json" \notin PartKinds
    BY DEF PartKinds
  <1>10. \A a \in Range(s) : /\ a.item = i /\ a.part # 0 /\ a.kind = parts[a.part]
                             /\ a.part \in places /\ a.kind # "json"
    BY <1>2, <1>4, <1>5, <1>7, <1>9
  <1>11. \A j \in places : \E a \in Range(s) : a.part = j
    BY <1>4, <1>5, <1>8
  <1> QED
    BY <1>0, <1>6, <1>10, <1>11 DEF places, standFor

\* What stands for a content as a whole.
LEMMA StandIn ==
    ASSUME NEW i \in 1..MaxItems, NEW kind \in {"attachment", "stub", "json"},
           NEW s, s = <<atom(i, 0, kind)>>
    PROVE  /\ s \in Seq(Atoms) /\ s # <<>> /\ rising(s, i)
           /\ \A a \in Range(s) : a.item = i /\ a.part = 0 /\ a.kind = kind
           /\ covers(Range(s), i, {}, kind = "json")
  <1>1. atom(i, 0, kind) \in Atoms
    BY DEF atom, Atoms
  <1>2. /\ s \in Seq(Atoms) /\ Len(s) = 1 /\ s[1].part = 0 /\ s[1].kind = kind /\ s[1].item = i
        /\ s # <<>>
    BY <1>1 DEF atom
  <1>3. \A n \in 1..Len(s) : n = 1
    BY <1>2
  <1>4. s[1] \in Range(s) /\ \A a \in Range(s) : a = s[1]
    <2>1. /\ \A k \in 1..Len(s) : s[k] \in Range(s)
          /\ \A a \in Range(s) : \E k \in 1..Len(s) : s[k] = a
      BY <1>2, Elements
    <2> QED
      BY <1>2, <1>3, <2>1
  <1>5. rising(s, i)
    BY <1>2, <1>3 DEF rising
  <1> QED
    BY <1>2, <1>4, <1>5 DEF covers

\* Nothing.
LEMMA NothingTold ==
    ASSUME NEW i
    PROVE  <<>> \in Seq(Atoms) /\ rising(<<>>, i) /\ covers(Range(<<>>), i, {}, FALSE)
  <1>1. <<>> \in Seq(Atoms) /\ Len(<<>>) = 0
    BY EmptySeq
  <1>2. rising(<<>>, i)
    BY <1>1 DEF rising
  <1> QED
    BY <1>1, <1>2, NoElements DEF covers

\* The atoms tell the parts of some kinds, or that there were none.
tellsContent(s, i, parts, kinds) ==
    /\ s \in Seq(Atoms) /\ rising(s, i)
    /\ \A a \in Range(s) : /\ a.item = i
                           /\ \/ a.part = 0 /\ a.kind = "attachment"
                              \/ /\ a.part \in ofKinds(parts, kinds)
                                 /\ a.kind = parts[a.part] /\ a.part # 0
    /\ covers(Range(s), i, ofKinds(parts, kinds), FALSE)

\* The content of a message.
LEMMA ChatContent ==
    ASSUME NEW i \in 1..MaxItems, NEW content, content.parts \in Seq(PartKinds),
           NEW assistant \in BOOLEAN,
           NEW s, s = responsesContentToChat(i, content, assistant),
           NEW kinds, kinds = IF assistant THEN {"text"} ELSE PartKinds \ {"hollow"}
    PROVE  tellsContent(s, i, content.parts, kinds)
  <1> DEFINE parts == ofKinds(content.parts, kinds)
  <1>0. PICK kept : kept = partsOf(i, content.parts, kinds)
    OBVIOUS
  <1>1. standFor(kept, i, content.parts, kinds)
    BY <1>0, PartsRise
  <1>2. s = IF kept = <<>> /\ content.parts # <<>> /\ ~assistant
            THEN <<atom(i, 0, "attachment")>> ELSE kept
    BY <1>0 DEF responsesContentToChat
  <1>3. /\ kept \in Seq(Atoms) /\ rising(kept, i)
        /\ \A a \in Range(kept) : /\ a.item = i /\ a.part # 0 /\ a.kind = content.parts[a.part]
                                  /\ a.part \in parts /\ a.kind # "json"
        /\ \A j \in parts : \E a \in Range(kept) : a.part = j
    BY <1>1 DEF standFor
  <1>4. kept = <<>> => parts = {}
    BY <1>3, NoElements
  <1> HIDE DEF parts
  <1>5. CASE kept = <<>> /\ content.parts # <<>> /\ ~assistant
    <2>1. /\ s \in Seq(Atoms) /\ rising(s, i)
          /\ \A a \in Range(s) : a.item = i /\ a.part = 0 /\ a.kind = "attachment"
          /\ covers(Range(s), i, {}, FALSE)
      <3>1. PICK kind \in {"attachment", "stub", "json"} : kind = "attachment"
        OBVIOUS
      <3>2. s = <<atom(i, 0, kind)>> /\ (kind = "json") = FALSE
        BY <1>2, <1>5, <3>1
      <3>3. /\ s \in Seq(Atoms) /\ rising(s, i)
            /\ \A a \in Range(s) : a.item = i /\ a.part = 0 /\ a.kind = kind
            /\ covers(Range(s), i, {}, kind = "json")
        BY <3>2, StandIn
      <3> QED
        BY <3>1, <3>2, <3>3
    <2> QED
      BY <1>4, <1>5, <2>1 DEF parts, tellsContent
  <1>6. CASE ~(kept = <<>> /\ content.parts # <<>> /\ ~assistant)
    <2>1. s = kept
      BY <1>2, <1>6
    <2>2. covers(Range(s), i, parts, FALSE)
      BY <1>3, <2>1 DEF covers
    <2> QED
      BY <1>3, <2>1, <2>2 DEF parts, tellsContent
  <1> QED
    BY <1>5, <1>6

\* The elements of the one sequence are those of the other at the places.
picks(t, s, places) == /\ \A a \in Range(t) : \E k \in places : s[k] = a
                       /\ \A k \in places : s[k] \in Range(t)

\* A subsequence rises as the sequence does.
LEMMA SubsequenceRises ==
    ASSUME NEW i, NEW s \in Seq(Atoms), rising(s, i), NEW places, places \subseteq 1..Len(s),
           NEW t, t = subsequence(s, places)
    PROVE  t \in Seq(Atoms) /\ rising(t, i) /\ picks(t, s, places)
  <1>1. DOMAIN s = 1..Len(s) /\ Len(s) \in Nat /\ \A k \in 1..Len(s) : s[k] \in Atoms
    BY LenProperties
  <1>2. PICK m, at : enumerates(at, m, places) /\ subsequence(s, places) = through(s, at, m)
    BY <1>1, SubsequenceAt
  <1>3. /\ m \in Nat /\ \A k \in 1..m : at[k] \in places
        /\ \A j, k \in 1..m : j < k => at[j] < at[k]
        /\ \A p \in places : \E k \in 1..m : at[k] = p
    BY <1>2 DEF enumerates
  <1>4. t = [k \in 1..m |-> s[at[k]]]
    BY <1>2 DEF through
  <1>5. \A k \in 1..m : at[k] \in 1..Len(s) /\ s[at[k]] \in Atoms
    BY <1>1, <1>3
  <1>6. t \in Seq(Atoms) /\ Len(t) = m
    BY <1>3, <1>4, <1>5
  <1>7. \A k \in 1..m : t[k] = s[at[k]]
    BY <1>4
  <1>8. rising(t, i)
    <2>1. /\ \A k \in 1..Len(s) : s[k].item = i /\ s[k].part \in Nat
          /\ \A j, k \in 1..Len(s) : j < k => s[j].part < s[k].part
      BY DEF rising
    <2>2. \A k \in 1..m : t[k].item = i /\ t[k].part \in Nat
      BY <1>5, <1>7, <2>1
    <2>3. ASSUME NEW j \in 1..m, NEW k \in 1..m, j < k
          PROVE  t[j].part < t[k].part
      <3>1. at[j] < at[k]
        BY <1>3, <2>3
      <3> QED
        BY <1>5, <1>7, <2>1, <3>1
    <2> QED
      BY <1>6, <2>2, <2>3 DEF rising
  <1>9. /\ \A a \in Range(t) : \E k \in 1..m : t[k] = a
        /\ \A k \in 1..m : t[k] \in Range(t)
    <2>1. /\ \A a \in Range(t) : \E k \in 1..Len(t) : t[k] = a
          /\ \A k \in 1..Len(t) : t[k] \in Range(t)
      BY <1>6, Elements
    <2> QED
      BY <1>6, <2>1
  <1>10. ASSUME NEW a \in Range(t) PROVE \E k \in places : s[k] = a
    <2>1. PICK k \in 1..m : t[k] = a
      BY <1>9
    <2> QED
      BY <1>3, <1>7, <2>1
  <1>11. \A k \in places : s[k] \in Range(t)
    BY <1>3, <1>7, <1>9
  <1> QED
    BY <1>6, <1>8, <1>10, <1>11 DEF picks

\* The text of a content.
LEMMA SystemContent ==
    ASSUME NEW i \in 1..MaxItems, NEW content, content.parts \in Seq(PartKinds),
           NEW s, s = responsesContentToChat(i, content, FALSE),
           NEW places, places = {k \in DOMAIN s : s[k].kind \in {"text", "attachment"}},
           NEW text, text = subsequence(s, places)
    PROVE  /\ text \in Seq(Atoms) /\ rising(text, i) /\ \A a \in Range(text) : a.item = i
           /\ covers(Range(text), i, ofKinds(content.parts, {"text"}), FALSE)
  <1> DEFINE parts == ofKinds(content.parts, {"text"})
  <1>0. PICK kinds : kinds = PartKinds \ {"hollow"}
    OBVIOUS
  <1>1. /\ s \in Seq(Atoms) /\ rising(s, i)
        /\ \A a \in Range(s) : /\ a.item = i
                               /\ \/ a.part = 0 /\ a.kind = "attachment"
                                  \/ /\ a.part \in ofKinds(content.parts, kinds)
                                     /\ a.kind = content.parts[a.part] /\ a.part # 0
        /\ covers(Range(s), i, ofKinds(content.parts, kinds), FALSE)
    <2>1. PICK no \in BOOLEAN : no = FALSE
      OBVIOUS
    <2>2. s = responsesContentToChat(i, content, no)
          /\ kinds = IF no THEN {"text"} ELSE PartKinds \ {"hollow"}
      BY <1>0, <2>1
    <2>3. tellsContent(s, i, content.parts, kinds)
      BY <2>2, ChatContent
    <2> QED
      BY <2>3 DEF tellsContent
  <1>2. DOMAIN s = 1..Len(s) /\ \A k \in 1..Len(s) : s[k] \in Range(s)
    BY <1>1, LenProperties, Elements
  <1>3. /\ \A k \in places : k \in 1..Len(s) /\ s[k].kind \in {"text", "attachment"}
        /\ \A k \in 1..Len(s) : s[k].kind = "text" => k \in places
    BY <1>2
  <1>4. text \in Seq(Atoms) /\ rising(text, i) /\ picks(text, s, places)
    <2>1. places \subseteq 1..Len(s)
      BY <1>2
    <2> QED
      BY <1>1, <2>1, SubsequenceRises
  <1>5. ASSUME NEW a \in Range(text) PROVE a \in Range(s) /\ a.kind \in {"text", "attachment"}
    <2>1. PICK k \in places : s[k] = a
      BY <1>4 DEF picks
    <2> QED
      BY <1>2, <1>3, <2>1
  <1>6. /\ \A j : j \in ofKinds(content.parts, kinds) /\ content.parts[j] = "text" <=> j \in parts
        /\ \A j \in ofKinds(content.parts, kinds) : content.parts[j] # "attachment"
        /\ \A j \in parts : j # 0
    <2>1. DOMAIN content.parts = 1..Len(content.parts) /\ Len(content.parts) \in Nat
      BY LenProperties
    <2> QED
      BY <1>0, <2>1 DEF ofKinds, PartKinds
  <1> HIDE DEF parts
  <1>7. ASSUME NEW a \in Range(text), a.part # 0 PROVE a.part \in parts
    <2>1. /\ a.part \in ofKinds(content.parts, kinds) /\ a.kind = content.parts[a.part]
          /\ a.kind \in {"text", "attachment"}
      BY <1>1, <1>5, <1>7
    <2>2. a.kind = "text"
      BY <1>6, <2>1
    <2> QED
      BY <1>6, <2>1, <2>2
  <1>8. ASSUME NEW j \in parts PROVE \E a \in Range(text) : a.item = i /\ a.part = j
    <2>1. j \in ofKinds(content.parts, kinds) /\ content.parts[j] = "text" /\ j # 0
      BY <1>6
    <2>2. PICK a \in Range(s) : a.item = i /\ a.part = j
      BY <1>1, <2>1 DEF covers
    <2>3. a.kind = "text"
      BY <1>1, <2>1, <2>2
    <2>4. PICK k \in 1..Len(s) : s[k] = a
      BY <1>1, <2>2, Elements
    <2>5. a \in Range(text)
      BY <1>3, <1>4, <2>3, <2>4 DEF picks
    <2> QED
      BY <2>2, <2>5
  <1>9. covers(Range(text), i, parts, FALSE)
    BY <1>5, <1>7, <1>8 DEF covers
  <1> QED
    BY <1>1, <1>4, <1>5, <1>9 DEF parts

\* An output's text and its media.
LEMMA OutputContent ==
    ASSUME NEW i \in 1..MaxItems, NEW output, output.parts \in Seq(PartKinds),
           NEW converted, converted = responsesToolOutputToChat(i, output)
    PROVE  /\ converted.text \in Seq(Atoms) /\ rising(converted.text, i)
           /\ converted.media \in Seq(Atoms) /\ rising(converted.media, i)
           /\ \A a \in Range(converted.text) : \A b \in Range(converted.media) : a.part # b.part
           /\ \A a \in Range(converted.text) \cup Range(converted.media) : a.item = i
           /\ covers(Range(converted.text) \cup Range(converted.media), i,
                     IF hasPart(output.parts, {"other"}) THEN {}
                     ELSE ofKinds(output.parts, {"text"} \cup ChatMedia),
                     hasPart(output.parts, {"other"}))
  <1>1. CASE hasPart(output.parts, {"other"})
    <2>1. PICK kind \in {"attachment", "stub", "json"} : kind = "json"
      OBVIOUS
    <2>2. PICK s : s = <<atom(i, 0, kind)>>
      OBVIOUS
    <2>3. /\ s \in Seq(Atoms) /\ rising(s, i)
          /\ \A a \in Range(s) : a.item = i /\ a.part = 0 /\ a.kind = kind
          /\ covers(Range(s), i, {}, kind = "json")
      BY <2>2, StandIn
    <2>4. converted.text = s /\ converted.media = <<>>
      BY <1>1, <2>1, <2>2 DEF responsesToolOutputToChat
    <2>5. Range(<<>>) = {} /\ <<>> \in Seq(Atoms) /\ rising(<<>>, i)
      BY NoElements, NothingTold
    <2>6. Range(s) \cup Range(<<>>) = Range(s)
      BY <2>5
    <2> QED
      BY <1>1, <2>1, <2>3, <2>4, <2>5, <2>6
  <1>2. CASE ~hasPart(output.parts, {"other"})
    <2>1. PICK texts : texts = partsOf(i, output.parts, {"text"})
      OBVIOUS
    <2>2. PICK media : media = partsOf(i, output.parts, ChatMedia)
      OBVIOUS
    <2>3. standFor(texts, i, output.parts, {"text"})
      BY <2>1, PartsRise
    <2>4. standFor(media, i, output.parts, ChatMedia)
      BY <2>2, PartsRise
    <2>5. /\ converted.media = media
          /\ converted.text = IF texts # <<>> THEN texts ELSE <<atom(i, 0, "stub")>>
      BY <1>2, <2>1, <2>2 DEF responsesToolOutputToChat
    <2>6. \A j : /\ j \in ofKinds(output.parts, {"text"} \cup ChatMedia)
                       <=> \/ j \in ofKinds(output.parts, {"text"})
                           \/ j \in ofKinds(output.parts, ChatMedia)
                 /\ ~(/\ j \in ofKinds(output.parts, {"text"})
                      /\ j \in ofKinds(output.parts, ChatMedia))
      BY DEF ofKinds, ChatMedia
    <2>7. /\ converted.text \in Seq(Atoms) /\ rising(converted.text, i)
          /\ \A a \in Range(converted.text) :
                /\ a.item = i /\ a.kind # "json"
                /\ a.part = 0 \/ a.part \in ofKinds(output.parts, {"text"})
          /\ \A j \in ofKinds(output.parts, {"text"}) : \E a \in Range(converted.text) : a.part = j
      <3>1. CASE texts # <<>>
        BY <2>3, <2>5, <3>1 DEF standFor
      <3>2. CASE texts = <<>>
        <4>1. PICK kind \in {"attachment", "stub", "json"} : kind = "stub"
          OBVIOUS
        <4>2. converted.text = <<atom(i, 0, kind)>>
          BY <2>5, <3>2, <4>1
        <4>3. /\ converted.text \in Seq(Atoms) /\ rising(converted.text, i)
              /\ \A a \in Range(converted.text) : a.item = i /\ a.part = 0 /\ a.kind = kind
          BY <4>2, StandIn
        <4>4. \A j \in ofKinds(output.parts, {"text"}) : FALSE
          BY <2>3, <3>2, NoElements DEF standFor
        <4> QED
          BY <4>1, <4>3, <4>4
      <3> QED
        BY <3>1, <3>2
    <2>8. /\ media \in Seq(Atoms) /\ rising(media, i)
          /\ \A a \in Range(media) : /\ a.item = i /\ a.kind # "json" /\ a.part # 0
                                     /\ a.part \in ofKinds(output.parts, ChatMedia)
          /\ \A j \in ofKinds(output.parts, ChatMedia) : \E a \in Range(media) : a.part = j
      BY <2>4 DEF standFor
    <2>9. covers(Range(converted.text) \cup Range(media), i,
                 ofKinds(output.parts, {"text"} \cup ChatMedia), FALSE)
      BY <2>6, <2>7, <2>8 DEF covers
    <2>10. \A a \in Range(converted.text) : \A b \in Range(media) : a.part # b.part
      BY <2>6, <2>7, <2>8
    <2>11. hasPart(output.parts, {"other"}) = FALSE
      BY <1>2 DEF hasPart
    <2> QED
      BY <1>2, <2>5, <2>7, <2>8, <2>9, <2>10, <2>11
  <1> QED
    BY <1>1, <1>2

\* What an Anthropic upstream is given of a content.
LEMMA AnthropicContent ==
    ASSUME NEW i \in 1..MaxItems, NEW content, content.parts \in Seq(PartKinds),
           NEW s, s = responsesContentToAnthropic(i, content)
    PROVE  /\ s \in Seq(Atoms) /\ rising(s, i) /\ \A a \in Range(s) : a.item = i
           /\ covers(Range(s), i, ofKinds(content.parts, {"text", "image", "file"}), FALSE)
  <1>1. standFor(s, i, content.parts, {"text", "image", "file"})
    BY PartsRise DEF responsesContentToAnthropic
  <1> QED
    BY <1>1 DEF standFor, covers

\* What an Anthropic upstream is given of an output.
LEMMA AnthropicOutput ==
    ASSUME NEW i \in 1..MaxItems, NEW output, output.parts \in Seq(PartKinds),
           NEW s, s = responsesToolOutputToAnthropic(i, output)
    PROVE  /\ s \in Seq(Atoms) /\ rising(s, i) /\ \A a \in Range(s) : a.item = i
           /\ covers(Range(s), i,
                     IF hasPart(output.parts, NotInOutputs) THEN {}
                     ELSE ofKinds(output.parts, {"text", "image"}),
                     hasPart(output.parts, NotInOutputs))
  <1>1. PICK kept : kept = partsOf(i, output.parts, {"text", "image"})
    OBVIOUS
  <1>2. standFor(kept, i, output.parts, {"text", "image"})
    BY <1>1, PartsRise
  <1>3. s = IF hasPart(output.parts, NotInOutputs) THEN <<atom(i, 0, "json")>>
            ELSE IF kept = <<>> THEN <<atom(i, 0, "stub")>> ELSE kept
    BY <1>1 DEF responsesToolOutputToAnthropic
  <1>4. ASSUME NEW kind \in {"attachment", "stub", "json"}, s = <<atom(i, 0, kind)>>
        PROVE  /\ s \in Seq(Atoms) /\ rising(s, i) /\ \A a \in Range(s) : a.item = i
               /\ covers(Range(s), i, {}, kind = "json")
    BY <1>4, StandIn
  <1>5. CASE hasPart(output.parts, NotInOutputs)
    <2>1. PICK kind \in {"attachment", "stub", "json"} : kind = "json"
      OBVIOUS
    <2>2. s = <<atom(i, 0, kind)>>
      BY <1>3, <1>5, <2>1
    <2> QED
      BY <1>4, <1>5, <2>1, <2>2
  <1>6. CASE ~hasPart(output.parts, NotInOutputs) /\ kept = <<>>
    <2>1. PICK kind \in {"attachment", "stub", "json"} : kind = "stub"
      OBVIOUS
    <2>2. s = <<atom(i, 0, kind)>> /\ (kind = "json") = FALSE
      BY <1>3, <1>6, <2>1
    <2>3. ofKinds(output.parts, {"text", "image"}) = {}
      BY <1>2, <1>6, NoElements DEF standFor
    <2>4. hasPart(output.parts, NotInOutputs) = FALSE
      BY <1>6 DEF hasPart
    <2> QED
      BY <1>4, <1>6, <2>2, <2>3, <2>4
  <1>7. CASE ~hasPart(output.parts, NotInOutputs) /\ kept # <<>>
    <2>1. s = kept /\ hasPart(output.parts, NotInOutputs) = FALSE
      BY <1>3, <1>7 DEF hasPart
    <2> QED
      BY <1>2, <1>7, <2>1 DEF standFor, covers
  <1> QED
    BY <1>5, <1>6, <1>7

-----------------------------------------------------------------------------

\* The places of Anthropic messages' contents.
placedAnthropic(messages) ==
    [place \in UNION {UNION {{<<n, b, p>> : p \in DOMAIN messages[n].blocks[b].content}
                                : b \in {c \in DOMAIN messages[n].blocks :
                                            messages[n].blocks[c].type # "tool_use"}}
                         : n \in DOMAIN messages} |->
        messages[place[1]].blocks[place[2]].content[place[3]]]

\* The place is one of a block that has a content.
spokenAt(messages, n, b, p) ==
    /\ n \in 1..Len(messages) /\ b \in 1..Len(messages[n].blocks)
    /\ messages[n].blocks[b].type # "tool_use"
    /\ p \in 1..Len(messages[n].blocks[b].content)

\* Contents of blocks.
LEMMA BlockContents ==
    ASSUME NEW block \in Blocks, block.type # "tool_use"
    PROVE  /\ block.content \in Seq(Atoms) /\ Len(block.content) \in Nat
           /\ DOMAIN block.content = 1..Len(block.content)
  <1>1. block.content \in Seq(Atoms)
    <2>1. CASE block \in Told
      BY <2>1 DEF Told
    <2>2. CASE block \in Uses
      BY <2>2 DEF Uses, toolUseBlock
    <2>3. CASE block \in Results
      <3>1. PICK i \in 1..MaxItems, item \in {it \in Items : it.type = "output"} :
               block = toolResultBlock(i, item)
        BY <2>3 DEF Results
      <3>2. item \in Items /\ item.type = "output"
        BY <3>1
      <3>3. responsesToolOutputToAnthropic(i, item.output) \in Seq(Atoms)
        BY <3>2, ContentTypes
      <3> QED
        BY <3>1, <3>3 DEF toolResultBlock
    <2> QED
      BY <2>1, <2>2, <2>3 DEF Blocks
  <1> QED
    BY <1>1, LenProperties

\* A place is a message, a block and a place in its content.
LEMMA BlockPlaces ==
    ASSUME NEW messages \in Seq(AnthropicMessages)
    PROVE  /\ DOMAIN placedAnthropic(messages) \subseteq Triples
           /\ \A n, b, p : spokenAt(messages, n, b, p) =>
                 /\ <<n, b, p>> \in DOMAIN placedAnthropic(messages)
                 /\ placedAnthropic(messages)[<<n, b, p>>] = messages[n].blocks[b].content[p]
           /\ \A q \in DOMAIN placedAnthropic(messages) :
                 \E n, b, p : spokenAt(messages, n, b, p) /\ q = <<n, b, p>>
  <1> DEFINE inBlock(n, b) == {<<n, b, p>> : p \in DOMAIN messages[n].blocks[b].content}
             speaking(n) == {c \in DOMAIN messages[n].blocks :
                                messages[n].blocks[c].type # "tool_use"}
             inMessage(n) == UNION {inBlock(n, b) : b \in speaking(n)}
             D == UNION {inMessage(n) : n \in DOMAIN messages}
  <1>1. /\ DOMAIN messages = 1..Len(messages) /\ Len(messages) \in Nat
        /\ \A n \in 1..Len(messages) : /\ DOMAIN messages[n].blocks = 1..Len(messages[n].blocks)
                                       /\ Len(messages[n].blocks) \in Nat
                                       /\ messages[n].blocks \in Seq(Blocks)
    BY MessageBlocks, LenProperties
  <1>2. \A n \in 1..Len(messages) : \A b \in 1..Len(messages[n].blocks) :
           messages[n].blocks[b].type # "tool_use" =>
              /\ DOMAIN messages[n].blocks[b].content = 1..Len(messages[n].blocks[b].content)
              /\ Len(messages[n].blocks[b].content) \in Nat
    <2> TAKE n \in 1..Len(messages)
    <2> TAKE b \in 1..Len(messages[n].blocks)
    <2>1. messages[n].blocks[b] \in Blocks
      BY <1>1
    <2> QED
      BY <2>1, BlockContents
  <1>3. ASSUME NEW q \in D
        PROVE  \E n, b, p : spokenAt(messages, n, b, p) /\ q = <<n, b, p>>
    <2>1. PICK n \in 1..Len(messages) : q \in inMessage(n)
      BY <1>1
    <2>2. PICK b \in speaking(n) : q \in inBlock(n, b)
      BY <2>1
    <2>3. b \in 1..Len(messages[n].blocks) /\ messages[n].blocks[b].type # "tool_use"
      BY <1>1, <2>1, <2>2
    <2>4. PICK p \in DOMAIN messages[n].blocks[b].content : q = <<n, b, p>>
      BY <2>2
    <2>5. p \in 1..Len(messages[n].blocks[b].content)
      BY <1>2, <2>1, <2>3, <2>4
    <2>6. spokenAt(messages, n, b, p)
      BY <2>1, <2>3, <2>5 DEF spokenAt
    <2> QED
      BY <2>4, <2>6
  <1>4. ASSUME NEW n, NEW b, NEW p, spokenAt(messages, n, b, p)
        PROVE  <<n, b, p>> \in D
    <2>1. /\ n \in DOMAIN messages /\ b \in speaking(n)
          /\ p \in DOMAIN messages[n].blocks[b].content
      BY <1>1, <1>2, <1>4 DEF spokenAt
    <2>2. <<n, b, p>> \in inBlock(n, b)
      BY <2>1
    <2> HIDE DEF inBlock, speaking
    <2>3. <<n, b, p>> \in inMessage(n)
      BY <2>1, <2>2
    <2> HIDE DEF inMessage
    <2> QED
      BY <2>1, <2>3
  <1>5. placedAnthropic(messages)
           = [place \in D |-> messages[place[1]].blocks[place[2]].content[place[3]]]
    BY DEF placedAnthropic
  <1> HIDE DEF D
  <1>6. DOMAIN placedAnthropic(messages) = D
    BY <1>5
  <1>7. ASSUME NEW n, NEW b, NEW p, spokenAt(messages, n, b, p)
        PROVE  placedAnthropic(messages)[<<n, b, p>>] = messages[n].blocks[b].content[p]
    <2>1. <<n, b, p>> \in D
      BY <1>4, <1>7
    <2> QED
      BY <1>5, <2>1
  <1>8. D \subseteq Triples
    <2> SUFFICES ASSUME NEW q \in D PROVE q \in Triples
      OBVIOUS
    <2>1. PICK n, b, p : spokenAt(messages, n, b, p) /\ q = <<n, b, p>>
      BY <1>3
    <2>2. n \in Nat /\ b \in Nat /\ p \in Nat
      BY <1>1, <1>2, <2>1 DEF spokenAt
    <2> QED
      BY <2>1, <2>2 DEF Triples
  <1> QED
    BY <1>3, <1>4, <1>6, <1>7, <1>8

\* The contents of the blocks, one behind the other, are the sequence.
unfoldsBy(blocks, content, f, g) ==
    /\ \A k \in 1..Len(content) :
          /\ f[k] \in 1..Len(blocks) /\ blocks[f[k]].type # "tool_use"
          /\ g[k] \in 1..Len(blocks[f[k]].content) /\ blocks[f[k]].content[g[k]] = content[k]
    /\ \A j, k \in 1..Len(content) : j < k => f[j] < f[k] \/ (f[j] = f[k] /\ g[j] < g[k])
    /\ \A b \in 1..Len(blocks) : blocks[b].type # "tool_use" =>
          \A p \in 1..Len(blocks[b].content) : \E k \in 1..Len(content) : f[k] = b /\ g[k] = p
unfolds(blocks, content) == \E f, g : unfoldsBy(blocks, content, f, g)

\* The blocks of a content are that content.
LEMMA ContentUnfolds ==
    ASSUME NEW content \in Seq(Atoms), NEW blocks, blocks = contentBlocks(content)
    PROVE  unfolds(blocks, content)
  <1>1. /\ blocks = [k \in 1..Len(content) |->
                        [type |-> "content", id |-> NoCall, content |-> <<content[k]>>]]
        /\ Len(content) \in Nat
    BY LenProperties DEF contentBlocks
  <1>2. /\ Len(blocks) = Len(content)
        /\ \A k \in 1..Len(content) : /\ blocks[k].type # "tool_use"
                                      /\ blocks[k].content = <<content[k]>>
    BY <1>1
  <1>3. \A k \in 1..Len(content) : /\ Len(blocks[k].content) = 1
                                   /\ blocks[k].content[1] = content[k]
    <2>1. \A x : Len(<<x>>) = 1 /\ <<x>>[1] = x
      OBVIOUS
    <2> QED
      BY <1>2, <2>1, Zenon
  <1> DEFINE f == [k \in 1..Len(content) |-> k]
             g == [k \in 1..Len(content) |-> 1]
  <1>4. \A k \in 1..Len(content) : f[k] = k /\ g[k] = 1 /\ 1 \in 1..1
    OBVIOUS
  <1>5. \A p \in 1..1 : p = 1
    OBVIOUS
  <1> HIDE DEF f, g
  <1>6. unfoldsBy(blocks, content, f, g)
    <2>1. ASSUME NEW k \in 1..Len(content)
          PROVE  /\ f[k] \in 1..Len(blocks) /\ blocks[f[k]].type # "tool_use"
                 /\ g[k] \in 1..Len(blocks[f[k]].content)
                 /\ blocks[f[k]].content[g[k]] = content[k]
      BY <1>2, <1>3, <1>4
    <2>2. ASSUME NEW b \in 1..Len(blocks), NEW p \in 1..Len(blocks[b].content)
          PROVE  \E k \in 1..Len(content) : f[k] = b /\ g[k] = p
      BY <1>2, <1>3, <1>4, <1>5
    <2> QED
      BY <1>4, <2>1, <2>2 DEF unfoldsBy
  <1> QED
    BY <1>6 DEF unfolds

\* A call says nothing.
LEMMA UseUnfolds ==
    ASSUME NEW block, block.type = "tool_use"
    PROVE  unfolds(<<block>>, <<>>)
  <1>1. /\ Len(<<block>>) = 1 /\ \A b \in 1..Len(<<block>>) : <<block>>[b].type = "tool_use"
        /\ \A k \in 1..Len(<<>>) : FALSE
    BY EmptySeq
  <1> QED
    BY <1>1 DEF unfolds, unfoldsBy

\* A result is its content.
LEMMA ResultUnfolds ==
    ASSUME NEW block \in Blocks, block.type # "tool_use"
    PROVE  unfolds(<<block>>, block.content)
  <1> DEFINE content == block.content
             f == [k \in 1..Len(content) |-> 1]
             g == [k \in 1..Len(content) |-> k]
  <1>1. /\ Len(<<block>>) = 1 /\ <<block>>[1] = block /\ 1 \in 1..1 /\ \A b \in 1..1 : b = 1
        /\ Len(content) \in Nat
    BY BlockContents
  <1>2. \A k \in 1..Len(content) : f[k] = 1 /\ g[k] = k
    OBVIOUS
  <1> HIDE DEF f, g, content
  <1>3. unfoldsBy(<<block>>, content, f, g)
    <2>1. PICK blocks : blocks = <<block>>
      OBVIOUS
    <2>2. Len(blocks) = 1 /\ blocks[1] = block /\ \A b \in 1..Len(blocks) : b = 1
      BY <1>1, <2>1
    <2>3. ASSUME NEW k \in 1..Len(content)
          PROVE  /\ f[k] \in 1..Len(blocks) /\ blocks[f[k]].type # "tool_use"
                 /\ g[k] \in 1..Len(blocks[f[k]].content)
                 /\ blocks[f[k]].content[g[k]] = content[k]
      BY <1>1, <1>2, <2>2 DEF content
    <2>4. ASSUME NEW b \in 1..Len(blocks), NEW p \in 1..Len(blocks[b].content)
          PROVE  \E k \in 1..Len(content) : f[k] = b /\ g[k] = p
      BY <1>2, <2>2 DEF content
    <2>5. unfoldsBy(blocks, content, f, g)
      BY <1>2, <2>3, <2>4 DEF unfoldsBy
    <2> QED
      BY <2>1, <2>5
  <1> QED
    BY <1>3 DEF unfolds, content

\* Nothing more is told when nothing is added.
LEMMA ExtendsSame ==
    ASSUME NEW old
    PROVE  extends(old, old, <<>>)
  <1>1. Len(<<>>) = 0 /\ 1..0 = {}
    BY EmptySeq
  <1>2. PICK at : at = [k \in 1..0 |-> k]
    OBVIOUS
  <1>3. at \in [1..Len(<<>>) -> DOMAIN old]
    BY <1>1, <1>2
  <1> QED
    BY <1>1, <1>3 DEF extends

\* Blocks that are added to the last message, or are a message of their own, are
\* told behind what was told before.
LEMMA BlocksPlaced ==
    ASSUME NEW messages \in Seq(AnthropicMessages), NEW more \in Seq(AnthropicMessages),
           NEW blocks \in Seq(Blocks), NEW content, Len(content) \in Nat,
           unfolds(blocks, content),
           NEW n \in Nat, NEW o \in Nat,
           n = Len(more), n > 0, Len(messages) \in {n - 1, n},
           \A l \in 1..n - 1 : more[l].blocks = messages[l].blocks,
           Len(messages) = n => o = Len(messages[n].blocks),
           Len(messages) # n => o = 0,
           Len(more[n].blocks) = o + Len(blocks),
           \A b \in 1..o : more[n].blocks[b] = messages[n].blocks[b],
           \A b \in 1..Len(blocks) : more[n].blocks[o + b] = blocks[b]
    PROVE  extends(placedAnthropic(messages), placedAnthropic(more), content)
  <1> DEFINE old == placedAnthropic(messages)
             new == placedAnthropic(more)
  <1>1. PICK f, g : unfoldsBy(blocks, content, f, g)
    BY DEF unfolds
  <1>2. Len(content) \in Nat /\ n \in 1..n /\ Len(messages) \in Nat /\ Len(blocks) \in Nat
    BY LenProperties
  <1>3. \A k \in 1..Len(content) :
           /\ f[k] \in 1..Len(blocks) /\ blocks[f[k]].type # "tool_use"
           /\ g[k] \in 1..Len(blocks[f[k]].content) /\ blocks[f[k]].content[g[k]] = content[k]
    BY <1>1 DEF unfoldsBy
  <1>4. \A j, k \in 1..Len(content) : j < k => f[j] < f[k] \/ (f[j] = f[k] /\ g[j] < g[k])
    BY <1>1 DEF unfoldsBy
  <1>4a. \A x, b, p : spokenAt(more, x, b, p) =>
            /\ <<x, b, p>> \in DOMAIN new /\ new[<<x, b, p>>] = more[x].blocks[b].content[p]
    BY BlockPlaces
  <1>4b. \A b \in 1..Len(blocks) : blocks[b].type # "tool_use" =>
            \A p \in 1..Len(blocks[b].content) :
               \E k \in 1..Len(content) : f[k] = b /\ g[k] = p
    BY <1>1 DEF unfoldsBy
  <1>5. PICK at : at = [k \in 1..Len(content) |-> <<n, o + f[k], g[k]>>]
    OBVIOUS
  <1>6. ASSUME NEW k \in 1..Len(content)
        PROVE  /\ at[k] = <<n, o + f[k], g[k]>> /\ at[k] \in DOMAIN new /\ new[at[k]] = content[k]
               /\ f[k] \in Nat /\ f[k] > 0 /\ g[k] \in Nat
    <2>1. f[k] \in Nat /\ f[k] > 0 /\ o + f[k] \in 1..o + Len(blocks)
      BY <1>2, <1>3
    <2>2. blocks[f[k]] \in Blocks /\ more[n].blocks[o + f[k]] = blocks[f[k]]
      BY <1>3
    <2>3. spokenAt(more, n, o + f[k], g[k])
      BY <1>2, <1>3, <2>1, <2>2 DEF spokenAt
    <2>4. g[k] \in Nat
      BY <1>3, <2>2, BlockContents
    <2>5. /\ <<n, o + f[k], g[k]>> \in DOMAIN new
          /\ new[<<n, o + f[k], g[k]>>] = more[n].blocks[o + f[k]].content[g[k]]
      <3>1. PICK b : b = o + f[k]
        OBVIOUS
      <3>2. PICK p : p = g[k]
        OBVIOUS
      <3>3. spokenAt(more, n, b, p)
        BY <2>3, <3>1, <3>2
      <3> HIDE DEF new
      <3>4. <<n, b, p>> \in DOMAIN new /\ new[<<n, b, p>>] = more[n].blocks[b].content[p]
        BY <1>4a, <3>3, SMTT(30)
      <3> QED
        BY <3>1, <3>2, <3>4
    <2> QED
      BY <1>3, <1>5, <2>1, <2>2, <2>4, <2>5
  <1>7. ASSUME NEW j \in 1..Len(content), NEW k \in 1..Len(content), j < k
        PROVE  before(at[j], at[k])
    <2>1. f[j] < f[k] \/ (f[j] = f[k] /\ g[j] < g[k])
      BY <1>4, <1>7
    <2>2. /\ at[j] = <<n, o + f[j], g[j]>> /\ at[k] = <<n, o + f[k], g[k]>>
          /\ f[j] \in Nat /\ f[k] \in Nat
      BY <1>6
    <2>3. /\ at[j][1] = n /\ at[j][2] = o + f[j] /\ at[j][3] = g[j]
          /\ at[k][1] = n /\ at[k][2] = o + f[k] /\ at[k][3] = g[k]
      BY <2>2
    <2>4. (o + f[j] < o + f[k]) \/ (o + f[j] = o + f[k] /\ g[j] < g[k])
      BY <2>1, <2>2
    <2> QED
      BY <2>3, <2>4 DEF before
  <1>8. ASSUME NEW q \in DOMAIN old
        PROVE  /\ q \in DOMAIN new /\ new[q] = old[q]
               /\ \A k \in 1..Len(content) : before(q, at[k])
    <2>1. PICK l, b, p : spokenAt(messages, l, b, p) /\ q = <<l, b, p>>
      BY BlockPlaces
    <2>2. /\ l \in 1..Len(messages) /\ l \in Nat /\ l \in 1..n
          /\ b \in 1..Len(messages[l].blocks) /\ b \in Nat
          /\ old[q] = messages[l].blocks[b].content[p]
      <3>1. l \in 1..Len(messages) /\ b \in 1..Len(messages[l].blocks)
        BY <2>1 DEF spokenAt
      <3>2. Len(messages[l].blocks) \in Nat
        BY <3>1, MessageBlocks
      <3>3. old[q] = messages[l].blocks[b].content[p]
        BY <2>1, BlockPlaces
      <3>4. l \in Nat /\ l \in 1..n /\ b \in Nat
        BY <1>2, <3>1, <3>2
      <3> QED
        BY <3>1, <3>3, <3>4
    <2>3. CASE l = n
      <3>1. Len(messages) = n /\ o = Len(messages[n].blocks) /\ b \in 1..o
        BY <1>2, <2>2, <2>3
      <3>2. b \in 1..o + Len(blocks) /\ b <= o /\ more[n].blocks[b] = messages[n].blocks[b]
        BY <1>2, <3>1
      <3>3. spokenAt(more, n, b, p)
        BY <1>2, <2>1, <2>3, <3>2 DEF spokenAt
      <3>4. q \in DOMAIN new /\ new[q] = more[n].blocks[b].content[p]
        BY <2>1, <2>3, <3>3, BlockPlaces
      <3>5. ASSUME NEW k \in 1..Len(content)
            PROVE  before(q, at[k])
        <4>1. q[1] = l /\ q[2] = b
          BY <2>1
        <4>2. /\ at[k] = <<n, o + f[k], g[k]>> /\ f[k] \in Nat /\ f[k] > 0
          BY <1>6
        <4>3. at[k][1] = n /\ at[k][2] = o + f[k]
          BY <4>2
        <4>4. b < o + f[k]
          BY <2>2, <3>2, <4>2
        <4> QED
          BY <2>3, <4>1, <4>3, <4>4 DEF before
      <3> QED
        BY <2>2, <2>3, <3>2, <3>4, <3>5
    <2>4. CASE l # n
      <3>1. l \in 1..n - 1 /\ l < n
        BY <2>2, <2>4
      <3>2. more[l].blocks = messages[l].blocks
        BY <3>1
      <3>3. spokenAt(more, l, b, p)
        BY <2>1, <2>2, <3>2 DEF spokenAt
      <3>4. q \in DOMAIN new /\ new[q] = more[l].blocks[b].content[p]
        BY <2>1, <3>3, BlockPlaces
      <3>5. ASSUME NEW k \in 1..Len(content)
            PROVE  before(q, at[k])
        <4>1. q[1] = l
          BY <2>1
        <4>2. at[k] = <<n, o + f[k], g[k]>>
          BY <1>6
        <4>3. at[k][1] = n
          BY <4>2
        <4> QED
          BY <3>1, <4>1, <4>3 DEF before
      <3> QED
        BY <2>2, <3>2, <3>4, <3>5
    <2> QED
      BY <2>3, <2>4
  <1>9. ASSUME NEW q \in DOMAIN new
        PROVE  q \in DOMAIN old \/ \E k \in 1..Len(content) : q = at[k]
    <2>1. PICK l, b, p : spokenAt(more, l, b, p) /\ q = <<l, b, p>>
      BY BlockPlaces
    <2>2. /\ l \in 1..n /\ b \in 1..Len(more[l].blocks)
          /\ more[l].blocks[b].type # "tool_use" /\ p \in 1..Len(more[l].blocks[b].content)
      BY <2>1 DEF spokenAt
    <2>3. Len(more[l].blocks) \in Nat /\ b \in Nat /\ l \in Nat
      BY <2>2, MessageBlocks
    <2>4. CASE l # n
      <3>1. l \in 1..n - 1 /\ l \in 1..Len(messages)
        BY <1>2, <2>2, <2>3, <2>4
      <3>2. spokenAt(messages, l, b, p)
        BY <2>2, <3>1 DEF spokenAt
      <3> QED
        BY <2>1, <3>2, BlockPlaces
    <2>5. CASE l = n /\ b <= o
      <3>1. Len(messages) = n /\ o = Len(messages[n].blocks) /\ b \in 1..o
        BY <2>2, <2>3, <2>5
      <3>2. more[n].blocks[b] = messages[n].blocks[b]
        BY <3>1
      <3>3. spokenAt(messages, l, b, p)
        BY <1>2, <2>2, <2>5, <3>1, <3>2 DEF spokenAt
      <3> QED
        BY <2>1, <3>3, BlockPlaces
    <2>6. CASE l = n /\ b > o
      <3>1. b - o \in 1..Len(blocks) /\ o + (b - o) = b
        BY <1>2, <2>2, <2>3, <2>6
      <3>2. more[n].blocks[b] = blocks[b - o]
        BY <3>1
      <3>3. PICK k \in 1..Len(content) : f[k] = b - o /\ g[k] = p
        <4>1. blocks[b - o].type # "tool_use" /\ p \in 1..Len(blocks[b - o].content)
          BY <2>2, <2>6, <3>2
        <4> QED
          BY <1>4b, <3>1, <4>1
      <3>4. at[k] = <<n, b, p>>
        BY <1>6, <3>1, <3>3
      <3> QED
        BY <2>1, <2>6, <3>4
    <2>7. b <= o \/ b > o
      BY <2>3
    <2> QED
      BY <2>4, <2>5, <2>6, <2>7
  <1>10. at \in [1..Len(content) -> DOMAIN new]
    BY <1>5, <1>6
  <1> HIDE DEF old, new
  <1>11. extends(old, new, content)
    BY <1>6, <1>7, <1>8, <1>9, <1>10 DEF extends
  <1> QED
    BY <1>11 DEF old, new

\* Blocks that join the messages are told behind them.
LEMMA JoinedTold ==
    ASSUME NEW messages \in Seq(AnthropicMessages), NEW more \in Seq(AnthropicMessages),
           NEW role, NEW blocks \in Seq(Blocks), NEW content \in Seq(Atoms),
           joined(messages, role, blocks, more), unfolds(blocks, content),
           blocks = <<>> => content = <<>>
    PROVE  extends(placedAnthropic(messages), placedAnthropic(more), content)
  <1>1. Len(content) \in Nat /\ Len(messages) \in Nat /\ Len(blocks) \in Nat /\ Len(more) \in Nat
    BY LenProperties
  <1>2. CASE blocks = <<>>
    BY <1>2, ExtendsSame DEF joined
  <1>3. CASE blocks # <<>> /\ messages # <<>> /\ messages[Len(messages)].role = role
    <2>1. PICK n : n = Len(messages)
      OBVIOUS
    <2>2. PICK earlier : earlier = messages[n].blocks
      OBVIOUS
    <2>3. /\ Len(more) = n /\ n \in Nat /\ n > 0 /\ n \in 1..n
          /\ more[n].blocks = earlier \o blocks
          /\ \A l \in 1..n - 1 : more[l] = messages[l]
      BY <1>3, <2>1, <2>2 DEF joined
    <2>4. earlier \in Seq(Blocks) /\ Len(earlier) \in Nat
      BY <2>1, <2>2, <2>3, MessageBlocks
    <2>5. /\ Len(earlier \o blocks) = Len(earlier) + Len(blocks)
          /\ \A b \in 1..Len(earlier) + Len(blocks) :
                (earlier \o blocks)[b] = IF b <= Len(earlier) THEN earlier[b]
                                         ELSE blocks[b - Len(earlier)]
      BY <2>4, ConcatProperties
    <2>6. PICK o : o = Len(earlier)
      OBVIOUS
    <2>7. /\ \A b \in 1..o : more[n].blocks[b] = earlier[b]
          /\ \A b \in 1..Len(blocks) : more[n].blocks[o + b] = blocks[b]
          /\ Len(more[n].blocks) = o + Len(blocks)
      <3>1. \A b \in 1..o : b \in 1..o + Len(blocks) /\ b <= o
        BY <1>1, <2>4, <2>6
      <3>2. \A b \in 1..Len(blocks) : /\ o + b \in 1..o + Len(blocks) /\ ~(o + b <= o)
                                      /\ o + b - o = b
        BY <1>1, <2>4, <2>6
      <3> QED
        BY <2>3, <2>5, <2>6, <3>1, <3>2
    <2>8. /\ n \in Nat /\ o \in Nat /\ n = Len(more) /\ n > 0 /\ Len(messages) \in {n - 1, n}
          /\ \A l \in 1..n - 1 : more[l].blocks = messages[l].blocks
          /\ Len(messages) = n => o = Len(messages[n].blocks)
          /\ Len(messages) # n => o = 0
          /\ Len(more[n].blocks) = o + Len(blocks)
          /\ \A b \in 1..o : more[n].blocks[b] = messages[n].blocks[b]
          /\ \A b \in 1..Len(blocks) : more[n].blocks[o + b] = blocks[b]
      BY <2>1, <2>2, <2>3, <2>4, <2>6, <2>7
    <2> QED
      BY <1>1, <2>8, BlocksPlaced
  <1>4. CASE blocks # <<>> /\ ~(messages # <<>> /\ messages[Len(messages)].role = role)
    <2>1. PICK n : n = Len(messages) + 1
      OBVIOUS
    <2>2. PICK o : o = 0
      OBVIOUS
    <2>3. /\ Len(more) = n /\ n \in Nat /\ n > 0 /\ Len(messages) = n - 1
          /\ more[n].blocks = blocks
          /\ \A l \in 1..n - 1 : more[l] = messages[l]
      BY <1>1, <1>4, <2>1 DEF joined
    <2>4. /\ o \in Nat /\ Len(messages) # n /\ Len(more[n].blocks) = o + Len(blocks)
          /\ \A b \in 1..o : more[n].blocks[b] = messages[n].blocks[b]
          /\ \A b \in 1..Len(blocks) : more[n].blocks[o + b] = blocks[b]
      BY <1>1, <2>2, <2>3
    <2>5. /\ n \in Nat /\ n = Len(more) /\ n > 0 /\ Len(messages) \in {n - 1, n}
          /\ \A l \in 1..n - 1 : more[l].blocks = messages[l].blocks
          /\ Len(messages) = n => o = Len(messages[n].blocks)
          /\ Len(messages) # n => o = 0
      BY <2>2, <2>3, <2>4
    <2> QED
      BY <1>1, <2>4, <2>5, BlocksPlaced
  <1> QED
    BY <1>2, <1>3, <1>4

-----------------------------------------------------------------------------
(* The dialogue told so far.                                                 *)

\* The parts of an item that a Chat upstream is told, and whether it is told the
\* whole as JSON.
chatParts(item) ==
    CASE item.type = "message" ->
            ofKinds(item.content.parts,
                    IF item.role = "user" THEN PartKinds \ {"hollow"} ELSE {"text"})
      [] item.type = "output" /\ ~hasPart(item.output.parts, {"other"}) ->
            ofKinds(item.output.parts, {"text"} \cup ChatMedia)
      [] OTHER -> {}
chatWhole(item) == item.type = "output" /\ hasPart(item.output.parts, {"other"})

\* The parts of an item that an Anthropic upstream is told.
anthropicParts(item) ==
    CASE item.type = "message" /\ item.role # "system" ->
            ofKinds(item.content.parts, {"text", "image", "file"})
      [] item.type = "output" /\ ~hasPart(item.output.parts, NotInOutputs) ->
            ofKinds(item.output.parts, {"text", "image"})
      [] OTHER -> {}
anthropicWhole(item) ==
    item.type = "output" /\ hasPart(item.output.parts, NotInOutputs)

\* All that was read has been told or is held back, in order.
ChatKept ==
    chatError = "" =>
        /\ Kept(input, Len(input), placedChat(chat), pendingMedia)
        /\ \A i \in 1..Len(input) :
              covers(Range(placedChat(chat)) \cup Range(pendingMedia), i,
                     chatParts(input[i]), chatWhole(input[i]))
AnthropicKept ==
    anthropicError = "" =>
        /\ Kept(input, Len(input), placedAnthropic(anthropic), <<>>)
        /\ \A i \in 1..Len(input) :
              covers(Range(placedAnthropic(anthropic)), i,
                     anthropicParts(input[i]), anthropicWhole(input[i]))

\* One more item is told of, behind the others.
LEMMA CoversOn ==
    ASSUME NEW n \in Nat, NEW old, NEW more, NEW P, NEW W,
           \A a \in old : a.item \in 1..n, \A a \in more : a.item = n + 1,
           \A i \in 1..n : covers(old, i, P[i], W[i]),
           covers(more, n + 1, P[n + 1], W[n + 1])
    PROVE  \A i \in 1..n + 1 : covers(old \cup more, i, P[i], W[i])
  <1> SUFFICES ASSUME NEW i \in 1..n + 1
               PROVE  covers(old \cup more, i, P[i], W[i])
    OBVIOUS
  <1>1. CASE i = n + 1
    <2>1. \A a \in old : a.item # n + 1
      OBVIOUS
    <2> QED
      BY <1>1, <2>1, CoversMore
  <1>2. CASE i # n + 1
    <2>1. i \in 1..n
      BY <1>2
    <2> QED
      BY <1>2, <2>1, CoversMore
  <1> QED
    BY <1>1, <1>2

\* The one has no part of the other.
differ(s, t) == \A a \in Range(s) : \A b \in Range(t) : a.part # b.part

\* What one item adds is told behind the others, or held back.
LEMMA KeptOn ==
    ASSUME NEW items, NEW more, NEW n \in Nat, NEW last \in Nat, n = last - 1, last \in 1..MaxItems,
           \A k \in 1..n : more[k] = items[k],
           NEW old, NEW new, NEW held \in Seq(Atoms), NEW s \in Seq(Atoms),
           NEW media \in Seq(Atoms), NEW later, later = held \o media,
           Kept(items, n, old, held), Range(old) \subseteq Atoms,
           DOMAIN new \subseteq Triples, extends(old, new, s),
           rising(s, last), rising(media, last),
           differ(s, media), (held = <<>> /\ media = <<>>) \/ more[last].type = "output"
    PROVE  Kept(more, last, new, later)
  <1>1. \A a \in Range(old) \cup Range(held) : a.item \in 1..n
    BY DEF Kept
  <1>2. Kept(more, last, old, held)
    BY KeptRead
  <1>3. Kept(more, last, new, held) /\ Range(new) = Range(old) \cup Range(s)
    <2>1. within(Range(old), n) /\ within(Range(held), n)
      BY <1>1 DEF within
    <2>2. Kept(more, last, new, held)
      BY <1>2, <2>1, KeptTold
    <2> QED
      BY <2>2, RangeExtended
  <1>4. CASE more[last].type = "output"
    <2>1. Range(s) \subseteq Atoms /\ \A a \in Range(s) : a.item = last
      <3>1. Range(s) \subseteq Atoms /\ \A a \in Range(s) : \E k \in 1..Len(s) : s[k] = a
        BY Elements
      <3> QED
        BY <3>1 DEF rising
    <2>2. Range(new) \subseteq Atoms
      BY <1>3, <2>1
    <2>3. apart(Range(new), Range(media), n, last) /\ within(Range(held), n)
      BY <1>1, <1>3, <2>1 DEF within, apart, differ
    <2>4. Kept(more, last, new, later)
      BY <1>3, <1>4, <2>2, <2>3, KeptHeld
    <2> QED
      BY <2>4
  <1>5. CASE held = <<>> /\ media = <<>>
    <2>1. later = held
      BY <1>5, ConcatEmptySeq
    <2> QED
      BY <1>3, <1>5, <2>1
  <1> QED
    BY <1>4, <1>5

\* What the messages say are atoms.
LEMMA ChatRange ==
    ASSUME NEW messages \in Seq(ChatMessages)
    PROVE  /\ Range(placedChat(messages)) \subseteq Atoms
           /\ DOMAIN placedChat(messages) \subseteq Triples
  <1>1. \A n \in 1..Len(messages) : \A p \in 1..Len(messages[n].content) :
           messages[n].content[p] \in Atoms
    BY MessageCalls
  <1>2. ASSUME NEW q \in DOMAIN placedChat(messages) PROVE placedChat(messages)[q] \in Atoms
    <2>1. PICK n \in 1..Len(messages) : \E p \in 1..Len(messages[n].content) : q = <<n, 1, p>>
      BY ChatPlaces
    <2>2. PICK p \in 1..Len(messages[n].content) : q = <<n, 1, p>>
      BY <2>1
    <2> QED
      BY <1>1, <2>2, ChatPlaces
  <1>3. DOMAIN placedChat(messages) \subseteq Triples
    BY ChatPlaces
  <1> QED
    BY <1>2, <1>3 DEF Range

\* What the messages to an Anthropic upstream say are atoms.
LEMMA AnthropicRange ==
    ASSUME NEW messages \in Seq(AnthropicMessages)
    PROVE  /\ Range(placedAnthropic(messages)) \subseteq Atoms
           /\ DOMAIN placedAnthropic(messages) \subseteq Triples
  <1>1. ASSUME NEW q \in DOMAIN placedAnthropic(messages)
        PROVE  placedAnthropic(messages)[q] \in Atoms
    <2>1. PICK n, b, p : spokenAt(messages, n, b, p) /\ q = <<n, b, p>>
      BY BlockPlaces
    <2>2. placedAnthropic(messages)[q] = messages[n].blocks[b].content[p]
      BY <2>1, BlockPlaces
    <2>3. messages[n].blocks[b] \in Blocks /\ messages[n].blocks[b].type # "tool_use"
          /\ p \in 1..Len(messages[n].blocks[b].content)
      BY <2>1, MessageBlocks DEF spokenAt
    <2>4. messages[n].blocks[b].content \in Seq(Atoms)
      BY <2>3, BlockContents
    <2> QED
      BY <2>2, <2>3, <2>4
  <1>2. DOMAIN placedAnthropic(messages) \subseteq Triples
    BY BlockPlaces
  <1> QED
    BY <1>1, <1>2 DEF Range

\* A message that is added is told behind the others.
LEMMA MessageTold ==
    ASSUME NEW messages \in Seq(ChatMessages), NEW m \in ChatMessages,
           NEW content \in Seq(Atoms), m.content = content,
           NEW more, more = Append(messages, m)
    PROVE  more \in Seq(ChatMessages) /\ extends(placedChat(messages), placedChat(more), content)
  <1>1. PICK n : n = Len(messages) + 1
    OBVIOUS
  <1>2. PICK o : o = 0
    OBVIOUS
  <1>3. /\ more \in Seq(ChatMessages) /\ Len(more) = n /\ n \in Nat /\ n > 0
        /\ Len(messages) = n - 1 /\ more[n] = m /\ \A l \in 1..n - 1 : more[l] = messages[l]
    BY <1>1, Appended
  <1>4. /\ o \in Nat /\ Len(messages) # n /\ Len(content) \in Nat
        /\ Len(more[n].content) = o + Len(content)
        /\ \A k \in 1..o : more[n].content[k] = messages[n].content[k]
        /\ \A k \in 1..Len(content) : more[n].content[o + k] = content[k]
    BY <1>2, <1>3
  <1>5. /\ n = Len(more) /\ Len(messages) \in {n - 1, n}
        /\ \A l \in 1..n - 1 : more[l].content = messages[l].content
        /\ Len(messages) = n => o = Len(messages[n].content)
        /\ Len(messages) # n => o = 0
    BY <1>2, <1>3, <1>4
  <1>6. extends(placedChat(messages), placedChat(more), content)
    BY <1>3, <1>4, <1>5, ContentAdded
  <1> QED
    BY <1>3, <1>6

\* One more.
LEMMA Successor ==
    \A n \in Nat : /\ n + 1 \in Nat /\ n = (n + 1) - 1 /\ n + 1 \in 1..n + 1
                   /\ \A i \in 1..n : i \in 1..n + 1
  OBVIOUS

\* A message without calls that answers none.
LEMMA NoCalls == <<>> \in Seq(ChatCalls) /\ NoCall \in Answers
  <1>1. \A S : <<>> \in Seq(S)
    BY EmptySeq
  <1>2. NoCall \in {NoCall}
    OBVIOUS
  <1> QED
    BY <1>1, <1>2 DEF Answers

\* A message says its content.
LEMMA MessageSays ==
    ASSUME NEW content \in Seq(Atoms), NEW answers \in Answers,
           NEW role \in {"system", "user", "assistant", "tool"},
           NEW m, m = chatMessage(role, content, <<>>, answers)
    PROVE  m \in ChatMessages /\ m.content = content
  <1>1. m \in ChatMessages
    BY NoCalls, MessageTypes
  <1>2. m.content = content
    BY DEF chatMessage
  <1> QED
    BY <1>1, <1>2

\* The media held back are sent on as a message of their own.
LEMMA PendingTold ==
    ASSUME DialogueTypes, chatError = "", ChatKept
    PROVE  LET base == withPendingMedia(chat) IN
           /\ Kept(input, Len(input), placedChat(base), <<>>)
           /\ Range(placedChat(base)) = Range(placedChat(chat)) \cup Range(pendingMedia)
  <1> DEFINE base == withPendingMedia(chat)
  <1>1. chat \in Seq(ChatMessages) /\ pendingMedia \in Seq(Atoms) /\ base \in Seq(ChatMessages)
    BY PendingSent DEF DialogueTypes
  <1>2. Kept(input, Len(input), placedChat(chat), pendingMedia)
    BY DEF ChatKept
  <1>3. CASE pendingMedia = <<>>
    <2>1. base = chat
      BY <1>3, PendingSent
    <2> QED
      BY <1>2, <1>3, <2>1, NoElements
  <1>4. CASE pendingMedia # <<>>
    <2>0. PICK m : m = chatMessage("user", pendingMedia, <<>>, NoCall)
      OBVIOUS
    <2>1. m \in ChatMessages /\ m.content = pendingMedia
      BY <1>1, <2>0, NoCalls, MessageSays
    <2>2. base = Append(chat, m)
      BY <1>4, <2>0 DEF withPendingMedia
    <2> HIDE DEF base
    <2>3. extends(placedChat(chat), placedChat(base), pendingMedia)
      BY <1>1, <2>1, <2>2, MessageTold
    <2>4. PICK new : new = placedChat(base)
      OBVIOUS
    <2>5. DOMAIN new \subseteq Triples
      BY <1>1, <2>4, ChatRange
    <2>6. Kept(input, Len(input), new, <<>>)
      BY <1>1, <1>2, <2>3, <2>4, <2>5, KeptFlushed
    <2>7. Range(new) = Range(placedChat(chat)) \cup Range(pendingMedia)
      BY <1>1, <2>3, <2>4, RangeExtended
    <2> QED
      BY <2>4, <2>6, <2>7 DEF base
  <1> QED
    BY <1>3, <1>4

\* The item read adds a content and media to the messages.
LEMMA ChatTold ==
    ASSUME DialogueTypes, ChatKept, NEW item \in Items, Read(item), chatError = "",
           NEW base \in Seq(ChatMessages), NEW held \in Seq(Atoms),
           \/ base = chat /\ held = pendingMedia /\ item.type = "output"
           \/ base = withPendingMedia(chat) /\ held = <<>>,
           NEW s \in Seq(Atoms), NEW media \in Seq(Atoms),
           chat' \in Seq(ChatMessages), extends(placedChat(base), placedChat(chat'), s),
           pendingMedia' = held \o media, rising(s, here), rising(media, here),
           differ(s, media), media = <<>> \/ item.type = "output",
           covers(Range(s) \cup Range(media), here, chatParts(item), chatWhole(item))
    PROVE  ChatKept'
  <1> DEFINE n == Len(input)
             before0 == Range(placedChat(base)) \cup Range(held)
             after0 == Range(s) \cup Range(media)
  <1>1. /\ n \in Nat /\ here = n + 1 /\ n + 1 \in 1..MaxItems /\ Len(input') = n + 1
        /\ input'[n + 1] = item /\ \A l \in 1..n : input'[l] = input[l]
    BY ReadExtends
  <1>2. /\ Kept(input, n, placedChat(base), held)
        /\ before0 = Range(placedChat(chat)) \cup Range(pendingMedia)
    <2>1. CASE base = chat /\ held = pendingMedia
      BY <2>1 DEF ChatKept
    <2>2. CASE base = withPendingMedia(chat) /\ held = <<>>
      BY <2>2, PendingTold, NoElements
    <2> QED
      BY <2>1, <2>2
  <1>3. (held = <<>> /\ media = <<>>) \/ input'[n + 1].type = "output"
    BY <1>1
  <1> HIDE DEF n
  <1>4. /\ Kept(input', n + 1, placedChat(chat'), pendingMedia')
        /\ Range(placedChat(chat')) \cup Range(pendingMedia') = before0 \cup after0
    <2>1. PICK last \in Nat : last = n + 1 /\ n = last - 1
      BY <1>1, Successor, Zenon
    <2>2. PICK old : old = placedChat(base)
      OBVIOUS
    <2>3. PICK new : new = placedChat(chat')
      OBVIOUS
    <2>4. Range(old) \subseteq Atoms /\ DOMAIN new \subseteq Triples
      BY <2>2, <2>3, ChatRange
    <2>5. /\ n = last - 1 /\ last \in 1..MaxItems /\ extends(old, new, s)
          /\ rising(s, last) /\ rising(media, last) /\ Kept(input, n, old, held)
          /\ (held = <<>> /\ media = <<>>) \/ input'[last].type = "output"
      BY <1>1, <1>2, <1>3, <2>1, <2>2, <2>3, Zenon
    <2>6. Kept(input', last, new, pendingMedia')
      BY <1>1, <2>4, <2>5, KeptOn
    <2>7. Range(new) = Range(old) \cup Range(s)
      BY <2>5, RangeExtended
    <2>8. Range(pendingMedia') = Range(held) \cup Range(media)
      <3>1. PICK later : later = pendingMedia' /\ later = held \o media
        OBVIOUS
      <3>2. Range(later) = Range(held) \cup Range(media)
        BY <3>1, JoinedElements
      <3> QED
        BY <3>1, <3>2
    <2> QED
      BY <2>1, <2>2, <2>3, <2>6, <2>7, <2>8
  <1>5. PICK P : P = [i \in 1..n + 1 |-> chatParts(input'[i])]
    OBVIOUS
  <1>6. PICK W : W = [i \in 1..n + 1 |-> chatWhole(input'[i])]
    OBVIOUS
  <1>7. /\ \A i \in 1..n + 1 : P[i] = chatParts(input'[i]) /\ W[i] = chatWhole(input'[i])
        /\ n + 1 \in 1..n + 1 /\ \A i \in 1..n : i \in 1..n + 1
    <2>1. \A i \in 1..n + 1 : P[i] = chatParts(input'[i])
      BY <1>5
    <2>2. \A i \in 1..n + 1 : W[i] = chatWhole(input'[i])
      BY <1>6
    <2>3. n + 1 \in 1..n + 1 /\ \A i \in 1..n : i \in 1..n + 1
      BY <1>1, Successor, Zenon
    <2> QED
      BY <2>1, <2>2, <2>3
  <1>8. \A i \in 1..n : covers(before0, i, P[i], W[i])
    <2>1. \A i \in 1..n : covers(before0, i, chatParts(input[i]), chatWhole(input[i]))
      BY <1>2 DEF ChatKept, n
    <2> QED
      BY <1>1, <1>7, <2>1
  <1>9. covers(after0, n + 1, P[n + 1], W[n + 1])
    BY <1>1, <1>7
  <1>10. (\A a \in before0 : a.item \in 1..n) /\ \A a \in after0 : a.item = n + 1
    <2>1. \A a \in before0 : a.item \in 1..n
      BY <1>2 DEF Kept
    <2>2. \A a \in Range(s) : a.item = n + 1
      <3>1. \A a \in Range(s) : \E k \in 1..Len(s) : s[k] = a
        BY Elements
      <3> QED
        BY <1>1, <3>1 DEF rising
    <2>3. \A a \in Range(media) : a.item = n + 1
      <3>1. \A a \in Range(media) : \E k \in 1..Len(media) : media[k] = a
        BY Elements
      <3> QED
        BY <1>1, <3>1 DEF rising
    <2> QED
      BY <2>1, <2>2, <2>3
  <1> HIDE DEF before0, after0
  <1>11. \A i \in 1..n + 1 : covers(before0 \cup after0, i, P[i], W[i])
    BY <1>1, <1>8, <1>9, <1>10, CoversOn
  <1> QED
    BY <1>1, <1>4, <1>7, <1>11 DEF ChatKept

\* The item read adds a content to the messages for an Anthropic upstream.
LEMMA AnthropicTold ==
    ASSUME DialogueTypes, AnthropicKept, NEW item \in Items, Read(item), anthropicError = "",
           NEW s \in Seq(Atoms), anthropic' \in Seq(AnthropicMessages),
           extends(placedAnthropic(anthropic), placedAnthropic(anthropic'), s),
           rising(s, here), covers(Range(s), here, anthropicParts(item), anthropicWhole(item))
    PROVE  AnthropicKept'
  <1> DEFINE n == Len(input)
             old == placedAnthropic(anthropic)
             new == placedAnthropic(anthropic')
  <1>1. /\ n \in Nat /\ here = n + 1 /\ n + 1 \in 1..MaxItems /\ Len(input') = n + 1
        /\ input'[n + 1] = item /\ \A l \in 1..n : input'[l] = input[l]
    BY ReadExtends
  <1>2. /\ Kept(input, n, old, <<>>)
        /\ \A i \in 1..n : covers(Range(old), i, anthropicParts(input[i]), anthropicWhole(input[i]))
    BY DEF AnthropicKept
  <1>3. /\ <<>> \in Seq(Atoms) /\ Range(<<>>) = {} /\ rising(<<>>, n + 1)
        /\ <<>> = <<>> \o <<>>
    BY NoElements, NothingTold, ConcatEmptySeq
  <1>4. Range(old) \subseteq Atoms /\ DOMAIN new \subseteq Triples
    BY AnthropicRange DEF DialogueTypes
  <1> HIDE DEF n, old, new
  <1>5. Kept(input', n + 1, new, <<>>)
    <2>1. PICK none \in Seq(Atoms) : none = <<>>
      BY <1>3
    <2>2. none = none \o none /\ rising(none, n + 1) /\ Range(none) = {}
      BY <1>3, <2>1
    <2>3. extends(old, new, s) /\ rising(s, n + 1) /\ Kept(input, n, old, none)
      BY <1>1, <1>2, <2>1 DEF old, new
    <2>4. differ(s, none)
      BY <2>2 DEF differ
    <2>5. PICK last \in Nat : last = n + 1 /\ n = last - 1
      BY <1>1, Successor, Zenon
    <2>6. /\ n = last - 1 /\ last \in 1..MaxItems /\ rising(s, last) /\ rising(none, last)
          /\ none = <<>> /\ none = none \o none
      BY <1>1, <2>1, <2>2, <2>3, <2>5, Zenon
    <2>7. Kept(input', last, new, none)
      BY <1>1, <1>4, <2>3, <2>4, <2>6, KeptOn
    <2> QED
      BY <2>1, <2>5, <2>7
  <1>6. Range(new) = Range(old) \cup Range(s)
    <2>1. extends(old, new, s)
      BY DEF old, new
    <2> QED
      BY <2>1, RangeExtended
  <1>7. PICK P : P = [i \in 1..n + 1 |-> anthropicParts(input'[i])]
    OBVIOUS
  <1>8. PICK W : W = [i \in 1..n + 1 |-> anthropicWhole(input'[i])]
    OBVIOUS
  <1>9. /\ \A i \in 1..n + 1 : P[i] = anthropicParts(input'[i]) /\ W[i] = anthropicWhole(input'[i])
        /\ n + 1 \in 1..n + 1 /\ \A i \in 1..n : i \in 1..n + 1
    <2>1. \A i \in 1..n + 1 : P[i] = anthropicParts(input'[i])
      BY <1>7
    <2>2. \A i \in 1..n + 1 : W[i] = anthropicWhole(input'[i])
      BY <1>8
    <2>3. n + 1 \in 1..n + 1 /\ \A i \in 1..n : i \in 1..n + 1
      BY <1>1, Successor, Zenon
    <2> QED
      BY <2>1, <2>2, <2>3
  <1>10. (\A a \in Range(old) : a.item \in 1..n) /\ \A a \in Range(s) : a.item = n + 1
    <2>1. \A a \in Range(old) : a.item \in 1..n
      BY <1>2 DEF Kept
    <2>2. \A a \in Range(s) : \E k \in 1..Len(s) : s[k] = a
      BY Elements
    <2> QED
      BY <1>1, <2>1, <2>2 DEF rising
  <1>11. /\ \A i \in 1..n : covers(Range(old), i, P[i], W[i])
         /\ covers(Range(s), n + 1, P[n + 1], W[n + 1])
    BY <1>1, <1>2, <1>9
  <1>12. \A i \in 1..n + 1 : covers(Range(old) \cup Range(s), i, P[i], W[i])
    BY <1>1, <1>10, <1>11, CoversOn
  <1> QED
    BY <1>1, <1>5, <1>6, <1>9, <1>12 DEF AnthropicKept, new

\* What the assistant says is told behind the others.
LEMMA SpeechTold ==
    ASSUME NEW messages \in Seq(ChatMessages), NEW content \in Seq(Atoms),
           NEW more, more = appendAssistantMessage(messages, content)
    PROVE  extends(placedChat(messages), placedChat(more), content)
  <1>0. more \in Seq(ChatMessages)
    BY SpeechAppended
  <1>1. CASE /\ messages # <<>> /\ messages[Len(messages)].role = "assistant"
             /\ messages[Len(messages)].calls = <<>>
    <2>1. PICK n : n = Len(messages)
      OBVIOUS
    <2>2. n \in Nat /\ n > 0 /\ n \in 1..n /\ DOMAIN messages = 1..n
      BY <1>1, <2>1, EmptySeq, LenProperties
    <2>3. messages[n] \in ChatMessages
      BY <2>1, <2>2, MessageCalls
    <2>4. PICK said0 : said0 = messages[n].content
      OBVIOUS
    <2>5. said0 \in Seq(Atoms) /\ Len(said0) \in Nat /\ Len(content) \in Nat
      BY <2>3, <2>4 DEF ChatMessages
    <2>6. more = [messages EXCEPT ![n].content = said0 \o content]
      BY <1>1, <2>1, <2>4 DEF appendAssistantMessage, Last
    <2>7. /\ Len(more) = n /\ more[n].content = said0 \o content
          /\ \A l \in 1..n - 1 : more[l].content = messages[l].content
      <3>1. /\ DOMAIN more = 1..n /\ more[n].content = said0 \o content
            /\ \A l \in 1..n : l # n => more[l] = messages[l]
        BY <2>2, <2>3, <2>6 DEF ChatMessages
      <3>2. Len(more) = n
        BY <1>0, <2>2, <3>1, LenProperties
      <3>3. \A l \in 1..n - 1 : l \in 1..n /\ l # n
        BY <2>2
      <3> QED
        BY <3>1, <3>2, <3>3
    <2>8. PICK o : o = Len(said0)
      OBVIOUS
    <2>9. /\ Len(said0 \o content) = Len(said0) + Len(content)
          /\ \A k \in 1..Len(said0) + Len(content) :
                (said0 \o content)[k] = IF k <= Len(said0) THEN said0[k]
                                        ELSE content[k - Len(said0)]
      BY <2>5, ConcatProperties
    <2>10. /\ \A k \in 1..o : more[n].content[k] = said0[k]
           /\ \A k \in 1..Len(content) : more[n].content[o + k] = content[k]
           /\ Len(more[n].content) = o + Len(content)
      <3>1. \A k \in 1..o : k \in 1..o + Len(content) /\ k <= o
        BY <2>5, <2>8
      <3>2. \A k \in 1..Len(content) : /\ o + k \in 1..o + Len(content) /\ ~(o + k <= o)
                                       /\ o + k - o = k
        BY <2>5, <2>8
      <3> QED
        BY <2>7, <2>8, <2>9, <3>1, <3>2
    <2> QED
      BY <1>0, <2>1, <2>2, <2>4, <2>5, <2>7, <2>8, <2>10, ContentAdded
  <1>2. CASE ~(/\ messages # <<>> /\ messages[Len(messages)].role = "assistant"
               /\ messages[Len(messages)].calls = <<>>)
    <2>1. PICK m : m = chatMessage("assistant", content, <<>>, NoCall)
      OBVIOUS
    <2>2. m \in ChatMessages /\ m.content = content
      BY <2>1, NoCalls, MessageSays
    <2>3. more = Append(messages, m)
      BY <1>2, <2>1 DEF appendAssistantMessage, Last
    <2> QED
      BY <2>2, <2>3, MessageTold
  <1> QED
    BY <1>1, <1>2

\* A call tells nothing.
LEMMA CallTold ==
    ASSUME NEW messages \in Seq(ChatMessages), NEW call \in ChatCalls,
           NEW more, more = appendAssistantToolCall(messages, call)
    PROVE  extends(placedChat(messages), placedChat(more), <<>>)
  <1>0. more \in Seq(ChatMessages) /\ <<>> \in Seq(Atoms) /\ Len(<<>>) = 0
    BY CallAppended, EmptySeq
  <1>1. CASE messages # <<>> /\ messages[Len(messages)].role = "assistant"
    <2>1. PICK n : n = Len(messages)
      OBVIOUS
    <2>2. n \in Nat /\ n > 0 /\ n \in 1..n /\ DOMAIN messages = 1..n
      BY <1>1, <2>1, EmptySeq, LenProperties
    <2>3. messages[n] \in ChatMessages
      BY <2>1, <2>2, MessageCalls
    <2>4. more = [messages EXCEPT ![n].calls = Append(@, call)]
      BY <1>1, <2>1 DEF appendAssistantToolCall, Last
    <2>5. /\ DOMAIN more = 1..n /\ more[n].content = messages[n].content
          /\ \A l \in 1..n : l # n => more[l] = messages[l]
      BY <2>2, <2>3, <2>4 DEF ChatMessages
    <2>6. Len(more) = n
      BY <1>0, <2>2, <2>5, LenProperties
    <2>7. \A l \in 1..n : more[l].content = messages[l].content
      BY <2>5
    <2>8. placedChat(more) = placedChat(messages)
      <3>1. ASSUME NEW a \in Seq(ChatMessages), NEW b \in Seq(ChatMessages), Len(a) = n, Len(b) = n,
                   \A l \in 1..n : a[l].content = b[l].content
            PROVE  \A q \in DOMAIN placedChat(a) : q \in DOMAIN placedChat(b)
        <4> TAKE q \in DOMAIN placedChat(a)
        <4>1. PICK l \in 1..n : \E p \in 1..Len(a[l].content) : q = <<l, 1, p>>
          BY <3>1, ChatPlaces
        <4>2. PICK p \in 1..Len(b[l].content) : q = <<l, 1, p>>
          BY <3>1, <4>1
        <4> QED
          BY <3>1, <4>2, ChatPlaces
      <3>2. DOMAIN placedChat(more) = DOMAIN placedChat(messages)
        <4>1. /\ Len(messages) = n
              /\ \A l \in 1..n : messages[l].content = more[l].content
          BY <2>1, <2>7
        <4>2. \A q \in DOMAIN placedChat(messages) : q \in DOMAIN placedChat(more)
          BY <1>0, <2>6, <3>1, <4>1
        <4>3. \A q \in DOMAIN placedChat(more) : q \in DOMAIN placedChat(messages)
          BY <1>0, <2>6, <2>7, <3>1, <4>1
        <4> QED
          BY <4>2, <4>3
      <3>3. ASSUME NEW q \in DOMAIN placedChat(messages)
            PROVE  placedChat(more)[q] = placedChat(messages)[q]
        <4>1. PICK l \in 1..n : \E p \in 1..Len(messages[l].content) : q = <<l, 1, p>>
          BY <2>1, ChatPlaces
        <4>2. PICK p \in 1..Len(messages[l].content) : q = <<l, 1, p>>
          BY <4>1
        <4>3. placedChat(messages)[q] = messages[l].content[p]
          BY <2>1, <4>2, ChatPlaces
        <4>4. placedChat(more)[q] = more[l].content[p]
          BY <1>0, <2>6, <2>7, <4>2, ChatPlaces
        <4> QED
          BY <2>7, <4>3, <4>4
      <3> QED
        BY <3>2, <3>3 DEF placedChat
    <2> QED
      BY <2>8, ExtendsSame
  <1>2. CASE ~(messages # <<>> /\ messages[Len(messages)].role = "assistant")
    <2>1. PICK m : m = chatMessage("assistant", <<>>, <<call>>, NoCall)
      OBVIOUS
    <2>2. m \in ChatMessages /\ m.content = <<>>
      <3>1. <<call>> \in Seq(ChatCalls) /\ NoCall \in Answers
        BY NoCalls
      <3>2. m \in ChatMessages
        BY <1>0, <2>1, <3>1, MessageTypes
      <3> QED
        BY <2>1, <3>2 DEF chatMessage
    <2>3. more = Append(messages, m)
      BY <1>2, <2>1 DEF appendAssistantToolCall, Last
    <2> QED
      BY <1>0, <2>2, <2>3, MessageTold
  <1> QED
    BY <1>1, <1>2

\* Nothing of an item is told.
LEMMA NothingCovered ==
    ASSUME NEW i
    PROVE  /\ <<>> \in Seq(Atoms) /\ rising(<<>>, i) /\ Range(<<>>) = {}
           /\ covers(Range(<<>>), i, {}, FALSE)
           /\ covers(Range(<<>>) \cup Range(<<>>), i, {}, FALSE)
           /\ <<>> = <<>> \o <<>>
  <1>1. Range(<<>>) \cup Range(<<>>) = Range(<<>>)
    BY NoElements
  <1> QED
    BY <1>1, NoElements, NothingTold, ConcatEmptySeq

\* What a message that is read tells a Chat upstream.
LEMMA ChatMessageTold ==
    ASSUME DialogueTypes, ChatKept, NEW item \in Items, Taken(item), chatError = "",
           NEW s \in Seq(Atoms), rising(s, here), chat' \in Seq(ChatMessages),
           extends(placedChat(withPendingMedia(chat)), placedChat(chat'), s),
           pendingMedia' = <<>>, covers(Range(s), here, chatParts(item), chatWhole(item))
    PROVE  ChatKept'
  <1>1. Read(item)
    BY ChatTaken
  <1>2. PICK none \in Seq(Atoms) : none = <<>>
    BY NothingCovered
  <1>3. /\ none = <<>> /\ rising(none, here) /\ Range(none) = {} /\ pendingMedia' = none \o none
    BY <1>2, NothingCovered
  <1>4. PICK base \in Seq(ChatMessages) : base = withPendingMedia(chat)
    BY PendingSent
  <1>5. Range(s) \cup Range(none) = Range(s) /\ differ(s, none)
    BY <1>3 DEF differ
  <1>6. covers(Range(s) \cup Range(none), here, chatParts(item), chatWhole(item))
    BY <1>5
  <1>7. extends(placedChat(base), placedChat(chat'), s)
    BY <1>4
  <1>8. /\ \/ base = chat /\ none = pendingMedia /\ item.type = "output"
           \/ base = withPendingMedia(chat) /\ none = <<>>
        /\ none = <<>> \/ item.type = "output"
    BY <1>3, <1>4
  <1> QED
    BY <1>1, <1>3, <1>5, <1>6, <1>7, <1>8, ChatTold

\* The call of an item.
LEMMA CallMade ==
    ASSUME NEW i \in 1..MaxItems, NEW item \in {it \in Items : it.type \in Calls},
           NEW call, call = callOf(i, item)
    PROVE  call \in ChatCalls
  <1>1. callOf(i, item) \in ChatCalls
    BY DEF ChatCalls
  <1> QED
    BY <1>1

\* Every item that is taken tells a Chat upstream its parts.
LEMMA ChatTakenTold ==
    ASSUME DialogueTypes, ChatKept, NEW item \in Items, Taken(item), chatError = ""
    PROVE  ChatKept'
  <1>1. Read(item) /\ chat' \in Seq(ChatMessages)
    BY ChatTaken
  <1>2. /\ here \in 1..MaxItems /\ chat \in Seq(ChatMessages) /\ pendingMedia \in Seq(Atoms)
    BY <1>1, ReadExtends DEF DialogueTypes
  <1>3. PICK base \in Seq(ChatMessages) : base = withPendingMedia(chat)
    BY PendingSent
  <1>4. <<>> \in Seq(ChatCalls) /\ NoCall \in Answers
    BY NoCalls
  <1>5. ASSUME NEW s \in Seq(Atoms), rising(s, here), pendingMedia' = <<>>,
               extends(placedChat(base), placedChat(chat'), s),
               covers(Range(s), here, chatParts(item), chatWhole(item))
        PROVE  ChatKept'
    BY <1>1, <1>3, <1>5, ChatMessageTold
  <1>6. ASSUME extends(placedChat(base), placedChat(chat'), <<>>), pendingMedia' = <<>>,
               chatParts(item) = {}, chatWhole(item) = FALSE
        PROVE  ChatKept'
    BY <1>5, <1>6, NothingCovered
  <1>7. CASE SkippedItem(item)
    <2>1. chat' = base /\ pendingMedia' = <<>> /\ item.type = "reasoning"
      BY <1>3, <1>7 DEF SkippedItem, Chat
    <2>2. chatParts(item) = {} /\ chatWhole(item) = FALSE
      BY <2>1 DEF chatParts, chatWhole
    <2> QED
      BY <1>6, <2>1, <2>2, ExtendsSame
  <1>8. CASE ToolCall(item)
    <2>1. PICK call : call = callOf(here, item)
      OBVIOUS
    <2>2. /\ chat' = appendAssistantToolCall(base, call) /\ pendingMedia' = <<>>
          /\ item.type \in Calls
      BY <1>3, <1>8, <2>1 DEF ToolCall, Chat, callOf
    <2>3. call \in ChatCalls
      <3>1. item \in {it \in Items : it.type \in Calls}
        BY <2>2
      <3> QED
        BY <1>2, <2>1, <3>1, CallMade
    <2>4. chatParts(item) = {} /\ chatWhole(item) = FALSE
      BY <2>2 DEF chatParts, chatWhole, Calls
    <2>5. extends(placedChat(base), placedChat(chat'), <<>>)
      BY <2>2, <2>3, CallTold
    <2> QED
      BY <1>6, <2>2, <2>4, <2>5
  <1>9. CASE ToolOutput(item)
    <2>1. PICK converted : converted = responsesToolOutputToChat(here, item.output)
      OBVIOUS
    <2>2. PICK m : m = chatMessage("tool", converted.text, <<>>, item.id)
      OBVIOUS
    <2>3. /\ item.type = "output" /\ chat' = Append(chat, m)
          /\ pendingMedia' = pendingMedia \o converted.media
      BY <1>9, <2>1, <2>2 DEF ToolOutput, Chat
    <2>4. item.output.parts \in Seq(PartKinds) /\ item.id \in Answers
      BY <2>3, ItemsAssumption DEF Answers
    <2>5. PICK parts : parts = IF hasPart(item.output.parts, {"other"}) THEN {}
                               ELSE ofKinds(item.output.parts, {"text"} \cup ChatMedia)
      OBVIOUS
    <2>6. PICK whole : whole = hasPart(item.output.parts, {"other"})
      OBVIOUS
    <2>7. /\ converted.text \in Seq(Atoms) /\ rising(converted.text, here)
          /\ converted.media \in Seq(Atoms) /\ rising(converted.media, here)
          /\ \A a \in Range(converted.text) : \A b \in Range(converted.media) : a.part # b.part
          /\ covers(Range(converted.text) \cup Range(converted.media), here, parts, whole)
      BY <1>2, <2>1, <2>4, <2>5, <2>6, OutputContent
    <2>8. m \in ChatMessages /\ m.content = converted.text
      <3>1. PICK text \in Seq(Atoms) : text = converted.text
        BY <2>7
      <3>2. PICK answers \in Answers : answers = item.id
        BY <2>4
      <3>3. m = chatMessage("tool", text, <<>>, answers)
        BY <2>2, <3>1, <3>2
      <3>4. m \in ChatMessages /\ m.content = text
        BY <3>3, MessageSays
      <3> QED
        BY <3>1, <3>4
    <2>9. extends(placedChat(chat), placedChat(chat'), converted.text)
      BY <1>2, <2>3, <2>7, <2>8, MessageTold
    <2>10. chatParts(item) = parts /\ chatWhole(item) = whole
      BY <2>3, <2>5, <2>6 DEF chatParts, chatWhole, hasPart
    <2>11. PICK s \in Seq(Atoms) : s = converted.text
      BY <2>7
    <2>12. PICK media \in Seq(Atoms) : media = converted.media
      BY <2>7
    <2>13. /\ extends(placedChat(chat), placedChat(chat'), s) /\ rising(s, here)
           /\ pendingMedia' = pendingMedia \o media /\ rising(media, here)
           /\ media = <<>> \/ item.type = "output"
      BY <2>3, <2>7, <2>9, <2>11, <2>12
    <2>14. differ(s, media)
      BY <2>7, <2>11, <2>12 DEF differ
    <2>15. covers(Range(s) \cup Range(media), here, chatParts(item), chatWhole(item))
      BY <2>7, <2>10, <2>11, <2>12
    <2> QED
      BY <1>1, <1>2, <2>3, <2>13, <2>14, <2>15, ChatTold
  <1>10. ASSUME item.type = "message"
         PROVE  /\ item.content.parts \in Seq(PartKinds) /\ chatWhole(item) = FALSE
                /\ item.content.form = "absent" => item.content.parts = <<>>
                /\ item.role = "user" =>
                      chatParts(item) = ofKinds(item.content.parts, PartKinds \ {"hollow"})
                /\ item.role # "user" => chatParts(item) = ofKinds(item.content.parts, {"text"})
                /\ item.content.form = "absent" => chatParts(item) = {}
    <2>1. /\ item.content.parts \in Seq(PartKinds)
          /\ item.content.form = "absent" => item.content.parts = <<>>
      BY <1>10, ItemsAssumption
    <2>2. \A kinds : ofKinds(<<>>, kinds) = {}
      BY NoIndices DEF ofKinds
    <2> QED
      BY <1>10, <2>1, <2>2 DEF chatParts, chatWhole
  <1>11. CASE UserMessage(item)
    <2>1. PICK content : content = responsesContentToChat(here, item.content, FALSE)
      OBVIOUS
    <2>2. PICK m : m = chatMessage("user", content, <<>>, NoCall)
      OBVIOUS
    <2>3. /\ item.type = "message" /\ item.role = "user" /\ pendingMedia' = <<>>
          /\ chat' = IF item.content.form = "absent" THEN base ELSE Append(base, m)
      BY <1>3, <1>11, <2>1, <2>2 DEF UserMessage, Chat
    <2>4. CASE item.content.form = "absent"
      BY <1>6, <1>10, <2>3, <2>4, ExtendsSame
    <2>5. CASE item.content.form # "absent"
      <3>1. tellsContent(content, here, item.content.parts, PartKinds \ {"hollow"})
        <4>1. PICK no \in BOOLEAN : no = FALSE
          OBVIOUS
        <4>2. PICK kinds : kinds = PartKinds \ {"hollow"}
          OBVIOUS
        <4>3. content = responsesContentToChat(here, item.content, no)
              /\ kinds = IF no THEN {"text"} ELSE PartKinds \ {"hollow"}
          BY <2>1, <4>1, <4>2
        <4> QED
          BY <1>2, <1>10, <2>3, <4>2, <4>3, ChatContent
      <3>2. /\ content \in Seq(Atoms) /\ rising(content, here)
            /\ covers(Range(content), here, chatParts(item), chatWhole(item))
        BY <1>10, <2>3, <3>1 DEF tellsContent
      <3>3. m \in ChatMessages /\ m.content = content
        BY <1>4, <2>2, <3>2, MessageSays
      <3>4. extends(placedChat(base), placedChat(chat'), content)
        BY <2>3, <2>5, <3>2, <3>3, MessageTold
      <3> QED
        BY <1>5, <2>3, <3>2, <3>4
    <2> QED
      BY <2>4, <2>5
  <1>12. CASE AssistantMessage(item)
    <2>1. PICK content : content = responsesContentToChat(here, item.content, TRUE)
      OBVIOUS
    <2>2. /\ item.type = "message" /\ item.role = "assistant" /\ pendingMedia' = <<>>
          /\ chat' = IF item.content.form = "absent" THEN base
                     ELSE appendAssistantMessage(base, content)
      BY <1>3, <1>12, <2>1 DEF AssistantMessage, Chat
    <2>3. CASE item.content.form = "absent"
      BY <1>6, <1>10, <2>2, <2>3, ExtendsSame
    <2>4. CASE item.content.form # "absent"
      <3>1. tellsContent(content, here, item.content.parts, {"text"})
        <4>1. PICK yes \in BOOLEAN : yes = TRUE
          OBVIOUS
        <4>2. PICK kinds : kinds = {"text"}
          OBVIOUS
        <4>3. content = responsesContentToChat(here, item.content, yes)
              /\ kinds = IF yes THEN {"text"} ELSE PartKinds \ {"hollow"}
          BY <2>1, <4>1, <4>2
        <4> QED
          BY <1>2, <1>10, <2>2, <4>2, <4>3, ChatContent
      <3>2. /\ content \in Seq(Atoms) /\ rising(content, here)
            /\ covers(Range(content), here, chatParts(item), chatWhole(item))
        BY <1>10, <2>2, <3>1 DEF tellsContent
      <3>3. extends(placedChat(base), placedChat(chat'), content)
        BY <2>2, <2>4, <3>2, SpeechTold
      <3> QED
        BY <1>5, <2>2, <3>2, <3>3
    <2> QED
      BY <2>3, <2>4
  <1>13. CASE SystemMessage(item)
    <2>1. PICK content : content = responsesContentToChat(here, item.content, FALSE)
      OBVIOUS
    <2>2. PICK places : places = {k \in DOMAIN content : content[k].kind \in {"text", "attachment"}}
      OBVIOUS
    <2>3. PICK text : text = subsequence(content, places)
      OBVIOUS
    <2>4. PICK m : m = chatMessage("system", text, <<>>, NoCall)
      OBVIOUS
    <2>5. /\ item.type = "message" /\ item.role = "system" /\ pendingMedia' = <<>>
          /\ chat' = IF text = <<>> THEN base ELSE Append(base, m)
      BY <1>3, <1>13, <2>1, <2>2, <2>3, <2>4 DEF SystemMessage, Chat
    <2>6. /\ text \in Seq(Atoms) /\ rising(text, here)
          /\ covers(Range(text), here, ofKinds(item.content.parts, {"text"}), FALSE)
      <3>1. PICK c : c = item.content
        OBVIOUS
      <3>2. /\ c.parts \in Seq(PartKinds) /\ content = responsesContentToChat(here, c, FALSE)
            /\ here \in 1..MaxItems
        BY <1>2, <1>10, <2>1, <2>5, <3>1
      <3>3. /\ text \in Seq(Atoms) /\ rising(text, here)
            /\ covers(Range(text), here, ofKinds(c.parts, {"text"}), FALSE)
        BY <2>2, <2>3, <3>2, SystemContent, Zenon
      <3> QED
        BY <3>1, <3>3
    <2>7. covers(Range(text), here, chatParts(item), chatWhole(item))
      BY <1>10, <2>5, <2>6
    <2>8. extends(placedChat(base), placedChat(chat'), text)
      <3>1. CASE text = <<>>
        BY <2>5, <3>1, ExtendsSame
      <3>2. CASE text # <<>>
        <4>1. m \in ChatMessages /\ m.content = text
          BY <1>4, <2>4, <2>6, MessageSays
        <4> QED
          BY <2>5, <2>6, <3>2, <4>1, MessageTold
      <3> QED
        BY <3>1, <3>2
    <2> QED
      BY <1>5, <2>5, <2>6, <2>7, <2>8
  <1> QED
    BY <1>7, <1>8, <1>9, <1>11, <1>12, <1>13 DEF Taken

\* Every item that is taken tells an Anthropic upstream its parts.
LEMMA AnthropicTakenTold ==
    ASSUME DialogueTypes, AnthropicKept, NEW item \in Items, Taken(item)
    PROVE  AnthropicKept'
  <1>1. /\ Read(item) /\ anthropicError = "" /\ anthropic' \in Seq(AnthropicMessages)
    BY ChatTaken, AnthropicTaken
  <1>2. here \in 1..MaxItems /\ anthropic \in Seq(AnthropicMessages)
    BY <1>1, ReadExtends DEF DialogueTypes
  <1>3. ASSUME NEW s \in Seq(Atoms), rising(s, here),
               extends(placedAnthropic(anthropic), placedAnthropic(anthropic'), s),
               covers(Range(s), here, anthropicParts(item), anthropicWhole(item))
        PROVE  AnthropicKept'
    BY <1>1, <1>3, AnthropicTold
  <1>4. ASSUME anthropicParts(item) = {}, anthropicWhole(item) = FALSE,
               extends(placedAnthropic(anthropic), placedAnthropic(anthropic'), <<>>)
        PROVE  AnthropicKept'
    BY <1>3, <1>4, NothingCovered
  <1>5. ASSUME NEW role \in {"user", "assistant"}, NEW blocks \in Seq(Blocks),
               NEW s \in Seq(Atoms), unfolds(blocks, s), blocks = <<>> => s = <<>>,
               anthropic' = appendMessage(anthropic, role, blocks)
        PROVE  extends(placedAnthropic(anthropic), placedAnthropic(anthropic'), s)
    <2>1. joined(anthropic, role, blocks, anthropic')
      BY <1>2, <1>5, BlocksAppended
    <2> QED
      BY <1>1, <1>2, <1>5, <2>1, JoinedTold
  <1>6. CASE SkippedItem(item) \/ SystemMessage(item)
    <2>1. /\ anthropic' = anthropic
          /\ item.type = "reasoning" \/ (item.type = "message" /\ item.role = "system")
      BY <1>6 DEF SkippedItem, SystemMessage, Anthropic
    <2>2. anthropicParts(item) = {} /\ anthropicWhole(item) = FALSE
      BY <2>1 DEF anthropicParts, anthropicWhole
    <2> QED
      BY <1>4, <2>1, <2>2, ExtendsSame
  <1>7. CASE ToolCall(item)
    <2>1. PICK use : use = toolUseBlock(here, item)
      OBVIOUS
    <2>2. item.type \in Calls /\ anthropic' = appendMessage(anthropic, "assistant", <<use>>)
      BY <1>7, <2>1 DEF ToolCall, Anthropic
    <2>3. use \in Blocks /\ use.type = "tool_use"
      <3>1. use \in Blocks
        BY <1>2, <2>1, <2>2, NothingCovered, BlockTypes
      <3> QED
        BY <2>1, <3>1 DEF toolUseBlock
    <2>4. <<use>> \in Seq(Blocks) /\ <<use>> # <<>>
      BY <2>3
    <2>5. unfolds(<<use>>, <<>>)
      BY <2>3, UseUnfolds
    <2>6. extends(placedAnthropic(anthropic), placedAnthropic(anthropic'), <<>>)
      BY <1>5, <2>2, <2>4, <2>5, NothingCovered
    <2>7. anthropicParts(item) = {} /\ anthropicWhole(item) = FALSE
      BY <2>2 DEF anthropicParts, anthropicWhole, Calls
    <2> QED
      BY <1>4, <2>6, <2>7
  <1>8. CASE ToolOutput(item)
    <2>1. PICK result : result = toolResultBlock(here, item)
      OBVIOUS
    <2>2. PICK s : s = responsesToolOutputToAnthropic(here, item.output)
      OBVIOUS
    <2>3. item.type = "output" /\ anthropic' = appendMessage(anthropic, "user", <<result>>)
      BY <1>8, <2>1 DEF ToolOutput, Anthropic
    <2>4. result \in Blocks /\ result.type # "tool_use" /\ result.content = s
      <3>1. result \in Blocks
        BY <1>2, <2>1, <2>3, NothingCovered, BlockTypes
      <3> QED
        BY <2>1, <2>2, <3>1 DEF toolResultBlock
    <2>5. <<result>> \in Seq(Blocks) /\ <<result>> # <<>>
      BY <2>4
    <2>6. unfolds(<<result>>, s)
      BY <2>4, ResultUnfolds
    <2>7. PICK parts : parts = IF hasPart(item.output.parts, NotInOutputs) THEN {}
                               ELSE ofKinds(item.output.parts, {"text", "image"})
      OBVIOUS
    <2>8. PICK whole : whole = hasPart(item.output.parts, NotInOutputs)
      OBVIOUS
    <2>9. item.output.parts \in Seq(PartKinds)
      BY <2>3, ItemsAssumption
    <2>10. /\ s \in Seq(Atoms) /\ rising(s, here) /\ covers(Range(s), here, parts, whole)
      BY <1>2, <2>2, <2>7, <2>8, <2>9, AnthropicOutput
    <2>11. anthropicParts(item) = parts /\ anthropicWhole(item) = whole
      BY <2>3, <2>7, <2>8 DEF anthropicParts, anthropicWhole, hasPart
    <2>12. extends(placedAnthropic(anthropic), placedAnthropic(anthropic'), s)
      BY <1>5, <2>3, <2>5, <2>6, <2>10
    <2> QED
      BY <1>3, <2>10, <2>11, <2>12
  <1>9. CASE UserMessage(item) \/ AssistantMessage(item)
    <2>1. PICK s : s = responsesContentToAnthropic(here, item.content)
      OBVIOUS
    <2>2. PICK blocks : blocks = contentBlocks(s)
      OBVIOUS
    <2>3. PICK role \in {"user", "assistant"} : anthropic' = appendMessage(anthropic, role, blocks)
      BY <1>9, <2>1, <2>2 DEF UserMessage, AssistantMessage, Anthropic
    <2>4. item.type = "message" /\ item.role # "system" /\ item.content.parts \in Seq(PartKinds)
      BY <1>9, ItemsAssumption DEF UserMessage, AssistantMessage
    <2>5. /\ s \in Seq(Atoms) /\ rising(s, here)
          /\ covers(Range(s), here, ofKinds(item.content.parts, {"text", "image", "file"}), FALSE)
      BY <1>2, <2>1, <2>4, AnthropicContent
    <2>6. blocks \in Seq(Blocks) /\ Len(blocks) = Len(s)
      BY <1>2, <2>2, <2>5, BlockTypes
    <2>7. blocks = <<>> => s = <<>>
      BY <2>5, <2>6, EmptySeq
    <2>8. unfolds(blocks, s)
      BY <2>2, <2>5, ContentUnfolds
    <2>9. extends(placedAnthropic(anthropic), placedAnthropic(anthropic'), s)
      BY <1>5, <2>3, <2>5, <2>6, <2>7, <2>8
    <2>10. /\ anthropicParts(item) = ofKinds(item.content.parts, {"text", "image", "file"})
           /\ anthropicWhole(item) = FALSE
      BY <2>4 DEF anthropicParts, anthropicWhole
    <2> QED
      BY <1>3, <2>5, <2>9, <2>10
  <1> QED
    BY <1>6, <1>7, <1>8, <1>9 DEF Taken

\* An element that is no object tells an Anthropic upstream nothing.
LEMMA NoObjectTold ==
    ASSUME DialogueTypes, AnthropicKept, NEW item \in Items, NotAnObject(item)
    PROVE  AnthropicKept'
  <1>1. /\ Read(item) /\ anthropic' = anthropic /\ item.type = "scalar"
    BY DEF NotAnObject, Anthropic
  <1>2. anthropicError = "" /\ anthropic' \in Seq(AnthropicMessages)
    BY <1>1, ReadExtends DEF DialogueTypes
  <1>3. anthropicParts(item) = {} /\ anthropicWhole(item) = FALSE
    BY <1>1 DEF anthropicParts, anthropicWhole
  <1>4. extends(placedAnthropic(anthropic), placedAnthropic(anthropic'), <<>>)
    BY <1>1, ExtendsSame
  <1> QED
    BY <1>1, <1>2, <1>3, <1>4, NothingCovered, AnthropicTold

\* All that was read has been told, or is held back, to either upstream.
THEOREM ToldInOrder == DialogueSpec => [](ChatKept /\ AnthropicKept)
  <1>1. DialogueInit => ChatKept /\ AnthropicKept
    <2> SUFFICES ASSUME DialogueInit PROVE ChatKept /\ AnthropicKept
      OBVIOUS
    <2>1. /\ <<>> \in Seq(ChatMessages) /\ <<>> \in Seq(AnthropicMessages) /\ Len(<<>>) = 0
      BY EmptySeq
    <2>2. /\ DOMAIN placedChat(<<>>) = {} /\ DOMAIN placedAnthropic(<<>>) = {}
      <3>1. \A q : q \notin DOMAIN placedChat(<<>>)
        <4>1. PICK none \in Seq(ChatMessages) : none = <<>>
          BY <2>1
        <4>2. \A n \in 1..Len(none) : FALSE
          BY <2>1, <4>1
        <4>3. \A q \in DOMAIN placedChat(none) : \E n \in 1..Len(none) : TRUE
          BY ChatPlaces
        <4> QED
          BY <4>1, <4>2, <4>3
      <3>2. \A q \in DOMAIN placedAnthropic(<<>>) : \E n, b, p : spokenAt(<<>>, n, b, p)
        BY <2>1, BlockPlaces
      <3>3. \A n, b, p : ~spokenAt(<<>>, n, b, p)
        BY <2>1 DEF spokenAt
      <3>4. \A q : q \notin DOMAIN placedAnthropic(<<>>)
        BY <3>2, <3>3
      <3> QED
        BY <3>1, <3>4
    <2>3. \A f : DOMAIN f = {} => Kept(<<>>, 0, f, <<>>)
      <3>1. \A f : DOMAIN f = {} => Range(f) = {} /\ ordered(<<>>, f)
        BY DEF Range, ordered
      <3> QED
        BY <3>1, NoElements DEF Kept
    <2>4. Kept(<<>>, 0, placedChat(<<>>), <<>>) /\ Kept(<<>>, 0, placedAnthropic(<<>>), <<>>)
      BY <2>2, <2>3
    <2>5. \A i \in 1..0 : FALSE
      OBVIOUS
    <2> QED
      BY <2>1, <2>4, <2>5 DEF DialogueInit, ChatKept, AnthropicKept
  <1>2. DialogueTypes /\ ChatKept /\ AnthropicKept /\ [DialogueNext]_dialogueVars
           => (ChatKept /\ AnthropicKept)'
    <2> SUFFICES ASSUME DialogueTypes, ChatKept, AnthropicKept, [DialogueNext]_dialogueVars
                 PROVE  ChatKept' /\ AnthropicKept'
      OBVIOUS
    <2>1. ASSUME NEW item \in Items, Taken(item)
          PROVE  ChatKept' /\ AnthropicKept'
      <3>1. chatError # "" => ChatKept'
        BY <2>1, ChatTaken DEF ChatKept
      <3> QED
        BY <2>1, <3>1, ChatTakenTold, AnthropicTakenTold
    <2>2. ASSUME NEW item \in Items, NotAnObject(item) \/ Refused(item)
          PROVE  ChatKept' /\ AnthropicKept'
      <3>1. chatError' # ""
        BY <2>2 DEF NotAnObject, Refused, ChatFails
      <3>2. Refused(item) => anthropicError' # ""
        BY DEF Refused, AnthropicFails
      <3> QED
        BY <2>2, <3>1, <3>2, NoObjectTold DEF ChatKept, AnthropicKept
    <2>3. CASE EndOfInput
      <3>1. /\ UNCHANGED <<input, anthropic, anthropicError, chatError>>
            /\ chatError = "" => chat' = withPendingMedia(chat) /\ pendingMedia' = <<>>
        BY <2>3 DEF EndOfInput, Chat, anthropicVars
      <3>2. AnthropicKept'
        BY <3>1 DEF AnthropicKept
      <3>3. ASSUME chatError = "" PROVE ChatKept'
        <4>1. /\ Kept(input, Len(input), placedChat(chat'), <<>>)
              /\ Range(placedChat(chat')) = Range(placedChat(chat)) \cup Range(pendingMedia)
          BY <3>1, <3>3, PendingTold
        <4>2. Range(placedChat(chat')) \cup Range(pendingMedia')
                 = Range(placedChat(chat)) \cup Range(pendingMedia)
          BY <3>1, <3>3, <4>1, NoElements
        <4> QED
          BY <3>1, <3>3, <4>1, <4>2 DEF ChatKept
      <3> QED
        BY <3>1, <3>2, <3>3 DEF ChatKept
    <2>4. CASE UNCHANGED dialogueVars
      BY <2>4 DEF ChatKept, AnthropicKept, dialogueVars, chatVars, anthropicVars
    <2> QED
      BY <2>1, <2>2, <2>3, <2>4, DialogueSteps
  <1> QED
    BY <1>1, <1>2, DialogueInvariant, PTL DEF DialogueSpec

\* What the input says, item by item.
LEMMA SpokenParts ==
    ASSUME DialogueTypes
    PROVE  /\ \A i, j : <<i, j>> \in spoken
                 <=> i \in 1..Len(input) /\ j \in ofKinds(said(i), PartKinds \ {"hollow"})
           /\ \A p \in spoken : \E i \in 1..Len(input) : \E j : p = <<i, j>>
           /\ \A i \in 1..Len(input) : said(i) \in Seq(PartKinds)
  <1>1. DOMAIN input = 1..Len(input) /\ \A i \in 1..Len(input) : input[i] \in Items
    BY LenProperties DEF DialogueTypes
  <1>2. ASSUME NEW i \in 1..Len(input) PROVE said(i) \in Seq(PartKinds)
    <2>1. <<>> \in Seq(PartKinds)
      BY EmptySeq
    <2> QED
      BY <1>1, <2>1, ItemsAssumption DEF said, isOutput
  <1> DEFINE saidBy(i) == {<<i, j>> : j \in {k \in DOMAIN said(i) : said(i)[k] # "hollow"}}
  <1>3. spoken = UNION {saidBy(i) : i \in DOMAIN input}
    BY DEF spoken
  <1>4. ASSUME NEW i \in 1..Len(input)
        PROVE  {k \in DOMAIN said(i) : said(i)[k] # "hollow"}
                  = ofKinds(said(i), PartKinds \ {"hollow"})
    <2>1. \A k \in DOMAIN said(i) : said(i)[k] \in PartKinds
      BY <1>2, LenProperties
    <2> QED
      BY <2>1 DEF ofKinds
  <1>5. ASSUME NEW i \in 1..Len(input), NEW p
        PROVE  p \in saidBy(i) <=> \E j \in ofKinds(said(i), PartKinds \ {"hollow"}) : p = <<i, j>>
    BY <1>4
  <1> HIDE DEF saidBy
  <1>6. \A p : p \in spoken <=> \E i \in 1..Len(input) : p \in saidBy(i)
    BY <1>1, <1>3
  <1>7. \A p : p \in spoken <=> \E i \in 1..Len(input) :
                  \E j \in ofKinds(said(i), PartKinds \ {"hollow"}) : p = <<i, j>>
    BY <1>5, <1>6
  <1>8. ASSUME NEW i, NEW j
        PROVE  <<i, j>> \in spoken
                 <=> i \in 1..Len(input) /\ j \in ofKinds(said(i), PartKinds \ {"hollow"})
    <2>1. ASSUME <<i, j>> \in spoken
          PROVE  i \in 1..Len(input) /\ j \in ofKinds(said(i), PartKinds \ {"hollow"})
      <3>1. PICK k \in 1..Len(input) :
                    \E l \in ofKinds(said(k), PartKinds \ {"hollow"}) : <<i, j>> = <<k, l>>
        BY <1>7, <2>1
      <3>2. i = k /\ j \in ofKinds(said(k), PartKinds \ {"hollow"})
        BY <3>1
      <3> QED
        BY <3>2
    <2>2. ASSUME i \in 1..Len(input), j \in ofKinds(said(i), PartKinds \ {"hollow"})
          PROVE  <<i, j>> \in spoken
      BY <1>7, <2>2
    <2> QED
      BY <2>1, <2>2
  <1> QED
    BY <1>2, <1>7, <1>8

\* What an item is told with.
LEMMA Covered ==
    ASSUME NEW atoms, NEW i, NEW parts, NEW whole, covers(atoms, i, parts, whole)
    PROVE  /\ \A a \in atoms : a.item = i /\ a.part # 0 => a.part \in parts
           /\ \A k \in parts : \E a \in atoms : a.item = i /\ a.part = k
  <1>1. \A a \in atoms : a.item = i /\ a.part # 0 => a.part \in parts
    BY Zenon DEF covers
  <1>2. \A k \in parts : \E a \in atoms : a.item = i /\ a.part = k
    BY Zenon DEF covers
  <1> QED
    BY <1>1, <1>2

\* An item is told as JSON where it is to be.
LEMMA CoveredWhole ==
    ASSUME NEW atoms, NEW i, NEW parts, NEW whole, covers(atoms, i, parts, whole)
    PROVE  (\E a \in atoms : a.item = i /\ a.kind = "json") <=> whole
  <1>1. ASSUME NEW a \in atoms, a.item = i, a.kind = "json" PROVE whole
    BY <1>1, Zenon DEF covers
  <1>2. ASSUME whole PROVE \E a \in atoms : a.item = i /\ a.kind = "json"
    BY <1>2, Zenon DEF covers
  <1> QED
    BY <1>1, <1>2, Zenon

\* All that is spoken is told, but for what is not to be.
toldWhole(atoms, untold) ==
    {p \in origins(atoms) : p[2] # 0} \cup toldAsJSON(atoms) = spoken \ untold

\* What has been told of the items is what was to be told.
LEMMA AllTold ==
    ASSUME DialogueTypes, NEW atoms, Kept(input, Len(input), atoms, <<>>),
           Range(atoms) \subseteq Atoms, NEW P, NEW W, NEW untold,
           \A i \in 1..Len(input) : covers(Range(atoms), i, P[i], W[i]),
           \A i \in 1..Len(input) : \A j :
              /\ j \in P[i] => j # 0
              /\ <<i, j>> \in spoken \ untold <=> j \in P[i] \/ (W[i] /\ <<i, j>> \in spoken)
    PROVE  inOrder(atoms) /\ toldWhole(atoms, untold)
  <1>1. inOrder(atoms)
    BY DEF Kept, ordered, tellable, inOrder, isOutput
  <1>2. /\ \A a \in Range(atoms) : a.item \in 1..Len(input)
        /\ \A a : a \in Range(atoms) <=> \E q \in DOMAIN atoms : atoms[q] = a
    BY DEF Kept, Range
  <1>3. ASSUME NEW i \in 1..Len(input), NEW j, j # 0
        PROVE  <<i, j>> \in origins(atoms) <=> j \in P[i]
    <2>1. <<i, j>> \in origins(atoms) <=> \E a \in Range(atoms) : a.item = i /\ a.part = j
      <3>1. <<i, j>> \in origins(atoms) <=> \E q \in DOMAIN atoms : origin(atoms[q]) = <<i, j>>
        BY DEF origins
      <3>2. \A a : origin(a) = <<i, j>> <=> a.item = i /\ a.part = j
        BY DEF origin
      <3> QED
        BY <1>2, <3>1, <3>2
    <2>2. covers(Range(atoms), i, P[i], W[i])
      OBVIOUS
    <2>3. /\ \A a \in Range(atoms) : a.item = i /\ a.part # 0 => a.part \in P[i]
          /\ \A k \in P[i] : \E a \in Range(atoms) : a.item = i /\ a.part = k
      <3>1. PICK parts : parts = P[i]
        OBVIOUS
      <3>2. PICK whole : whole = W[i]
        OBVIOUS
      <3>3. covers(Range(atoms), i, parts, whole)
        BY <2>2, <3>1, <3>2
      <3>4. /\ \A a \in Range(atoms) : a.item = i /\ a.part # 0 => a.part \in parts
            /\ \A k \in parts : \E a \in Range(atoms) : a.item = i /\ a.part = k
        BY <3>3, Covered
      <3> QED
        BY <3>1, <3>4
    <2> QED
      BY <1>3, <2>1, <2>3
  <1>4. ASSUME NEW p \in origins(atoms) PROVE \E i \in 1..Len(input) : \E j : p = <<i, j>>
    <2>1. PICK q \in DOMAIN atoms : p = origin(atoms[q])
      BY DEF origins
    <2>2. atoms[q].item \in 1..Len(input)
      BY <1>2
    <2> QED
      BY <2>1, <2>2 DEF origin
  <1>5. ASSUME NEW i \in 1..Len(input), NEW j
        PROVE  <<i, j>> \in toldAsJSON(atoms) <=> <<i, j>> \in spoken /\ W[i]
    <2>1. (\E q \in DOMAIN atoms : atoms[q].item = i /\ atoms[q].kind = "json") <=> W[i]
      <3>1. covers(Range(atoms), i, P[i], W[i])
        OBVIOUS
      <3>2. ASSUME NEW q \in DOMAIN atoms, atoms[q].item = i, atoms[q].kind = "json" PROVE W[i]
        <4>1. atoms[q] \in Range(atoms)
          BY <1>2
        <4>2. PICK whole : whole = W[i]
          OBVIOUS
        <4>3. PICK parts : parts = P[i]
          OBVIOUS
        <4>4. PICK said0 : said0 = Range(atoms)
          OBVIOUS
        <4>5. covers(said0, i, parts, whole)
          BY <3>1, <4>2, <4>3, <4>4
        <4>6. (\E a \in said0 : a.item = i /\ a.kind = "json") <=> whole
          BY <4>5, CoveredWhole
        <4> QED
          BY <3>2, <4>1, <4>2, <4>4, <4>6
      <3>3. ASSUME W[i] PROVE \E q \in DOMAIN atoms : atoms[q].item = i /\ atoms[q].kind = "json"
        <4>1. \E a \in Range(atoms) : a.item = i /\ a.kind = "json"
          BY <3>1, <3>3, Zenon DEF covers
        <4> QED
          BY <1>2, <4>1
      <3> QED
        BY <3>2, <3>3, Zenon
    <2>2. <<i, j>>[1] = i
      OBVIOUS
    <2> QED
      BY <2>1, <2>2 DEF toldAsJSON
  <1>6. /\ toldAsJSON(atoms) \subseteq spoken
        /\ \A p \in spoken : \E i \in 1..Len(input) : \E j : p = <<i, j>>
    BY SpokenParts DEF toldAsJSON
  <1> DEFINE out == {p \in origins(atoms) : p[2] # 0} \cup toldAsJSON(atoms)
  <1>7. ASSUME NEW i \in 1..Len(input), NEW j
        PROVE  <<i, j>> \in out <=> <<i, j>> \in spoken \ untold
    <2>1. <<i, j>> \in out
             <=> (<<i, j>> \in origins(atoms) /\ j # 0) \/ <<i, j>> \in toldAsJSON(atoms)
      <3>1. <<i, j>>[2] = j
        OBVIOUS
      <3> QED
        BY <3>1
    <2>2. <<i, j>> \in origins(atoms) /\ j # 0 <=> j \in P[i]
      BY <1>3
    <2> QED
      BY <1>5, <2>1, <2>2
  <1>8. \A p \in out : \E i \in 1..Len(input) : \E j : p = <<i, j>>
    BY <1>4, <1>6
  <1> HIDE DEF out
  <1>9. out = spoken \ untold
    BY <1>6, <1>7, <1>8
  <1> QED
    BY <1>1, <1>9 DEF out, toldWhole

\* Whichever the upstream, it is told the dialogue once, whole and in order, but
\* for the parts each of them is not told: regrouping, merging and holding back
\* lose and repeat nothing (responses_request.go:195-280, 626-709).
THEOREM DialogueTold == DialogueSpec => []DialogueKept
  <1>1. DialogueTypes /\ ChatKept /\ AnthropicKept => DialogueKept
    <2> SUFFICES ASSUME DialogueTypes, ChatKept, AnthropicKept PROVE DialogueKept
      OBVIOUS
    <2>1. /\ \A i, j : <<i, j>> \in spoken
                <=> i \in 1..Len(input) /\ j \in ofKinds(said(i), PartKinds \ {"hollow"})
          /\ \A i \in 1..Len(input) : said(i) \in Seq(PartKinds)
      BY SpokenParts
    <2>2. ASSUME NEW i \in 1..Len(input)
          PROVE  /\ \A k \in DOMAIN said(i) : k # 0 /\ said(i)[k] \in PartKinds
                 /\ input[i].type = "message" => said(i) = input[i].content.parts
                 /\ input[i].type = "output" => said(i) = input[i].output.parts
                 /\ input[i].type \notin {"message", "output"} => DOMAIN said(i) = {}
      <3>1. DOMAIN said(i) = 1..Len(said(i)) /\ \A k \in DOMAIN said(i) : said(i)[k] \in PartKinds
        BY <2>1, LenProperties
      <3>2. \A k \in DOMAIN said(i) : k # 0
        BY <3>1
      <3> QED
        BY <3>1, <3>2, EmptySeq DEF said, isOutput
    <2>3. ASSUME NEW i \in 1..Len(input), NEW j
          PROVE  /\ j \in chatParts(input[i]) => j # 0
                 /\ <<i, j>> \in spoken \ untoldToChat
                      <=> \/ j \in chatParts(input[i])
                          \/ chatWhole(input[i]) /\ <<i, j>> \in spoken
      <3>1. <<i, j>> \in untoldToChat
               <=> /\ <<i, j>> \in spoken /\ input[i].type = "message"
                   /\ input[i].role # "user" /\ said(i)[j] # "text"
        <4>1. <<i, j>>[1] = i /\ <<i, j>>[2] = j
          OBVIOUS
        <4> QED
          BY <4>1 DEF untoldToChat
      <3>2. CASE input[i].type = "message"
        BY <2>1, <2>2, <3>1, <3>2 DEF chatParts, chatWhole, ofKinds, PartKinds
      <3>3. CASE input[i].type = "output"
        <4>1. said(i) = input[i].output.parts
          BY <2>2, <3>3
        <4>2. CASE hasPart(input[i].output.parts, {"other"})
          BY <2>2, <3>1, <3>3, <4>1, <4>2 DEF chatParts, chatWhole, ofKinds
        <4>3. CASE ~hasPart(input[i].output.parts, {"other"})
          BY <2>1, <2>2, <3>1, <3>3, <4>1, <4>3
             DEF chatParts, chatWhole, ofKinds, hasPart, PartKinds, ChatMedia
        <4> QED
          BY <4>2, <4>3
      <3>4. CASE input[i].type \notin {"message", "output"}
        BY <2>1, <2>2, <3>1, <3>4 DEF chatParts, chatWhole, ofKinds
      <3> QED
        BY <3>2, <3>3, <3>4
    <2>4. ASSUME NEW i \in 1..Len(input), NEW j
          PROVE  /\ j \in anthropicParts(input[i]) => j # 0
                 /\ <<i, j>> \in spoken \ untoldToAnthropic
                      <=> \/ j \in anthropicParts(input[i])
                          \/ anthropicWhole(input[i]) /\ <<i, j>> \in spoken
      <3>1. <<i, j>> \in untoldToAnthropic
               <=> /\ <<i, j>> \in spoken
                   /\ IF input[i].type = "output"
                      THEN said(i)[j] = "emptyImage" /\ ~hasPart(said(i), NotInOutputs)
                      ELSE \/ input[i].role = "system"
                           \/ said(i)[j] \in {"other", "emptyImage", "nestedFile"}
        <4>1. <<i, j>>[1] = i /\ <<i, j>>[2] = j
          OBVIOUS
        <4> QED
          BY <4>1 DEF untoldToAnthropic, isOutput
      <3>2. CASE input[i].type = "message"
        <4>1. input[i].type # "output"
          BY <3>2
        <4> QED
          BY <2>1, <2>2, <3>1, <3>2, <4>1 DEF anthropicParts, anthropicWhole, ofKinds, PartKinds
      <3>3. CASE input[i].type = "output"
        <4>1. said(i) = input[i].output.parts
          BY <2>2, <3>3
        <4>2. CASE hasPart(input[i].output.parts, NotInOutputs)
          BY <2>2, <3>1, <3>3, <4>1, <4>2 DEF anthropicParts, anthropicWhole, ofKinds
        <4>3. CASE ~hasPart(input[i].output.parts, NotInOutputs)
          BY <2>1, <2>2, <3>1, <3>3, <4>1, <4>3
             DEF anthropicParts, anthropicWhole, ofKinds, hasPart, PartKinds, NotInOutputs
        <4> QED
          BY <4>2, <4>3
      <3>4. CASE input[i].type \notin {"message", "output"}
        BY <2>1, <2>2, <3>1, <3>4 DEF anthropicParts, anthropicWhole, ofKinds
      <3> QED
        BY <3>2, <3>3, <3>4
    <2>5. ASSUME done, chatError = ""
          PROVE  inOrder(chatAtoms) /\ toldWhole(chatAtoms, untoldToChat)
      <3>1. chatAtoms = placedChat(chat)
        BY DEF chatAtoms, placedChat
      <3>2. /\ Kept(input, Len(input), chatAtoms, <<>>) /\ Range(<<>>) = {}
            /\ \A i \in 1..Len(input) : covers(Range(chatAtoms), i, chatParts(input[i]),
                                               chatWhole(input[i]))
        <4>1. pendingMedia = <<>> /\ Range(<<>>) = {}
          BY <2>5, NoElements DEF DialogueTypes
        <4>2. Range(chatAtoms) \cup Range(pendingMedia) = Range(chatAtoms)
          BY <4>1
        <4> QED
          BY <2>5, <3>1, <4>1, <4>2 DEF ChatKept
      <3>3. Range(chatAtoms) \subseteq Atoms
        BY <3>1, ChatRange DEF DialogueTypes
      <3>4. PICK P : P = [i \in 1..Len(input) |-> chatParts(input[i])]
        OBVIOUS
      <3>5. PICK W : W = [i \in 1..Len(input) |-> chatWhole(input[i])]
        OBVIOUS
      <3>6. \A i \in 1..Len(input) : P[i] = chatParts(input[i]) /\ W[i] = chatWhole(input[i])
        BY <3>4, <3>5
      <3>7. \A i \in 1..Len(input) : covers(Range(chatAtoms), i, P[i], W[i])
        BY <3>2, <3>6
      <3>8. \A i \in 1..Len(input) : \A j :
               /\ j \in P[i] => j # 0
               /\ <<i, j>> \in spoken \ untoldToChat
                    <=> j \in P[i] \/ (W[i] /\ <<i, j>> \in spoken)
        BY <2>3, <3>6
      <3> QED
        BY <3>2, <3>3, <3>7, <3>8, AllTold
    <2>6. ASSUME anthropicError = ""
          PROVE  inOrder(anthropicAtoms) /\ toldWhole(anthropicAtoms, untoldToAnthropic)
      <3>1. anthropicAtoms = placedAnthropic(anthropic)
        BY DEF anthropicAtoms, placedAnthropic, told
      <3>2. /\ Kept(input, Len(input), anthropicAtoms, <<>>)
            /\ \A i \in 1..Len(input) : covers(Range(anthropicAtoms), i, anthropicParts(input[i]),
                                               anthropicWhole(input[i]))
        BY <2>6, <3>1 DEF AnthropicKept
      <3>3. Range(anthropicAtoms) \subseteq Atoms
        BY <3>1, AnthropicRange DEF DialogueTypes
      <3>4. PICK P : P = [i \in 1..Len(input) |-> anthropicParts(input[i])]
        OBVIOUS
      <3>5. PICK W : W = [i \in 1..Len(input) |-> anthropicWhole(input[i])]
        OBVIOUS
      <3>6. \A i \in 1..Len(input) : /\ P[i] = anthropicParts(input[i])
                                     /\ W[i] = anthropicWhole(input[i])
        BY <3>4, <3>5
      <3>7. \A i \in 1..Len(input) : covers(Range(anthropicAtoms), i, P[i], W[i])
        BY <3>2, <3>6
      <3>8. \A i \in 1..Len(input) : \A j :
               /\ j \in P[i] => j # 0
               /\ <<i, j>> \in spoken \ untoldToAnthropic
                    <=> j \in P[i] \/ (W[i] /\ <<i, j>> \in spoken)
        BY <2>4, <3>6
      <3> QED
        BY <3>2, <3>3, <3>7, <3>8, AllTold
    <2> QED
      BY <2>5, <2>6 DEF DialogueKept, toldWhole
  <1> QED
    BY <1>1, DialogueInvariant, ToldInOrder, PTL
=============================================================================
