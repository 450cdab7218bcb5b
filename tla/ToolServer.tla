----------------------------- MODULE ToolServer -----------------------------
(***************************************************************************)
(* ToolRegistry of registry.py and build_mcp_server of server.py: the      *)
(* registry is an insertion-ordered dict from names to tool definitions;   *)
(* a server takes the executors from it once, when it is built, and reads  *)
(* it again for every tools/list.                                          *)
(***************************************************************************)
EXTENDS Naturals, Sequences, SequencesExt

CONSTANTS Names,     \* tool names
          Handlers,  \* what a definition runs
          MaxBatch,  \* bound on the definitions one register_all is given
          None

ASSUME BatchAssumption == MaxBatch \in Nat

Tools == [name : Names, handler : Handlers]

VARIABLES registry,   \* _tools, in insertion order
          executors,  \* executors: name -> what execute runs, or None before the
                      \* server is built
          reply       \* what the last request or registration was answered

vars == <<registry, executors, reply>>

Replies == [kind : {"none", "ok", "DuplicateToolError", "unknown tool"}]
             \cup [kind : {"tools"}, list : Seq(Tools)]
             \cup [kind : {"result"}, name : Names, handler : Handlers]

TypeOK == /\ registry \in Seq(Tools)
          /\ executors = None \/ \E S \in SUBSET Names : executors \in [S -> Handlers]
          /\ reply \in Replies

Init == /\ registry = <<>>
        /\ executors = None
        /\ reply = [kind |-> "none"]

NamesOf(tools) == {tools[i].name : i \in DOMAIN tools}

-----------------------------------------------------------------------------
(* Plausible slips, used to show that the properties can be broken.        *)

register_Overwrites(tried, tool) ==
  IF tool.name \in NamesOf(tried.tools)
  THEN [tried EXCEPT !.tools = [i \in DOMAIN @ |-> IF @[i].name = tool.name THEN tool ELSE @[i]]]
  ELSE [tried EXCEPT !.tools = Append(@, tool)]

register_KeepsBoth(tried, tool) == [tried EXCEPT !.tools = Append(@, tool)]

build_mcp_server_KeepsTools ==
  /\ executors = None
  /\ executors' = [n \in NamesOf(registry) |->
                     CHOOSE t \in ToSet(registry) : t.name = n]
  /\ UNCHANGED <<registry, reply>>

-----------------------------------------------------------------------------
(* register, on a registration under way: once an exception has been       *)
(* raised the loop of register_all is left, and what it added stays.       *)
register(tried, tool) ==
  IF tried.raised
  THEN tried
  ELSE IF tool.name \in NamesOf(tried.tools)
       THEN [tried EXCEPT !.raised = TRUE]
       ELSE [tried EXCEPT !.tools = Append(@, tool)]

register_all(batch) ==
  LET tried == FoldLeft(register, [tools |-> registry, raised |-> FALSE], batch)
  IN  /\ registry' = tried.tools
      /\ reply' = [kind |-> IF tried.raised THEN "DuplicateToolError" ELSE "ok"]
      /\ UNCHANGED executors

(* build_mcp_server: one executor per tool the registry holds now.         *)
build_mcp_server ==
  /\ executors = None
  /\ executors' = [n \in NamesOf(registry) |->
                     (CHOOSE t \in ToSet(registry) : t.name = n).handler]
  /\ UNCHANGED <<registry, reply>>

list_tools ==
  /\ executors # None
  /\ reply' = [kind |-> "tools", list |-> registry]
  /\ UNCHANGED <<registry, executors>>

call_tool(name) ==
  /\ executors # None
  /\ reply' = IF name \in DOMAIN executors
              THEN [kind |-> "result", name |-> name, handler |-> executors[name]]
              ELSE [kind |-> "unknown tool"]
  /\ UNCHANGED <<registry, executors>>

Next == \/ \E n \in 0 .. MaxBatch : \E batch \in [1 .. n -> Tools] : register_all(batch)
        \/ build_mcp_server
        \/ list_tools
        \/ \E name \in Names : call_tool(name)

Spec == Init /\ [][Next]_vars

-----------------------------------------------------------------------------
(* A name stands for one definition: a rejected registration, alone or in  *)
(* the middle of register_all, leaves no second tool of that name.         *)
NamesUnique ==
  \A i, j \in DOMAIN registry : registry[i].name = registry[j].name => i = j

(* The catalog only grows at its end: a registration that fails half way   *)
(* neither replaces, moves nor removes what was there before it.           *)
CatalogGrows == [][IsPrefix(registry, registry')]_vars

(* What a call runs is what the list shows under that name, although the   *)
(* executors are a snapshot and the list is not: also after registrations, *)
(* failed ones included, that come after the server was built.             *)
CallsWhatIsListed ==
  reply.kind = "result" =>
    [name |-> reply.name, handler |-> reply.handler] \in ToSet(registry)
=============================================================================
