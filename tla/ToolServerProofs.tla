-------------------------- MODULE ToolServerProofs --------------------------
(***************************************************************************)
(* What ToolServer.tla promises for any names, handlers and batches.       *)
(***************************************************************************)
EXTENDS ToolServer, SequenceTheorems, WellFoundedInduction, TLAPS

(* Induction over the naturals, for a set instead of a predicate.          *)
LEMMA SetInduction ==
  ASSUME NEW T, 0 \in T, \A k \in Nat : k \in T => k + 1 \in T
  PROVE  Nat \subseteq T
<1> DEFINE R == {ss \in Nat \X Nat : ss[1] < ss[2]}
           M == Nat \ T
<1>1. R = OpToRel(<, Nat)
  BY DEF OpToRel
<1>2. IsWellFoundedOn(R, Nat)
  BY <1>1, NatLessThanWellFounded
<1>3. \A j, m \in Nat : j < m => <<j, m>> \in R
  OBVIOUS
<1> SUFFICES ASSUME M # {} PROVE FALSE
  OBVIOUS
<1> HIDE DEF R
<1>4. PICK m \in M : \A j \in M : ~ (<<j, m>> \in R)
  <2>1. M \in SUBSET Nat
    OBVIOUS
  <2> HIDE DEF M
  <2> QED BY <1>2, <2>1, WFMin
<1>5. m - 1 \in Nat /\ m - 1 < m
  BY <1>4
<1>6. m - 1 \in T
  BY <1>3, <1>4, <1>5
<1>7. m - 1 + 1 \in T
  BY <1>5, <1>6
<1> QED BY <1>4, <1>5, <1>7

(* The fold of register_all is the loop it stands for.                     *)
LEMMA RegisterLoop ==
  ASSUME NEW base, NEW n \in Nat, NEW batch \in [1 .. n -> Tools]
  PROVE  \E run : /\ run[0] = base
                  /\ \A i \in 1 .. n : run[i] = register(run[i - 1], batch[i])
                  /\ FoldLeft(register, base, batch) = run[n]
<1> DEFINE step(g, s) == register(g[s \ {Max(s)}], batch[Max(s)])
           Fixed(g, k) == g = [s \in SUBSET (1 .. k) |-> IF s = {} THEN base ELSE step(g, s)]
           T == {k \in Nat : \E g : Fixed(g, k)}
           iter == CHOOSE g : Fixed(g, n)
<1>1. FoldLeft(register, base, batch) = iter[1 .. n]
  BY DEF FoldLeft, MapThenFoldSet
<1>2. \A k \in Nat \ {0} : Max(1 .. k) = k /\ (1 .. k) \ {k} = 1 .. k - 1
  <2> SUFFICES ASSUME NEW k \in Nat \ {0} PROVE Max(1 .. k) = k
    OBVIOUS
  <2>1. k \in 1 .. k /\ \A y \in 1 .. k : k >= y
    OBVIOUS
  <2>2. \A x \in 1 .. k : (\A y \in 1 .. k : x >= y) => x = k
    OBVIOUS
  <2> QED BY <2>1, <2>2 DEF Max
<1>3. 0 \in T
  <2>1. \A s \in SUBSET (1 .. 0) : s = {}
    OBVIOUS
  <2>2. Fixed([s \in SUBSET (1 .. 0) |-> base], 0)
    BY <2>1
  <2> QED BY <2>2
<1>4. ASSUME NEW k \in Nat, k \in T PROVE k + 1 \in T
  <2>1. PICK g : Fixed(g, k)
    BY <1>4
  <2> DEFINE h == [s \in SUBSET (1 .. k + 1) |->
                     IF k + 1 \in s THEN step(g, s) ELSE g[s]]
  <2>2. ASSUME NEW s \in SUBSET (1 .. k + 1)
        PROVE  h[s] = IF s = {} THEN base ELSE step(h, s)
    <3>1. CASE s = {}
      <4>1. s \in SUBSET (1 .. k) /\ k + 1 \notin s
        BY <3>1
      <4> QED BY <2>1, <3>1, <4>1
    <3>2. CASE k + 1 \in s
      <4>1. Max(s) = k + 1
        <5>1. \A y \in s : k + 1 >= y
          OBVIOUS
        <5>2. \A x \in s : (\A y \in s : x >= y) => x = k + 1
          BY <3>2
        <5> QED BY <3>2, <5>1, <5>2 DEF Max
      <4>2. /\ s \ {k + 1} \in SUBSET (1 .. k + 1)
            /\ k + 1 \notin s \ {k + 1}
        OBVIOUS
      <4>3. h[s \ {k + 1}] = g[s \ {k + 1}]
        BY <4>2
      <4>4. h[s] = step(g, s)
        BY <3>2
      <4> HIDE DEF h
      <4> QED BY <3>2, <4>1, <4>3, <4>4
    <3>3. CASE s # {} /\ k + 1 \notin s
      <4> DEFINE t == s \ {Max(s)}
      <4>1. s \in SUBSET (1 .. k)
        BY <3>3
      <4>2. t \in SUBSET (1 .. k + 1) /\ k + 1 \notin t
        BY <3>3
      <4>3. h[s] = g[s] /\ h[t] = g[t]
        BY <3>3, <4>2
      <4>4. g[s] = step(g, s)
        BY <2>1, <3>3, <4>1
      <4> HIDE DEF h
      <4> QED BY <3>3, <4>3, <4>4
    <3> QED BY <3>1, <3>2, <3>3
  <2>3. Fixed(h, k + 1)
    BY <2>2
  <2> HIDE DEF Fixed, h
  <2> QED BY <2>3
<1>5. Fixed(iter, n)
  <2> HIDE DEF Fixed
  <2>1. n \in T
    BY <1>3, <1>4, SetInduction
  <2> QED BY <2>1
<1> DEFINE run == [i \in 0 .. n |-> iter[1 .. i]]
<1>6. run[0] = base
  <2>1. {} \in SUBSET (1 .. n) /\ 1 .. 0 = {}
    OBVIOUS
  <2>2. iter[{}] = base
    BY <1>5, <2>1
  <2> HIDE DEF iter
  <2> QED BY <2>1, <2>2
<1>7. ASSUME NEW i \in 1 .. n PROVE run[i] = register(run[i - 1], batch[i])
  <2>1. 1 .. i \in SUBSET (1 .. n) /\ 1 .. i # {}
    OBVIOUS
  <2>2. iter[1 .. i] = step(iter, 1 .. i)
    BY <1>5, <2>1
  <2> HIDE DEF iter
  <2>3. Max(1 .. i) = i /\ (1 .. i) \ {i} = 1 .. i - 1
    BY <1>2
  <2>4. run[i] = iter[1 .. i] /\ run[i - 1] = iter[1 .. i - 1]
    OBVIOUS
  <2> HIDE DEF run
  <2> QED BY <2>2, <2>3, <2>4
<1>8. FoldLeft(register, base, batch) = run[n]
  BY <1>1
<1> HIDE DEF run
<1> QED BY <1>6, <1>7, <1>8

-----------------------------------------------------------------------------
Unique(tools) == \A i, j \in DOMAIN tools : tools[i].name = tools[j].name => i = j

(* tools extends base by the first k definitions of the batch.             *)
Extends(tools, base, batch, k) ==
  /\ tools \in Seq(Tools)
  /\ Len(tools) = Len(base) + k
  /\ \A i \in 1 .. Len(base) : tools[i] = base[i]
  /\ \A i \in 1 .. k : tools[Len(base) + i] = batch[i]

(* Where the loop over batch is after i rounds: it has added the first k   *)
(* definitions, all i unless the next one had a name that was taken.       *)
AfterRounds(tried, base, batch, i) ==
  /\ tried \in [tools : Seq(Tools), raised : BOOLEAN]
  /\ Unique(tried.tools)
  /\ \E k \in 0 .. i :
       /\ Extends(tried.tools, base, batch, k)
       /\ IF tried.raised
          THEN k < i /\ batch[k + 1].name \in NamesOf(tried.tools)
          ELSE k = i

(* Appending a definition of a new name.                                   *)
LEMMA AppendOne ==
  ASSUME NEW base \in Seq(Tools), NEW n \in Nat, NEW batch \in [1 .. n -> Tools],
         NEW k \in 0 .. n - 1, NEW tools, Extends(tools, base, batch, k), Unique(tools),
         batch[k + 1].name \notin NamesOf(tools)
  PROVE  /\ Extends(Append(tools, batch[k + 1]), base, batch, k + 1)
         /\ Unique(Append(tools, batch[k + 1]))
<1> DEFINE tool == batch[k + 1]
           longer == Append(tools, tool)
<1>0. Len(base) \in Nat /\ tool \in Tools /\ tools \in Seq(Tools) /\ Len(tools) \in Nat
  BY LenProperties DEF Extends
<1>1. Len(tools) = Len(base) + k /\ k \in Nat
  BY DEF Extends
<1> HIDE DEF tool
<1>2. /\ longer \in Seq(Tools)
      /\ Len(longer) = Len(tools) + 1
      /\ longer[Len(tools) + 1] = tool
      /\ \A i \in 1 .. Len(tools) : longer[i] = tools[i]
  BY <1>0, AppendProperties
<1> HIDE DEF longer
<1>3. Extends(longer, base, batch, k + 1)
  <2>1. longer[Len(base) + (k + 1)] = batch[k + 1]
    BY <1>0, <1>1, <1>2 DEF tool
  <2>2. \A i \in 1 .. Len(base) : longer[i] = base[i]
    BY <1>0, <1>1, <1>2 DEF Extends
  <2>3. ASSUME NEW i \in 1 .. k + 1 PROVE longer[Len(base) + i] = batch[i]
    <3>1. CASE i = k + 1
      BY <2>1, <3>1
    <3>2. CASE i \in 1 .. k
      <4>1. Len(base) + i \in 1 .. Len(tools)
        BY <1>0, <1>1, <3>2
      <4> QED BY <1>2, <3>2, <4>1 DEF Extends
    <3> QED BY <1>1, <3>1, <3>2
  <2>4. Len(longer) = Len(base) + (k + 1)
    BY <1>0, <1>1, <1>2
  <2> QED BY <1>2, <2>2, <2>3, <2>4 DEF Extends
<1>4. Unique(longer)
  <2>1. DOMAIN longer = 1 .. Len(tools) + 1 /\ DOMAIN tools = 1 .. Len(tools)
    BY <1>0, <1>2, LenProperties
  <2>2. \A i \in 1 .. Len(tools) : longer[i].name # tool.name
    BY <1>2, <2>1 DEF NamesOf, tool
  <2>3. ASSUME NEW i \in 1 .. Len(tools) + 1, NEW j \in 1 .. Len(tools) + 1,
               longer[i].name = longer[j].name
        PROVE  i = j
    <3>1. CASE i \in 1 .. Len(tools) /\ j \in 1 .. Len(tools)
      BY <1>2, <2>1, <2>3, <3>1 DEF Unique
    <3>2. CASE i = Len(tools) + 1 \/ j = Len(tools) + 1
      BY <1>0, <1>2, <2>2, <2>3, <3>2
    <3> QED BY <1>0, <3>1, <3>2
  <2> QED BY <2>1, <2>3 DEF Unique
<1> QED BY <1>3, <1>4 DEF longer, tool

(* One round of the loop.                                                  *)
LEMMA RegisterOne ==
  ASSUME NEW base \in Seq(Tools), NEW n \in Nat, NEW batch \in [1 .. n -> Tools],
         NEW i \in 0 .. n - 1, NEW tried, AfterRounds(tried, base, batch, i)
  PROVE  AfterRounds(register(tried, batch[i + 1]), base, batch, i + 1)
<1> DEFINE tool == batch[i + 1]
<1>0. /\ tried \in [tools : Seq(Tools), raised : BOOLEAN]
      /\ Unique(tried.tools)
      /\ tool \in Tools
  BY DEF AfterRounds
<1>1. PICK k \in 0 .. i : /\ Extends(tried.tools, base, batch, k)
                          /\ IF tried.raised
                             THEN k < i /\ batch[k + 1].name \in NamesOf(tried.tools)
                             ELSE k = i
  BY DEF AfterRounds
<1>2. k \in 0 .. i + 1 /\ k < i + 1 /\ i + 1 \in 0 .. i + 1
  OBVIOUS
<1>3. CASE tried.raised
  <2>1. register(tried, tool) = tried
    BY <1>3 DEF register
  <2> QED BY <1>0, <1>1, <1>2, <1>3, <2>1 DEF AfterRounds
<1>4. CASE ~tried.raised /\ tool.name \in NamesOf(tried.tools)
  <2>1. register(tried, tool) = [tools |-> tried.tools, raised |-> TRUE]
    BY <1>0, <1>4 DEF register
  <2>2. k = i
    BY <1>1, <1>4
  <2> QED BY <1>0, <1>1, <1>2, <1>4, <2>1, <2>2 DEF AfterRounds
<1>5. CASE ~tried.raised /\ tool.name \notin NamesOf(tried.tools)
  <2> DEFINE longer == Append(tried.tools, tool)
  <2>1. register(tried, tool) = [tools |-> longer, raised |-> FALSE]
    BY <1>0, <1>5 DEF register
  <2>2. Extends(longer, base, batch, i + 1) /\ Unique(longer)
    BY <1>0, <1>1, <1>5, AppendOne
  <2>3. longer \in Seq(Tools)
    BY <2>2 DEF Extends
  <2> HIDE DEF longer
  <2> QED BY <1>2, <2>1, <2>2, <2>3 DEF AfterRounds
<1> QED BY <1>3, <1>4, <1>5

(* The whole loop.                                                         *)
LEMMA RegisterAll ==
  ASSUME NEW base \in Seq(Tools), Unique(base), NEW n \in Nat, NEW batch \in [1 .. n -> Tools]
  PROVE  AfterRounds(FoldLeft(register, [tools |-> base, raised |-> FALSE], batch), base, batch, n)
<1> DEFINE start == [tools |-> base, raised |-> FALSE]
<1>1. PICK run : /\ run[0] = start
                 /\ \A i \in 1 .. n : run[i] = register(run[i - 1], batch[i])
                 /\ FoldLeft(register, start, batch) = run[n]
  BY RegisterLoop
<1> DEFINE T == {i \in Nat : i <= n => AfterRounds(run[i], base, batch, i)}
<1>2. 0 \in T
  <2>1. Extends(base, base, batch, 0)
    BY LenProperties DEF Extends
  <2>2. AfterRounds(start, base, batch, 0)
    BY <2>1 DEF AfterRounds
  <2> QED BY <1>1, <2>2
<1>3. ASSUME NEW i \in Nat, i \in T PROVE i + 1 \in T
  <2> SUFFICES ASSUME i + 1 <= n PROVE AfterRounds(run[i + 1], base, batch, i + 1)
    OBVIOUS
  <2>1. AfterRounds(run[i], base, batch, i) /\ i \in 0 .. n - 1
    BY <1>3
  <2>2. i + 1 \in 1 .. n /\ (i + 1) - 1 = i
    BY <2>1
  <2>3. run[i + 1] = register(run[i], batch[i + 1])
    BY <1>1, <2>2
  <2> QED BY <2>1, <2>3, RegisterOne
<1>4. n \in T
  <2> HIDE DEF T
  <2> QED BY <1>2, <1>3, SetInduction
<1> QED BY <1>1, <1>4

-----------------------------------------------------------------------------
(* The executors are a snapshot of the registry, and the registry keeps    *)
(* all that was in it when it was taken.                                   *)
SnapshotListed ==
  executors # None =>
    \A n \in DOMAIN executors : [name |-> n, handler |-> executors[n]] \in ToSet(registry)

IInv == /\ TypeOK
        /\ NamesUnique
        /\ SnapshotListed
        /\ CallsWhatIsListed

LEMMA InitIInv == Init => IInv
<1> SUFFICES ASSUME Init PROVE IInv
  OBVIOUS
<1>1. registry \in Seq(Tools) /\ DOMAIN registry = {}
  BY DEF Init
<1>2. reply \in Replies /\ reply.kind # "result"
  BY DEF Init, Replies
<1> QED BY <1>1, <1>2 DEF Init, IInv, TypeOK, NamesUnique, SnapshotListed, CallsWhatIsListed

(* What a registration does to the catalog and answers.                    *)
Registered(batch, n) ==
  \E k \in 0 .. n :
    /\ Extends(registry', registry, batch, k)
    /\ reply' = [kind |-> IF k = n THEN "ok" ELSE "DuplicateToolError"]
    /\ k < n => batch[k + 1].name \in NamesOf(registry')

LEMMA RegisterAllRegisters ==
  ASSUME TypeOK, NamesUnique, NEW n \in Nat, NEW batch \in [1 .. n -> Tools], register_all(batch)
  PROVE  Registered(batch, n) /\ NamesUnique' /\ UNCHANGED executors
<1> DEFINE tried == FoldLeft(register, [tools |-> registry, raised |-> FALSE], batch)
<1>1. AfterRounds(tried, registry, batch, n)
  BY RegisterAll DEF TypeOK, NamesUnique, Unique
<1>2. /\ registry' = tried.tools
      /\ reply' = [kind |-> IF tried.raised THEN "DuplicateToolError" ELSE "ok"]
      /\ UNCHANGED executors
  BY DEF register_all
<1> HIDE DEF tried
<1>3. Registered(batch, n)
  BY <1>1, <1>2 DEF AfterRounds, Registered
<1>4. NamesUnique'
  BY <1>1, <1>2 DEF AfterRounds, NamesUnique, Unique
<1> QED BY <1>2, <1>3, <1>4

(* Extending the catalog keeps what is in it, where it is.                 *)
LEMMA ExtendsKeeps ==
  ASSUME NEW base \in Seq(Tools), NEW tools, NEW batch, NEW k \in Nat,
         Extends(tools, base, batch, k)
  PROVE  ToSet(base) \subseteq ToSet(tools) /\ IsPrefix(base, tools)
<1>1. /\ Len(base) \in Nat /\ DOMAIN base = 1 .. Len(base)
      /\ tools \in Seq(Tools) /\ DOMAIN tools = 1 .. Len(tools)
      /\ Len(tools) = Len(base) + k
  BY LenProperties DEF Extends
<1>2. \A i \in 1 .. Len(base) : i \in DOMAIN tools /\ tools[i] = base[i]
  BY <1>1 DEF Extends
<1>3. ToSet(base) \subseteq ToSet(tools)
  BY <1>1, <1>2 DEF ToSet
<1>4. SubSeq(base, 1, Len(base)) = SubSeq(tools, 1, Len(base))
  <2>1. SubSeq(base, 1, Len(base)) = [i \in 1 .. Len(base) |-> base[i]]
    BY <1>1
  <2>2. SubSeq(tools, 1, Len(base)) = [i \in 1 .. Len(base) |-> tools[i]]
    BY <1>1
  <2> QED BY <1>2, <2>1, <2>2
<1> QED BY <1>1, <1>3, <1>4 DEF IsPrefix

LEMMA NextIInv ==
  ASSUME IInv, [Next]_vars
  PROVE  IInv' /\ IsPrefix(registry, registry')
<1> USE DEF IInv
<1>1. IsPrefix(registry, registry)
  <2>1. Len(registry) \in Nat
    BY LenProperties DEF TypeOK
  <2> QED BY <2>1 DEF IsPrefix
<1>2. ASSUME NEW n \in 0 .. MaxBatch, NEW batch \in [1 .. n -> Tools], register_all(batch)
      PROVE  IInv' /\ IsPrefix(registry, registry')
  <2>0. n \in Nat
    BY BatchAssumption
  <2>1. Registered(batch, n) /\ NamesUnique' /\ UNCHANGED executors
    BY <1>2, <2>0, RegisterAllRegisters
  <2>2. PICK k \in 0 .. n :
          /\ Extends(registry', registry, batch, k)
          /\ reply' = [kind |-> IF k = n THEN "ok" ELSE "DuplicateToolError"]
    BY <2>1 DEF Registered
  <2>3. ToSet(registry) \subseteq ToSet(registry') /\ IsPrefix(registry, registry')
    BY <2>2, ExtendsKeeps DEF TypeOK
  <2>4. reply' \in Replies /\ reply'.kind # "result"
    BY <2>2 DEF Replies
  <2>5. registry' \in Seq(Tools)
    BY <2>2 DEF Extends
  <2>6. SnapshotListed' /\ CallsWhatIsListed'
    BY <2>1, <2>3, <2>4 DEF SnapshotListed, CallsWhatIsListed
  <2> QED BY <2>1, <2>3, <2>4, <2>5, <2>6 DEF TypeOK
<1>3. CASE build_mcp_server
  <2> DEFINE tool(n) == CHOOSE t \in ToSet(registry) : t.name = n
  <2>0. UNCHANGED <<registry, reply>> /\ executors' = [n \in NamesOf(registry) |-> tool(n).handler]
    BY <1>3 DEF build_mcp_server
  <2>1. \A t \in ToSet(registry) : t \in Tools
    BY LenProperties, ElementOfSeq DEF TypeOK, ToSet
  <2>2. ASSUME NEW n \in NamesOf(registry)
        PROVE  n \in Names /\ tool(n) \in ToSet(registry) /\ tool(n).name = n
    <3>1. PICK i \in DOMAIN registry : n = registry[i].name
      BY DEF NamesOf
    <3>2. registry[i] \in ToSet(registry)
      BY DEF ToSet
    <3>3. registry[i] \in Tools
      BY <2>1, <3>2
    <3> QED BY <3>1, <3>2, <3>3 DEF Tools
  <2>3. \A n \in NamesOf(registry) :
          /\ tool(n) = [name |-> n, handler |-> tool(n).handler]
          /\ tool(n).handler \in Handlers
    BY <2>1, <2>2 DEF Tools
  <2> HIDE DEF tool
  <2>4. NamesOf(registry) \in SUBSET Names
    BY <2>2
  <2>5. executors' \in [NamesOf(registry) -> Handlers]
    BY <2>0, <2>3
  <2>6. TypeOK'
    BY <2>0, <2>4, <2>5 DEF TypeOK
  <2>7. SnapshotListed'
    BY <2>0, <2>2, <2>3 DEF SnapshotListed
  <2> QED BY <1>1, <2>0, <2>6, <2>7 DEF NamesUnique, CallsWhatIsListed
<1>4. CASE list_tools
  <2>1. UNCHANGED <<registry, executors>> /\ reply' = [kind |-> "tools", list |-> registry]
    BY <1>4 DEF list_tools
  <2>2. reply' \in Replies /\ reply'.kind # "result"
    BY <2>1 DEF Replies, TypeOK
  <2> QED BY <1>1, <2>1, <2>2 DEF TypeOK, NamesUnique, SnapshotListed, CallsWhatIsListed
<1>5. ASSUME NEW name \in Names, call_tool(name)
      PROVE  IInv' /\ IsPrefix(registry, registry')
  <2>0. UNCHANGED <<registry, executors>> /\ executors # None
    BY <1>5 DEF call_tool
  <2>1. reply' \in Replies /\ CallsWhatIsListed'
    <3>1. CASE name \in DOMAIN executors
      <4>1. reply' = [kind |-> "result", name |-> name, handler |-> executors[name]]
        BY <1>5, <3>1 DEF call_tool
      <4>2. executors[name] \in Handlers
        BY <2>0, <3>1 DEF TypeOK
      <4>3. [name |-> name, handler |-> executors[name]] \in ToSet(registry)
        BY <2>0, <3>1 DEF SnapshotListed
      <4> QED BY <2>0, <4>1, <4>2, <4>3 DEF Replies, CallsWhatIsListed
    <3>2. CASE name \notin DOMAIN executors
      <4>1. reply' = [kind |-> "unknown tool"]
        BY <1>5, <3>2 DEF call_tool
      <4> QED BY <4>1 DEF Replies, CallsWhatIsListed
    <3> QED BY <3>1, <3>2
  <2> QED BY <1>1, <2>0, <2>1 DEF TypeOK, NamesUnique, SnapshotListed
<1>6. CASE UNCHANGED vars
  BY <1>1, <1>6 DEF vars, TypeOK, NamesUnique, SnapshotListed, CallsWhatIsListed
<1> QED BY <1>2, <1>3, <1>4, <1>5, <1>6 DEF Next

LEMMA SpecIInv == Spec => []IInv
<1>1. IInv /\ [Next]_vars => IInv'
  BY NextIInv
<1> QED BY <1>1, InitIInv, PTL DEF Spec

-----------------------------------------------------------------------------
(* Catalog, executors and replies have their types, for any names,         *)
(* handlers and batches.                                                   *)
THEOREM TypeCorrect == Spec => []TypeOK
BY SpecIInv, PTL DEF IInv

(* No sequence of registrations, failed ones included, gives one name to   *)
(* two definitions.                                                        *)
THEOREM NamesStayUnique == Spec => []NamesUnique
BY SpecIInv, PTL DEF IInv

(* What a call runs is what tools/list shows under its name, although the  *)
(* executors were taken once and the catalog has grown since.              *)
THEOREM CallsRunWhatIsListed == Spec => []CallsWhatIsListed
BY SpecIInv, PTL DEF IInv

(* No step replaces, moves or removes a definition of the catalog.         *)
THEOREM CatalogOnlyGrows == Spec => CatalogGrows
<1>1. IInv /\ [Next]_vars => [IsPrefix(registry, registry')]_vars
  BY NextIInv
<1> QED BY <1>1, SpecIInv, PTL DEF Spec, CatalogGrows

(* register_all is not atomic in its effect: it keeps the definitions of   *)
(* the batch that precede the first one whose name is taken, in their      *)
(* order, and answers "ok" exactly when there is no such one.              *)
THEOREM BatchStopsAtDuplicate ==
  Spec => [][\A n \in Nat : \A batch \in [1 .. n -> Tools] :
               register_all(batch) => Registered(batch, n)]_vars
<1>1. IInv /\ [Next]_vars => [\A n \in Nat : \A batch \in [1 .. n -> Tools] :
                                register_all(batch) => Registered(batch, n)]_vars
  BY RegisterAllRegisters DEF IInv
<1> QED BY <1>1, SpecIInv, PTL DEF Spec
=============================================================================
