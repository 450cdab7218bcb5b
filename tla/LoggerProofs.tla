---------------------------- MODULE LoggerProofs ----------------------------
(***************************************************************************)
(* What may stand in a log line, for values of any shape and any bounds on *)
(* depth, length and width.                                                *)
(***************************************************************************)
EXTENDS Logger, SequenceTheorems, WellFoundedInduction, TLAPS

USE BoundsAssumption

-----------------------------------------------------------------------------
(* Induction over the naturals, for a set instead of a predicate.          *)
LEMMA SetInduction ==
  ASSUME NEW T, 0 \in T, \A k \in Nat : k \in T => k + 1 \in T
  PROVE  Nat \subseteq T
<1> DEFINE R == {ss \in Nat \X Nat : ss[1] < ss[2]}
           M == Nat \ T
<1>1. R = OpToRel(<, Nat)
  BY DEF OpToRel
<1>2. IsWellFoundedOn(R, Nat)
  BY <1>1, NatLessThanWellFounded
<1>3. \A j, m \in Nat : j < m => <<j, m>> \in R
  OBVIOUS
<1> SUFFICES ASSUME M # {} PROVE FALSE
  OBVIOUS
<1> HIDE DEF R
<1>4. PICK m \in M : \A j \in M : ~ (<<j, m>> \in R)
  <2>1. M \in SUBSET Nat
    OBVIOUS
  <2> HIDE DEF M
  <2> QED BY <1>2, <2>1, WFMin
<1>5. m - 1 \in Nat /\ m - 1 < m
  BY <1>4
<1>6. m - 1 \in T
  BY <1>3, <1>4, <1>5
<1>7. m - 1 + 1 \in T
  BY <1>5, <1>6
<1> QED BY <1>4, <1>5, <1>7

(* From top downwards, as redact descends into a value.                    *)
LEMMA Downwards ==
  ASSUME NEW top \in Nat, NEW T, top \in T,
         \A d \in Nat : d < top /\ d + 1 \in T => d \in T
  PROVE  \A d \in 0 .. top : d \in T
<1> DEFINE U == {k \in Nat : k <= top => top - k \in T}
<1>1. 0 \in U
  OBVIOUS
<1>2. ASSUME NEW k \in Nat, k \in U PROVE k + 1 \in U
  <2>1. CASE k + 1 <= top
    <3>1. top - (k + 1) \in Nat /\ top - (k + 1) < top /\ top - (k + 1) + 1 = top - k
      BY <2>1
    <3>2. top - k \in T
      BY <1>2, <2>1
    <3> QED BY <3>1, <3>2
  <2> QED BY <2>1
<1>3. Nat \subseteq U
  <2> HIDE DEF U
  <2> QED BY <1>1, <1>2, SetInduction
<1> TAKE d \in 0 .. top
<1>4. top - d \in U /\ top - (top - d) = d
  BY <1>3
<1> QED BY <1>4

-----------------------------------------------------------------------------
(* Values, one level at a time.                                            *)

(* The recursive definition of Made means what it says.                    *)
LEMMA MadeDef ==
  ASSUME NEW texts, NEW widths, NEW hidden
  PROVE  /\ Made(texts, widths, hidden, 0) = {}
         /\ \A n \in 1 .. MaxNesting :
              Made(texts, widths, hidden, n)
                = Layer(texts, widths, hidden, Made(texts, widths, hidden, n - 1))
<1> DEFINE L(S) == Layer(texts, widths, hidden, S)
           Fixed(g, k) == g = [n \in 0 .. k |-> IF n = 0 THEN {} ELSE L(g[n - 1])]
           T == {k \in Nat : \E g : Fixed(g, k)}
           upto == CHOOSE g : Fixed(g, MaxNesting)
<1>1. \A n : Made(texts, widths, hidden, n) = upto[n]
  BY DEF Made
<1> HIDE DEF L
<1>2. 0 \in T
  <2>1. Fixed([n \in 0 .. 0 |-> {}], 0)
    OBVIOUS
  <2> QED BY <2>1
<1>3. ASSUME NEW k \in Nat, k \in T PROVE k + 1 \in T
  <2>1. PICK g : Fixed(g, k)
    BY <1>3
  <2> DEFINE h == [n \in 0 .. k + 1 |-> IF n = k + 1 THEN L(g[k]) ELSE g[n]]
  <2>2. ASSUME NEW n \in 0 .. k + 1
        PROVE  h[n] = IF n = 0 THEN {} ELSE L(h[n - 1])
    <3>1. CASE n = k + 1
      <4>1. h[n] = L(g[k]) /\ h[n - 1] = g[k] /\ n # 0
        BY <3>1
      <4> HIDE DEF h
      <4> QED BY <4>1
    <3>2. CASE n = 0
      BY <2>1, <3>2
    <3>3. CASE n \in 1 .. k
      <4>1. n \in 0 .. k /\ n - 1 \in 0 .. k /\ n # 0 /\ n # k + 1 /\ n - 1 # k + 1
        BY <3>3
      <4>2. h[n] = g[n] /\ h[n - 1] = g[n - 1]
        BY <4>1
      <4>3. g[n] = L(g[n - 1])
        BY <2>1, <4>1
      <4> HIDE DEF h
      <4> QED BY <4>1, <4>2, <4>3
    <3> QED BY <3>1, <3>2, <3>3
  <2>3. Fixed(h, k + 1)
    BY <2>2
  <2> HIDE DEF Fixed, h
  <2> QED BY <2>3
<1>4. Fixed(upto, MaxNesting)
  <2> HIDE DEF Fixed
  <2>1. MaxNesting \in T
    BY <1>2, <1>3, SetInduction
  <2> QED BY <2>1
<1> HIDE DEF upto
<1>5. \A n \in 0 .. MaxNesting : upto[n] = IF n = 0 THEN {} ELSE L(upto[n - 1])
  BY <1>4
<1>6. upto[0] = {} /\ \A n \in 1 .. MaxNesting : upto[n] = L(upto[n - 1])
  <2> HIDE DEF Fixed
  <2>1. upto[0] = {}
    BY <1>5
  <2>2. ASSUME NEW n \in 1 .. MaxNesting PROVE upto[n] = L(upto[n - 1])
    <3>1. n \in 0 .. MaxNesting /\ n # 0
      OBVIOUS
    <3> QED BY <1>5, <3>1
  <2> QED BY <2>1, <2>2
<1> QED BY <1>1, <1>6 DEF L

(* The entries that a dict of the layer above parts may have.              *)
Entries(hidden, parts) ==
  {e \in Names \X parts : e[1] \in hidden => e[2] = Str(<<REDACTED>>)}

(* A value is of one of four kinds, and what it is made of is below it.    *)
LEMMA LayerCases ==
  ASSUME NEW texts, NEW widths, NEW hidden, NEW parts, NEW v \in Layer(texts, widths, hidden, parts)
  PROVE  \/ v = Atom
         \/ \E t \in texts : v = Str(t)
         \/ \E s \in Seq(Entries(hidden, parts)) : Len(s) \in widths /\ v = Dict(s)
         \/ \E s \in Seq(parts) : Len(s) \in widths /\ v = List(s)
BY DEF Layer, Entries, Str, Dict, List

LEMMA LayerMembers ==
  ASSUME NEW texts, NEW widths, NEW hidden, NEW parts
  PROVE  /\ Atom \in Layer(texts, widths, hidden, parts)
         /\ \A t \in texts : Str(t) \in Layer(texts, widths, hidden, parts)
         /\ \A s \in Seq(Entries(hidden, parts)) :
              Len(s) \in widths => Dict(s) \in Layer(texts, widths, hidden, parts)
         /\ \A s \in Seq(parts) :
              Len(s) \in widths => List(s) \in Layer(texts, widths, hidden, parts)
BY DEF Layer, Entries, Str, Dict, List

LEMMA LargerSeq ==
  ASSUME NEW A, NEW B, A \subseteq B
  PROVE  Seq(A) \subseteq Seq(B)
OBVIOUS

(* More texts, more widths, fewer hidden names and more levels: more       *)
(* values.                                                                 *)
LEMMA MadeGrows ==
  ASSUME NEW t1, NEW w1, NEW h1, NEW t2, NEW w2, NEW h2,
         t1 \subseteq t2, w1 \subseteq w2, h2 \subseteq h1
  PROVE  \A n \in 0 .. MaxNesting : \A m \in n .. MaxNesting :
           Made(t1, w1, h1, n) \subseteq Made(t2, w2, h2, m)
<1> DEFINE A(n) == Made(t1, w1, h1, n)
           B(m) == Made(t2, w2, h2, m)
           T == {n \in Nat : n <= MaxNesting => \A m \in n .. MaxNesting : A(n) \subseteq B(m)}
<1>1. 0 \in T
  BY MadeDef
<1>2. ASSUME NEW n \in Nat, n \in T PROVE n + 1 \in T
  <2> SUFFICES ASSUME n + 1 <= MaxNesting, NEW m \in n + 1 .. MaxNesting, NEW v \in A(n + 1)
               PROVE  v \in B(m)
    OBVIOUS
  <2>1. n + 1 \in 1 .. MaxNesting /\ m \in 1 .. MaxNesting /\ m - 1 \in n .. MaxNesting
    OBVIOUS
  <2>2. A(n) \subseteq B(m - 1)
    BY <1>2, <2>1
  <2> HIDE DEF T
  <2>3. A(n + 1) = Layer(t1, w1, h1, A(n)) /\ B(m) = Layer(t2, w2, h2, B(m - 1))
    <3>1. n + 1 - 1 = n
      OBVIOUS
    <3>2. \A k \in 1 .. MaxNesting : A(k) = Layer(t1, w1, h1, A(k - 1))
      BY MadeDef
    <3>3. B(m) = Layer(t2, w2, h2, B(m - 1))
      BY <2>1, MadeDef
    <3> QED BY <3>1, <3>2, <3>3
  <2> HIDE DEF A, B
  <2>4. Entries(h1, A(n)) \subseteq Entries(h2, B(m - 1))
    BY <2>2 DEF Entries
  <2>5. Seq(A(n)) \subseteq Seq(B(m - 1)) /\ Seq(Entries(h1, A(n))) \subseteq Seq(Entries(h2, B(m - 1)))
    BY <2>2, <2>4, LargerSeq
  <2> QED BY <2>3, <2>5, LayerCases, LayerMembers
<1>3. Nat \subseteq T
  <2> HIDE DEF T
  <2> QED BY <1>1, <1>2, SetInduction
<1> SUFFICES ASSUME NEW n \in 0 .. MaxNesting, NEW m \in n .. MaxNesting
             PROVE  A(n) \subseteq B(m)
  OBVIOUS
<1>4. n \in T
  BY <1>3
<1> QED BY <1>4

(* A value of some levels: what it may be, and what it may be made of.     *)
LEMMA MadeCases ==
  ASSUME NEW texts, NEW widths, NEW hidden, NEW n \in 0 .. MaxNesting,
         NEW v \in Made(texts, widths, hidden, n)
  PROVE  /\ n - 1 \in 0 .. MaxNesting
         /\ \/ v = Atom
            \/ \E t \in texts : v = Str(t)
            \/ \E s \in Seq(Entries(hidden, Made(texts, widths, hidden, n - 1))) :
                 Len(s) \in widths /\ v = Dict(s)
            \/ \E s \in Seq(Made(texts, widths, hidden, n - 1)) :
                 Len(s) \in widths /\ v = List(s)
<1>1. n \in 1 .. MaxNesting
  BY MadeDef
<1>2. v \in Layer(texts, widths, hidden, Made(texts, widths, hidden, n - 1))
  BY <1>1, MadeDef
<1> QED BY <1>1, <1>2, LayerCases

LEMMA MadeMembers ==
  ASSUME NEW texts, NEW widths, NEW hidden, NEW n \in 1 .. MaxNesting
  PROVE  /\ Atom \in Made(texts, widths, hidden, n)
         /\ \A t \in texts : Str(t) \in Made(texts, widths, hidden, n)
         /\ \A s \in Seq(Entries(hidden, Made(texts, widths, hidden, n - 1))) :
              Len(s) \in widths => Dict(s) \in Made(texts, widths, hidden, n)
         /\ \A s \in Seq(Made(texts, widths, hidden, n - 1)) :
              Len(s) \in widths => List(s) \in Made(texts, widths, hidden, n)
<1>1. Made(texts, widths, hidden, n)
        = Layer(texts, widths, hidden, Made(texts, widths, hidden, n - 1))
  BY MadeDef
<1> QED BY <1>1, LayerMembers

(* The four kinds are told apart by kind.                                  *)
LEMMA Kinds ==
  /\ Atom.kind = "atom"
  /\ \A t : Str(t).kind = "str" /\ Str(t).text = t
  /\ \A s : Dict(s).kind = "dict" /\ Dict(s).entries = s
  /\ \A s : List(s).kind = "list" /\ List(s).items = s
BY DEF Atom, Str, Dict, List

-----------------------------------------------------------------------------
(* The recursive definition of redact means what it says.                  *)
LEMMA RedactDef ==
  /\ \A v \in Value : redact_at[MaxDepth][v] = Str(<<Deeper>>)
  /\ \A d \in 0 .. MaxDepth - 1 : \A v \in Value :
       redact_at[d][v] = walk(v, redact_at[d + 1])
<1> DEFINE Body(g, depth) ==
             [v \in Value |-> IF depth >= MaxDepth
                              THEN Str(<<Deeper>>)
                              ELSE walk(v, g[depth + 1])]
           Fixed(g, d) == g = [depth \in d .. MaxDepth |-> Body(g, depth)]
           T == {d \in 0 .. MaxDepth : \E g : Fixed(g, d)}
<1>1. redact_at = CHOOSE g : Fixed(g, 0)
  BY DEF redact_at
<1>2. \A g, h : \A d \in 0 .. MaxDepth :
        d = MaxDepth \/ g[d + 1] = h[d + 1] => Body(g, d) = Body(h, d)
  OBVIOUS
<1>3. ASSUME NEW g, NEW d \in 0 .. MaxDepth - 1, NEW v \in Value
      PROVE  Body(g, d)[v] = walk(v, g[d + 1])
  OBVIOUS
<1>4. ASSUME NEW g, NEW v \in Value PROVE Body(g, MaxDepth)[v] = Str(<<Deeper>>)
  OBVIOUS
<1> HIDE DEF Body
<1>5. MaxDepth \in T
  <2> DEFINE g == [depth \in MaxDepth .. MaxDepth |-> Body(<<>>, MaxDepth)]
  <2>1. \A d \in MaxDepth .. MaxDepth : d = MaxDepth
    OBVIOUS
  <2>2. Body(g, MaxDepth) = Body(<<>>, MaxDepth)
    BY <1>2
  <2>3. Fixed(g, MaxDepth)
    BY <2>1, <2>2
  <2>4. MaxDepth \in 0 .. MaxDepth
    OBVIOUS
  <2> HIDE DEF Fixed, g
  <2> QED BY <2>3, <2>4
<1>6. ASSUME NEW d \in Nat, d < MaxDepth, d + 1 \in T PROVE d \in T
  <2>1. PICK g : Fixed(g, d + 1)
    BY <1>6
  <2> DEFINE h == [i \in d .. MaxDepth |-> IF i = d THEN Body(g, d) ELSE g[i]]
  <2>2. ASSUME NEW i \in d .. MaxDepth PROVE h[i] = Body(h, i)
    <3>1. i # MaxDepth => h[i + 1] = g[i + 1]
      BY <1>6
    <3>2. Body(h, i) = Body(g, i)
      <4>1. i \in 0 .. MaxDepth
        OBVIOUS
      <4> HIDE DEF h
      <4> QED BY <1>2, <3>1, <4>1
    <3>3. h[i] = Body(g, i)
      <4>1. CASE i = d
        BY <4>1
      <4>2. CASE i \in d + 1 .. MaxDepth
        BY <2>1, <4>2
      <4> QED BY <4>1, <4>2
    <3> HIDE DEF h
    <3> QED BY <3>2, <3>3
  <2>3. Fixed(h, d)
    BY <2>2
  <2> HIDE DEF Fixed, h
  <2> QED BY <1>6, <2>3
<1>7. Fixed(redact_at, 0)
  <2> HIDE DEF Fixed
  <2>1. 0 \in T
    <3> HIDE DEF T
    <3> QED BY <1>5, <1>6, Downwards
  <2> QED BY <1>1, <2>1
<1>8. \A d \in 0 .. MaxDepth : redact_at[d] = Body(redact_at, d)
  BY <1>7
<1> QED BY <1>3, <1>4, <1>8

(* The recursive definition of Shown means what it says.                   *)
LEMMA ShownDef ==
  \A levels \in 0 .. MaxDepth : \A w, v \in Value :
    <<w, v>> \in Shown[levels] <=> Shows(w, v, levels, Shown[levels - 1])
<1> DEFINE Body(g, n) == {p \in Value \X Value : Shows(p[1], p[2], n, g[n - 1])}
           Fixed(g, k) == g = [n \in 0 .. k |-> Body(g, n)]
           T == {k \in Nat : \E g : Fixed(g, k)}
<1>1. Shown = CHOOSE g : Fixed(g, MaxDepth)
  BY DEF Shown
<1>2. \A g, h : \A n \in Nat : n = 0 \/ g[n - 1] = h[n - 1] => Body(g, n) = Body(h, n)
  BY DEF Shows
<1>3. ASSUME NEW g, NEW n, NEW w \in Value, NEW v \in Value
      PROVE  <<w, v>> \in Body(g, n) <=> Shows(w, v, n, g[n - 1])
  OBVIOUS
<1> HIDE DEF Body
<1>4. 0 \in T
  <2> DEFINE g == [n \in 0 .. 0 |-> Body(<<>>, 0)]
  <2>1. \A n \in 0 .. 0 : n = 0
    OBVIOUS
  <2>2. Body(g, 0) = Body(<<>>, 0)
    BY <1>2
  <2>3. Fixed(g, 0)
    BY <2>1, <2>2
  <2> HIDE DEF Fixed, g
  <2> QED BY <2>3
<1>5. ASSUME NEW k \in Nat, k \in T PROVE k + 1 \in T
  <2>1. PICK g : Fixed(g, k)
    BY <1>5
  <2> DEFINE h == [n \in 0 .. k + 1 |-> IF n = k + 1 THEN Body(g, k + 1) ELSE g[n]]
  <2>2. ASSUME NEW n \in 0 .. k + 1 PROVE h[n] = Body(h, n)
    <3>1. n # 0 => h[n - 1] = g[n - 1]
      <4> SUFFICES ASSUME n # 0 PROVE h[n - 1] = g[n - 1]
        OBVIOUS
      <4>1. n - 1 \in 0 .. k + 1 /\ n - 1 # k + 1
        OBVIOUS
      <4> QED BY <4>1
    <3>2. Body(h, n) = Body(g, n)
      <4> HIDE DEF h
      <4> QED BY <1>2, <3>1
    <3>3. h[n] = Body(g, n)
      <4>1. CASE n = k + 1
        BY <4>1
      <4>2. CASE n \in 0 .. k
        BY <2>1, <4>2
      <4> QED BY <4>1, <4>2
    <3> HIDE DEF h
    <3> QED BY <3>2, <3>3
  <2>3. Fixed(h, k + 1)
    BY <2>2
  <2> HIDE DEF Fixed, h
  <2> QED BY <2>3
<1>6. Fixed(Shown, MaxDepth)
  <2> HIDE DEF Fixed
  <2>1. MaxDepth \in T
    <3> HIDE DEF T
    <3> QED BY <1>4, <1>5, SetInduction
  <2> QED BY <1>1, <2>1
<1>7. \A n \in 0 .. MaxDepth : Shown[n] = Body(Shown, n)
  BY <1>6
<1> TAKE levels \in 0 .. MaxDepth
<1> TAKE w, v \in Value
<1> HIDE DEF Fixed
<1>8. Shown[levels] = Body(Shown, levels)
  BY <1>7
<1> QED BY <1>3, <1>8

-----------------------------------------------------------------------------
(* scrub_text.                                                             *)

(* The fold of scrub is the loop it stands for.                            *)
LEMMA ScrubLoop ==
  ASSUME NEW text \in Seq(Pieces)
  PROVE  \E run : /\ run[0] = <<>>
                  /\ \A i \in 1 .. Len(text) : run[i] = scrub_piece(run[i - 1], text[i])
                  /\ scrub(text) = run[Len(text)]
<1> DEFINE n == Len(text)
           base == <<>>
           step(g, s) == scrub_piece(g[s \ {Max(s)}], text[Max(s)])
           Fixed(g, k) == g = [s \in SUBSET (1 .. k) |-> IF s = {} THEN base ELSE step(g, s)]
           T == {k \in Nat : \E g : Fixed(g, k)}
           iter == CHOOSE g : Fixed(g, n)
<1>0. n \in Nat /\ DOMAIN text = 1 .. n
  OBVIOUS
<1>1. scrub(text) = iter[1 .. n]
  BY <1>0 DEF scrub, FoldLeft, MapThenFoldSet
<1> HIDE DEF base
<1>2. \A k \in Nat \ {0} : Max(1 .. k) = k /\ (1 .. k) \ {k} = 1 .. k - 1
  <2> SUFFICES ASSUME NEW k \in Nat \ {0} PROVE Max(1 .. k) = k
    OBVIOUS
  <2>1. k \in 1 .. k /\ \A y \in 1 .. k : k >= y
    OBVIOUS
  <2>2. \A x \in 1 .. k : (\A y \in 1 .. k : x >= y) => x = k
    OBVIOUS
  <2> QED BY <2>1, <2>2 DEF Max
<1> HIDE DEF n
<1>3. 0 \in T
  <2>1. \A s \in SUBSET (1 .. 0) : s = {}
    OBVIOUS
  <2>2. Fixed([s \in SUBSET (1 .. 0) |-> base], 0)
    BY <2>1
  <2> QED BY <2>2
<1>4. ASSUME NEW k \in Nat, k \in T PROVE k + 1 \in T
  <2>1. PICK g : Fixed(g, k)
    BY <1>4
  <2> DEFINE h == [s \in SUBSET (1 .. k + 1) |->
                     IF k + 1 \in s THEN step(g, s) ELSE g[s]]
  <2>2. ASSUME NEW s \in SUBSET (1 .. k + 1)
        PROVE  h[s] = IF s = {} THEN base ELSE step(h, s)
    <3>1. CASE s = {}
      <4>1. s \in SUBSET (1 .. k) /\ k + 1 \notin s
        BY <3>1
      <4> QED BY <2>1, <3>1, <4>1
    <3>2. CASE k + 1 \in s
      <4>1. Max(s) = k + 1
        <5>1. \A y \in s : k + 1 >= y
          OBVIOUS
        <5>2. \A x \in s : (\A y \in s : x >= y) => x = k + 1
          BY <3>2
        <5> QED BY <3>2, <5>1, <5>2 DEF Max
      <4>2. /\ s \ {k + 1} \in SUBSET (1 .. k + 1)
            /\ k + 1 \notin s \ {k + 1}
        OBVIOUS
      <4>3. h[s \ {k + 1}] = g[s \ {k + 1}]
        BY <4>2
      <4>4. h[s] = step(g, s)
        BY <3>2
      <4> HIDE DEF h
      <4> QED BY <3>2, <4>1, <4>3, <4>4
    <3>3. CASE s # {} /\ k + 1 \notin s
      <4> DEFINE t == s \ {Max(s)}
      <4>1. s \in SUBSET (1 .. k)
        BY <3>3
      <4>2. t \in SUBSET (1 .. k + 1) /\ k + 1 \notin t
        BY <3>3
      <4>3. h[s] = g[s] /\ h[t] = g[t]
        BY <3>3, <4>2
      <4>4. g[s] = step(g, s)
        BY <2>1, <3>3, <4>1
      <4> HIDE DEF h
      <4> QED BY <3>3, <4>3, <4>4
    <3> QED BY <3>1, <3>2, <3>3
  <2>3. Fixed(h, k + 1)
    BY <2>2
  <2> HIDE DEF Fixed, h
  <2> QED BY <2>3
<1>5. Fixed(iter, n)
  <2> HIDE DEF Fixed
  <2>1. n \in T
    BY <1>0, <1>3, <1>4, SetInduction
  <2> QED BY <2>1
<1> DEFINE run == [i \in 0 .. n |-> iter[1 .. i]]
<1>6. run[0] = base
  <2>1. {} \in SUBSET (1 .. n) /\ 1 .. 0 = {} /\ 0 \in 0 .. n
    BY <1>0
  <2>2. iter[{}] = base
    BY <1>5, <2>1
  <2> HIDE DEF iter
  <2> QED BY <2>1, <2>2
<1>7. ASSUME NEW i \in 1 .. n PROVE run[i] = scrub_piece(run[i - 1], text[i])
  <2>1. 1 .. i \in SUBSET (1 .. n) /\ 1 .. i # {} /\ i \in Nat \ {0}
    BY <1>0
  <2>2. iter[1 .. i] = step(iter, 1 .. i)
    BY <1>5, <2>1
  <2> HIDE DEF iter
  <2>3. Max(1 .. i) = i /\ (1 .. i) \ {i} = 1 .. i - 1
    BY <1>2, <2>1
  <2>4. run[i] = iter[1 .. i] /\ run[i - 1] = iter[1 .. i - 1]
    BY <1>0
  <2> HIDE DEF run
  <2> QED BY <2>2, <2>3, <2>4
<1>8. scrub(text) = run[n]
  BY <1>0, <1>1
<1> HIDE DEF run
<1> QED BY <1>6, <1>7, <1>8 DEF base, n

LEMMA Messages ==
  /\ REDACTED \in Pieces \ {"cre", "dential"}
  /\ More \in Pieces \ {"cre", "dential"}
  /\ Deeper \in Pieces \ {"cre", "dential"}
BY DEF Pieces, REDACTED, More, Deeper

LEMMA NoPieces == \A S : <<>> \in Seq(S)
OBVIOUS

LEMMA AppendSeq ==
  ASSUME NEW S, NEW s \in Seq(S), NEW e \in S
  PROVE  Append(s, e) \in Seq(S)
OBVIOUS

LEMMA AppendFront ==
  ASSUME NEW S, NEW s \in Seq(S), NEW e
  PROVE  /\ Append(s, e) # <<>>
         /\ Last(Append(s, e)) = e
         /\ Front(Append(s, e)) = s
<1> DEFINE t == Append(s, e)
<1>1. t \in Seq(S \cup {e}) /\ Len(t) = Len(s) + 1 /\ Len(s) \in Nat
      /\ t[Len(s) + 1] = e /\ \A i \in 1 .. Len(s) : t[i] = s[i]
  <2>1. s \in Seq(S \cup {e}) /\ e \in S \cup {e}
    OBVIOUS
  <2> QED BY <2>1, AppendProperties
<1> HIDE DEF t
<1>2. t # <<>> /\ Last(t) = e
  BY <1>1 DEF Last
<1>3. Front(t) = s
  <2>1. Front(t) = SubSeq(t, 1, Len(s))
    BY <1>1 DEF Front
  <2>2. SubSeq(t, 1, Len(s)) \in Seq(S \cup {e}) /\ Len(SubSeq(t, 1, Len(s))) = Len(s)
        /\ \A i \in 1 .. Len(s) : SubSeq(t, 1, Len(s))[i] = t[i]
    BY <1>1, SubSeqProperties
  <2>3. s \in Seq(S \cup {e})
    OBVIOUS
  <2> QED BY <1>1, <2>1, <2>2, <2>3, SeqEqual
<1> QED BY <1>2, <1>3 DEF t

LEMMA ScrubPieces ==
  ASSUME NEW text \in Seq(Pieces)
  PROVE  scrub(text) \in Seq(Pieces)
<1>1. PICK run : /\ run[0] = <<>>
                 /\ \A i \in 1 .. Len(text) : run[i] = scrub_piece(run[i - 1], text[i])
                 /\ scrub(text) = run[Len(text)]
  BY ScrubLoop
<1> DEFINE T == {i \in Nat : i <= Len(text) => run[i] \in Seq(Pieces)}
<1>2. 0 \in T
  BY <1>1, NoPieces
<1>3. ASSUME NEW i \in Nat, i \in T PROVE i + 1 \in T
  <2> SUFFICES ASSUME i + 1 <= Len(text) PROVE run[i + 1] \in Seq(Pieces)
    OBVIOUS
  <2>1. i + 1 \in 1 .. Len(text) /\ i + 1 - 1 = i
    OBVIOUS
  <2>2. run[i] \in Seq(Pieces) /\ text[i + 1] \in Pieces
    BY <1>3, <2>1
  <2>3. run[i + 1] = scrub_piece(run[i], text[i + 1])
    BY <1>1, <2>1
  <2>4. run[i] # <<>> => Front(run[i]) \in Seq(Pieces)
    BY <2>2 DEF Front
  <2> HIDE DEF T
  <2> QED BY <2>2, <2>3, <2>4, Messages, AppendSeq DEF scrub_piece
<1>4. Len(text) \in T /\ Len(text) \in Nat
  <2> HIDE DEF T
  <2> QED BY <1>2, <1>3, SetInduction
<1> QED BY <1>1, <1>4

(* In a text with whole credentials only, no part of one is left.          *)
LEMMA ScrubWhole ==
  ASSUME NEW text \in WholeTexts
  PROVE  scrub(text) \in CleanTexts
<1>0. text \in Seq(Pieces) /\ Len(text) \in Nat /\ DOMAIN text = 1 .. Len(text)
  BY DEF WholeTexts
<1>1. PICK run : /\ run[0] = <<>>
                 /\ \A i \in 1 .. Len(text) : run[i] = scrub_piece(run[i - 1], text[i])
                 /\ scrub(text) = run[Len(text)]
  BY <1>0, ScrubLoop
<1> DEFINE Half(i) == i > 0 /\ text[i] = "cre"
           T == {i \in Nat : i <= Len(text) =>
                   IF Half(i)
                   THEN \E c \in CleanTexts : run[i] = Append(c, "cre")
                   ELSE run[i] \in CleanTexts}
<1>2. 0 \in T
  <2>1. ~Half(0) /\ run[0] \in CleanTexts
    BY <1>1, NoPieces DEF CleanTexts
  <2> HIDE DEF Half
  <2> QED BY <2>1
<1>3. ASSUME NEW i \in Nat, i \in T PROVE i + 1 \in T
  <2> SUFFICES ASSUME i + 1 <= Len(text)
               PROVE  IF Half(i + 1)
                      THEN \E c \in CleanTexts : run[i + 1] = Append(c, "cre")
                      ELSE run[i + 1] \in CleanTexts
    OBVIOUS
  <2> DEFINE piece == text[i + 1]
  <2>1. i + 1 \in 1 .. Len(text) /\ i + 1 - 1 = i /\ i <= Len(text)
    BY <1>0
  <2>2. run[i + 1] = scrub_piece(run[i], piece)
    BY <1>1, <2>1
  <2>3. piece \in Pieces
    BY <1>0, <2>1
  <2>4. Half(i) <=> piece = "dential"
    <3>1. ASSUME Half(i) PROVE piece = "dential"
      <4>1. i \in 1 .. Len(text)
        BY <2>1, <3>1
      <4> QED BY <1>0, <3>1, <4>1 DEF WholeTexts
    <3>2. ASSUME piece = "dential" PROVE Half(i)
      <4>1. \A j \in 1 .. Len(text) : text[j] = "dential" => j > 1 /\ text[j - 1] = "cre"
        BY <1>0 DEF WholeTexts
      <4>2. i + 1 > 1 /\ text[i + 1 - 1] = "cre"
        BY <2>1, <3>2, <4>1
      <4> QED BY <2>1, <4>2
    <3> QED BY <3>1, <3>2
  <2>5. IF Half(i) THEN \E c \in CleanTexts : run[i] = Append(c, "cre")
                   ELSE run[i] \in CleanTexts
    BY <1>3, <2>1
  <2>6. Half(i + 1) <=> piece = "cre"
    OBVIOUS
  <2> HIDE DEF T, Half, piece
  <2>7. CASE piece = "dential"
    <3>1. PICK c \in CleanTexts : run[i] = Append(c, "cre")
      BY <2>4, <2>5, <2>7
    <3>2. run[i] # <<>> /\ Last(run[i]) = "cre" /\ Front(run[i]) = c
      BY <3>1, AppendFront DEF CleanTexts
    <3>3. run[i + 1] = Append(c, REDACTED)
      BY <2>2, <2>7, <3>2 DEF scrub_piece
    <3>4. run[i + 1] \in CleanTexts
      BY <3>3, Messages, AppendSeq DEF CleanTexts
    <3> QED BY <2>6, <2>7, <3>4
  <2>8. CASE piece # "dential"
    <3>1. run[i] \in CleanTexts /\ run[i + 1] = Append(run[i], piece)
      BY <2>2, <2>4, <2>5, <2>8 DEF scrub_piece
    <3>2. piece # "cre" => run[i + 1] \in CleanTexts
      BY <2>3, <2>8, <3>1, AppendSeq DEF CleanTexts
    <3> QED BY <2>6, <3>1, <3>2
  <2> QED BY <2>7, <2>8
<1>4. Len(text) \in T
  <2> HIDE DEF T
  <2> QED BY <1>0, <1>2, <1>3, SetInduction
<1>5. ~Half(Len(text))
  BY <1>0 DEF WholeTexts
<1> QED BY <1>0, <1>1, <1>4, <1>5

(* A text without credentials stays as it is.                              *)
LEMMA ScrubClean ==
  ASSUME NEW text \in CleanTexts
  PROVE  text \in Seq(Pieces) /\ scrub(text) = text
<1>0. text \in Seq(Pieces) /\ Len(text) \in Nat /\ DOMAIN text = 1 .. Len(text)
  BY DEF CleanTexts
<1>1. PICK run : /\ run[0] = <<>>
                 /\ \A i \in 1 .. Len(text) : run[i] = scrub_piece(run[i - 1], text[i])
                 /\ scrub(text) = run[Len(text)]
  BY <1>0, ScrubLoop
<1> DEFINE Same(i) == /\ run[i] \in Seq(Pieces)
                      /\ Len(run[i]) = i
                      /\ \A j \in 1 .. i : run[i][j] = text[j]
           T == {i \in Nat : i <= Len(text) => Same(i)}
<1>2. 0 \in T
  <2>1. run[0] \in Seq(Pieces) /\ Len(run[0]) = 0
    BY <1>1, NoPieces
  <2> QED BY <2>1
<1>3. ASSUME NEW i \in Nat, i \in T PROVE i + 1 \in T
  <2> SUFFICES ASSUME i + 1 <= Len(text) PROVE Same(i + 1)
    OBVIOUS
  <2>1. i + 1 \in 1 .. Len(text) /\ i + 1 - 1 = i /\ i <= Len(text)
    BY <1>0
  <2>2. text[i + 1] \in Pieces /\ text[i + 1] # "dential"
    BY <1>0, <2>1 DEF CleanTexts
  <2>3. run[i + 1] = Append(run[i], text[i + 1])
    <3>1. run[i + 1] = scrub_piece(run[i], text[i + 1])
      BY <1>1, <2>1
    <3> QED BY <2>2, <3>1 DEF scrub_piece
  <2>4. Same(i)
    BY <1>3, <2>1
  <2> QED BY <2>2, <2>3, <2>4, AppendProperties
<1>4. Len(text) \in T
  <2> HIDE DEF T
  <2> QED BY <1>0, <1>2, <1>3, SetInduction
<1>5. Same(Len(text))
  BY <1>0, <1>4
<1> QED BY <1>0, <1>1, <1>5, SeqEqual

LEMMA Truncated ==
  ASSUME NEW S, More \in S, NEW text \in Seq(S)
  PROVE  /\ truncate(text) \in Seq(S)
         /\ Len(truncate(text)) <= MaxStr + 1
         /\ Len(text) <= MaxStr => truncate(text) = text
<1>1. CASE Len(text) <= MaxStr
  BY <1>1 DEF truncate
<1>2. CASE Len(text) > MaxStr
  <2> DEFINE cut == SubSeq(text, 1, MaxStr)
  <2>1. cut \in Seq(S) /\ Len(cut) = MaxStr
    BY <1>2, SubSeqProperties
  <2>2. truncate(text) = Append(cut, More)
    BY <1>2 DEF truncate
  <2> HIDE DEF cut
  <2> QED BY <1>2, <2>1, <2>2, AppendProperties
<1> QED BY <1>1, <1>2

(* A scrubbed text is bounded; it is clean if credentials came whole; and  *)
(* it is unchanged if it was clean and short.                              *)
LEMMA ScrubText ==
  ASSUME NEW text \in Seq(Pieces)
  PROVE  /\ scrub_text(text) \in ShortTexts(1)
         /\ text \in WholeTexts => scrub_text(text) \in CleanTexts
         /\ text \in CleanTexts /\ text \in ShortTexts(0) => scrub_text(text) = text
<1>1. scrub_text(text) = truncate(scrub(text))
  BY DEF scrub_text
<1>2. scrub_text(text) \in ShortTexts(1)
  <2>1. scrub(text) \in Seq(Pieces) /\ More \in Pieces
    BY ScrubPieces, Messages
  <2>2. truncate(scrub(text)) \in Seq(Pieces) /\ Len(truncate(scrub(text))) <= MaxStr + 1
    BY <2>1, Truncated
  <2> QED BY <1>1, <2>2 DEF ShortTexts
<1>3. ASSUME text \in WholeTexts PROVE scrub_text(text) \in CleanTexts
  <2>1. scrub(text) \in Seq(Pieces \ {"cre", "dential"})
    BY <1>3, ScrubWhole DEF CleanTexts
  <2> QED BY <1>1, <2>1, Messages, Truncated DEF CleanTexts
<1>4. ASSUME text \in CleanTexts, text \in ShortTexts(0) PROVE scrub_text(text) = text
  <2>1. scrub(text) = text /\ Len(text) <= MaxStr
    BY <1>4, ScrubClean DEF ShortTexts
  <2> QED BY <1>1, <2>1, Messages, Truncated
<1> QED BY <1>2, <1>3, <1>4

-----------------------------------------------------------------------------
(* redact_list and redact_dict.                                            *)

(* The first MaxItems items are kept, redacted, and a message after them   *)
(* says that there were more.                                              *)
LEMMA RedactList ==
  ASSUME NEW S, NEW items \in Seq(S), NEW inner, NEW R,
         \A i \in 1 .. Len(items) : i <= MaxItems => inner[items[i]] \in R,
         Len(items) > MaxItems => Str(<<More>>) \in R
  PROVE  LET r == redact_list(items, inner)
         IN  /\ r \in Seq(R)
             /\ Len(r) = IF Len(items) > MaxItems THEN MaxItems + 1 ELSE Len(items)
             /\ \A i \in 1 .. Len(items) : i <= MaxItems => r[i] = inner[items[i]]
<1> DEFINE kept == [i \in DOMAIN Kept(items) |-> inner[items[i]]]
           n == IF Len(items) > MaxItems THEN MaxItems ELSE Len(items)
<1>1. Len(items) \in Nat /\ n \in Nat
  OBVIOUS
<1>2. DOMAIN Kept(items) = 1 .. n
  BY SubSeqProperties DEF Kept
<1>3. kept \in Seq(R) /\ Len(kept) = n /\ \A i \in 1 .. n : kept[i] = inner[items[i]]
  <2>1. kept = [i \in 1 .. n |-> inner[items[i]]]
    BY <1>2
  <2>2. \A i \in 1 .. n : inner[items[i]] \in R
    BY <1>1
  <2> HIDE DEF kept, n
  <2>3. kept \in [1 .. n -> R]
    BY <2>1, <2>2
  <2>4. kept \in Seq(R) /\ Len(kept) = n
    BY <1>1, <2>3, SeqDef, LenProperties
  <2> QED BY <2>1, <2>4
<1>4. redact_list(items, inner) = IF Len(items) > MaxItems THEN Append(kept, Str(<<More>>)) ELSE kept
  BY DEF redact_list
<1>5. \A i \in 1 .. Len(items) : i <= MaxItems => i \in 1 .. n
  BY <1>1
<1> HIDE DEF kept
<1>6. CASE Len(items) > MaxItems
  <2>1. n = MaxItems /\ redact_list(items, inner) = Append(kept, Str(<<More>>))
    BY <1>4, <1>6
  <2> HIDE DEF n
  <2> QED BY <1>3, <1>5, <1>6, <2>1, AppendProperties
<1>7. CASE ~(Len(items) > MaxItems)
  <2>1. n = Len(items) /\ redact_list(items, inner) = kept
    BY <1>4, <1>7
  <2> HIDE DEF n
  <2> QED BY <1>3, <1>5, <1>7, <2>1
<1> QED BY <1>6, <1>7

(* What becomes of one entry of a dict.                                    *)
Entry(e, inner) ==
  <<e[1], IF is_secret_key(e[1]) THEN Str(<<REDACTED>>) ELSE inner[e[2]]>>

LEMMA RedactDict ==
  ASSUME NEW S, NEW entries \in Seq(S), NEW inner, NEW R,
         \A i \in 1 .. Len(entries) : i <= MaxItems => Entry(entries[i], inner) \in R,
         Len(entries) > MaxItems => <<<<More>>, Str(<<More>>)>> \in R
  PROVE  LET r == redact_dict(entries, inner)
         IN  /\ r \in Seq(R)
             /\ Len(r) = IF Len(entries) > MaxItems THEN MaxItems + 1 ELSE Len(entries)
             /\ \A i \in 1 .. Len(entries) : i <= MaxItems => r[i] = Entry(entries[i], inner)
<1> DEFINE kept == [i \in DOMAIN Kept(entries) |-> Entry(entries[i], inner)]
           n == IF Len(entries) > MaxItems THEN MaxItems ELSE Len(entries)
           message == <<<<More>>, Str(<<More>>)>>
<1>1. Len(entries) \in Nat /\ n \in Nat
  OBVIOUS
<1>2. DOMAIN Kept(entries) = 1 .. n
  BY SubSeqProperties DEF Kept
<1>4. redact_dict(entries, inner) = IF Len(entries) > MaxItems THEN Append(kept, message) ELSE kept
  BY DEF redact_dict, Entry
<1>3. kept \in Seq(R) /\ Len(kept) = n /\ \A i \in 1 .. n : kept[i] = Entry(entries[i], inner)
  <2>1. kept = [i \in 1 .. n |-> Entry(entries[i], inner)]
    BY <1>2
  <2>2. \A i \in 1 .. n : Entry(entries[i], inner) \in R
    BY <1>1
  <2> HIDE DEF kept, n
  <2>3. kept \in [1 .. n -> R]
    BY <2>1, <2>2
  <2>4. kept \in Seq(R) /\ Len(kept) = n
    BY <1>1, <2>3, SeqDef, LenProperties
  <2> QED BY <2>1, <2>4
<1>5. \A i \in 1 .. Len(entries) : i <= MaxItems => i \in 1 .. n
  BY <1>1
<1> HIDE DEF kept, message
<1>6. CASE Len(entries) > MaxItems
  <2>1. n = MaxItems /\ redact_dict(entries, inner) = Append(kept, message) /\ message \in R
    BY <1>4, <1>6 DEF message
  <2> HIDE DEF n
  <2> QED BY <1>3, <1>5, <1>6, <2>1, AppendProperties
<1>7. CASE ~(Len(entries) > MaxItems)
  <2>1. n = Len(entries) /\ redact_dict(entries, inner) = kept
    BY <1>4, <1>7
  <2> HIDE DEF n
  <2> QED BY <1>3, <1>5, <1>7, <2>1
<1> QED BY <1>6, <1>7

-----------------------------------------------------------------------------
(* What redact makes of a value.                                           *)

LEMMA WalkCases ==
  /\ \A inner : walk(Atom, inner) = Atom
  /\ \A inner, t : walk(Str(t), inner) = Str(scrub_text(t))
  /\ \A inner, s : walk(Dict(s), inner) = Dict(redact_dict(s, inner))
  /\ \A inner, s : walk(List(s), inner) = List(redact_list(s, inner))
BY Kinds DEF walk

LEMMA EntryIn ==
  ASSUME NEW e, NEW inner, NEW hidden, NEW parts, e[1] \in Names,
         hidden \subseteq SecretNames \ SafeNames,
         Str(<<REDACTED>>) \in parts, inner[e[2]] \in parts
  PROVE  Entry(e, inner) \in Entries(hidden, parts)
BY DEF Entry, Entries, is_secret_key

(* redact turns values whose texts are in t1 into values whose texts are   *)
(* in t2, of no more levels than they had or than are left to it, no wider *)
(* than the bound and one, and with nothing under the names of secrets.    *)
LEMMA RedactMade ==
  ASSUME NEW t1, NEW t2, NEW widths, NEW hidden,
         t1 \subseteq Seq(Pieces), \A t \in t1 : scrub_text(t) \in t2,
         <<Deeper>> \in t2, <<More>> \in t2, <<REDACTED>> \in t2,
         0 .. MaxItems + 1 \subseteq widths,
         hidden \subseteq SecretNames \ SafeNames
  PROVE  \A d \in 0 .. MaxDepth : \A n, m \in 1 .. MaxNesting :
           m >= n \/ m >= MaxDepth - d + 1 =>
             \A v \in Made(t1, Nat, {}, n) : redact_at[d][v] \in Made(t2, widths, hidden, m)
<1> DEFINE A(n) == Made(t1, Nat, {}, n)
           B(m) == Made(t2, widths, hidden, m)
           Enough(d, n, m) == m >= n \/ m >= MaxDepth - d + 1
           T == {d \in Nat : \A n, m \in 1 .. MaxNesting :
                   Enough(d, n, m) => \A v \in A(n) : redact_at[d][v] \in B(m)}
<1>1. \A n \in 1 .. MaxNesting : A(n) \subseteq Value
  BY MadeGrows DEF Value
<1>2. \A m \in 1 .. MaxNesting : \A t \in t2 : Str(t) \in B(m)
  BY MadeMembers
<1>3. MaxDepth \in T
  BY <1>1, <1>2, RedactDef
<1>4. ASSUME NEW d \in Nat, d < MaxDepth, d + 1 \in T PROVE d \in T
  <2> SUFFICES ASSUME NEW n \in 1 .. MaxNesting, NEW m \in 1 .. MaxNesting, Enough(d, n, m),
                      NEW v \in A(n)
               PROVE  redact_at[d][v] \in B(m)
    OBVIOUS
  <2> DEFINE inner == redact_at[d + 1]
  <2>1. redact_at[d][v] = walk(v, inner)
    BY <1>1, <1>4, RedactDef
  <2>2. ASSUME NEW x \in A(n - 1)
        PROVE  inner[x] \in B(m - 1) /\ \A t \in t2 : Str(t) \in B(m - 1)
    <3>1. n - 1 # 0
      BY MadeDef
    <3>2. n - 1 \in 1 .. MaxNesting /\ m - 1 \in 1 .. MaxNesting /\ Enough(d + 1, n - 1, m - 1)
      BY <1>4, <3>1
    <3> HIDE DEF A, B, Enough
    <3> QED BY <1>2, <1>4, <3>2
  <2> HIDE DEF T, inner
  <2>3. /\ Atom \in B(m)
        /\ \A s \in Seq(Entries(hidden, B(m - 1))) : Len(s) \in widths => Dict(s) \in B(m)
        /\ \A s \in Seq(B(m - 1)) : Len(s) \in widths => List(s) \in B(m)
    BY MadeMembers
  <2>4. \/ v = Atom
        \/ \E t \in t1 : v = Str(t)
        \/ \E s \in Seq(Entries({}, A(n - 1))) : v = Dict(s)
        \/ \E s \in Seq(A(n - 1)) : v = List(s)
    <3>1. n \in 0 .. MaxNesting
      OBVIOUS
    <3> QED BY <3>1, MadeCases
  <2> HIDE DEF A, B, Enough
  <2>5. CASE v = Atom
    BY <2>1, <2>3, <2>5, WalkCases
  <2>6. ASSUME NEW t \in t1, v = Str(t) PROVE redact_at[d][v] \in B(m)
    BY <1>2, <2>1, <2>6, WalkCases
  <2>7. ASSUME NEW s \in Seq(Entries({}, A(n - 1))), v = Dict(s) PROVE redact_at[d][v] \in B(m)
    <3> DEFINE r == redact_dict(s, inner)
    <3>1. \A i \in 1 .. Len(s) : s[i] \in Entries({}, A(n - 1))
      OBVIOUS
    <3>2. ASSUME NEW i \in 1 .. Len(s)
          PROVE  Entry(s[i], inner) \in Entries(hidden, B(m - 1))
      <4>1. s[i][1] \in Names /\ s[i][2] \in A(n - 1)
        BY <3>1 DEF Entries
      <4>2. inner[s[i][2]] \in B(m - 1) /\ Str(<<REDACTED>>) \in B(m - 1)
        BY <2>2, <4>1
      <4> QED BY <4>1, <4>2, EntryIn
    <3>3. ASSUME Len(s) > MaxItems
          PROVE  <<<<More>>, Str(<<More>>)>> \in Entries(hidden, B(m - 1))
      <4>1. 1 \in 1 .. Len(s)
        BY <3>3
      <4>2. s[1][2] \in A(n - 1)
        BY <3>1, <4>1 DEF Entries
      <4>3. Str(<<More>>) \in B(m - 1)
        BY <2>2, <4>2
      <4>4. <<More>> \in Names
        BY DEF Names, Pieces
      <4> QED BY <4>3, <4>4, NamesAssumption DEF Entries
    <3>4. /\ r \in Seq(Entries(hidden, B(m - 1)))
          /\ Len(r) = IF Len(s) > MaxItems THEN MaxItems + 1 ELSE Len(s)
      BY <3>2, <3>3, RedactDict
    <3>5. Len(r) \in widths
      BY <3>4
    <3> QED BY <2>1, <2>3, <2>7, <3>4, <3>5, WalkCases
  <2>8. ASSUME NEW s \in Seq(A(n - 1)), v = List(s) PROVE redact_at[d][v] \in B(m)
    <3> DEFINE r == redact_list(s, inner)
    <3>1. \A i \in 1 .. Len(s) : s[i] \in A(n - 1)
      OBVIOUS
    <3>2. \A i \in 1 .. Len(s) : inner[s[i]] \in B(m - 1)
      BY <2>2, <3>1
    <3>3. ASSUME Len(s) > MaxItems PROVE Str(<<More>>) \in B(m - 1)
      <4>1. 1 \in 1 .. Len(s)
        BY <3>3
      <4> QED BY <2>2, <3>1, <4>1
    <3>4. /\ r \in Seq(B(m - 1))
          /\ Len(r) = IF Len(s) > MaxItems THEN MaxItems + 1 ELSE Len(s)
      BY <3>2, <3>3, RedactList
    <3>5. Len(r) \in widths
      BY <3>4
    <3> QED BY <2>1, <2>3, <2>8, <3>4, <3>5, WalkCases
  <2> QED BY <2>4, <2>5, <2>6, <2>7, <2>8
<1>5. \A d \in 0 .. MaxDepth : d \in T
  <2> HIDE DEF T
  <2> QED BY <1>3, <1>4, Downwards
<1> QED BY <1>5

Hidden == SecretNames \ SafeNames

CleanMade(n) == Made(CleanTexts, Nat, Hidden, n)
ShortMade(k) == Made(ShortTexts(0), 0 .. MaxItems + 0, {}, k)

LEMMA CleanIsValue ==
  /\ CleanTexts \subseteq Seq(Pieces)
  /\ WholeTexts \subseteq Seq(Pieces)
  /\ CleanTexts \subseteq WholeTexts
  /\ \A n \in 0 .. MaxNesting : CleanMade(n) \subseteq Value
  /\ \A n \in 0 .. MaxNesting : Made(WholeTexts, Nat, {}, n) \subseteq Value
<1>1. CleanTexts \subseteq Seq(Pieces) /\ WholeTexts \subseteq Seq(Pieces)
  BY DEF CleanTexts, WholeTexts
<1>2. CleanTexts \subseteq WholeTexts
  BY <1>1 DEF CleanTexts, WholeTexts
<1>3. \A n \in 0 .. MaxNesting : CleanMade(n) \subseteq Value
  BY <1>1, MadeGrows DEF CleanMade, Value
<1>4. \A n \in 0 .. MaxNesting : Made(WholeTexts, Nat, {}, n) \subseteq Value
  BY <1>1, MadeGrows DEF Value
<1> QED BY <1>1, <1>2, <1>3, <1>4

(* What is clean and within the bounds is left as it is.                   *)
LEMMA RedactKeeps ==
  \A d \in 0 .. MaxDepth : \A n \in 0 .. MaxNesting : \A k \in 0 .. MaxDepth - d :
    \A v \in CleanMade(n) : v \in ShortMade(k) => redact_at[d][v] = v
<1> DEFINE T == {d \in Nat : \A n \in 0 .. MaxNesting : \A k \in 0 .. MaxDepth - d :
                   \A v \in CleanMade(n) : v \in ShortMade(k) => redact_at[d][v] = v}
<1>1. MaxDepth \in T
  <2>1. \A k \in 0 .. MaxDepth - MaxDepth : k = 0
    OBVIOUS
  <2>2. ShortMade(0) = {}
    BY MadeDef DEF ShortMade
  <2> QED BY <2>1, <2>2
<1>2. ASSUME NEW d \in Nat, d < MaxDepth, d + 1 \in T PROVE d \in T
  <2> SUFFICES ASSUME NEW n \in 0 .. MaxNesting, NEW k \in 0 .. MaxDepth - d,
                      NEW v \in CleanMade(n), v \in ShortMade(k)
               PROVE  redact_at[d][v] = v
    OBVIOUS
  <2> DEFINE inner == redact_at[d + 1]
  <2>1. v \in Value /\ redact_at[d][v] = walk(v, inner)
    BY <1>2, CleanIsValue, RedactDef
  <2>2. /\ n - 1 \in 0 .. MaxNesting
        /\ \/ v = Atom
           \/ \E t \in CleanTexts : v = Str(t)
           \/ \E s \in Seq(Entries(Hidden, CleanMade(n - 1))) : v = Dict(s)
           \/ \E s \in Seq(CleanMade(n - 1)) : v = List(s)
    BY MadeCases DEF CleanMade
  <2>3. /\ k - 1 \in 0 .. MaxNesting
        /\ \/ v = Atom
           \/ \E t \in ShortTexts(0) : v = Str(t)
           \/ \E s \in Seq(Entries({}, ShortMade(k - 1))) : Len(s) \in 0 .. MaxItems + 0 /\ v = Dict(s)
           \/ \E s \in Seq(ShortMade(k - 1)) : Len(s) \in 0 .. MaxItems + 0 /\ v = List(s)
    <3>1. k \in 0 .. MaxNesting
      BY <1>2
    <3> QED BY <3>1, MadeCases DEF ShortMade
  <2>4. ASSUME NEW x \in CleanMade(n - 1), x \in ShortMade(k - 1) PROVE inner[x] = x
    <3>1. k - 1 \in 0 .. MaxDepth - (d + 1)
      BY <1>2, <2>3
    <3> QED BY <1>2, <2>2, <2>4, <3>1
  <2> HIDE DEF T, inner
  <2>5. CASE v = Atom
    BY <2>1, <2>5, WalkCases
  <2>6. ASSUME NEW t \in CleanTexts, v = Str(t) PROVE redact_at[d][v] = v
    <3>1. t \in ShortTexts(0)
      BY <2>3, <2>6, Kinds
    <3>2. t \in Seq(Pieces) /\ scrub_text(t) = t
      BY <3>1, CleanIsValue, ScrubText
    <3> QED BY <2>1, <2>6, <3>2, WalkCases
  <2>7. ASSUME NEW s \in Seq(Entries(Hidden, CleanMade(n - 1))), v = Dict(s)
        PROVE  redact_at[d][v] = v
    <3> DEFINE R == Entries(Hidden, CleanMade(n - 1))
    <3>1. s \in Seq(Entries({}, ShortMade(k - 1))) /\ Len(s) <= MaxItems
      BY <2>3, <2>7, Kinds
    <3>2. ASSUME NEW i \in 1 .. Len(s) PROVE Entry(s[i], inner) = s[i] /\ s[i] \in R
      <4>1. s[i] \in R /\ s[i] \in Entries({}, ShortMade(k - 1))
        BY <3>1
      <4>2. s[i][2] \in CleanMade(n - 1) /\ s[i][2] \in ShortMade(k - 1)
        BY <4>1 DEF Entries
      <4>3. inner[s[i][2]] = s[i][2]
        BY <2>4, <4>2
      <4>4. is_secret_key(s[i][1]) => s[i][2] = Str(<<REDACTED>>)
        BY <4>1 DEF Entries, is_secret_key, Hidden
      <4>5. s[i] = <<s[i][1], s[i][2]>>
        BY <4>1 DEF Entries
      <4> HIDE DEF R
      <4> QED BY <4>1, <4>3, <4>4, <4>5 DEF Entry
    <3> HIDE DEF R
    <3>3. Len(s) \in Nat /\ ~(Len(s) > MaxItems) /\ s \in Seq(R)
      BY <3>1 DEF R
    <3>4. /\ redact_dict(s, inner) \in Seq(R)
          /\ Len(redact_dict(s, inner)) = Len(s)
          /\ \A i \in 1 .. Len(s) : i <= MaxItems => redact_dict(s, inner)[i] = Entry(s[i], inner)
      BY <3>2, <3>3, RedactDict
    <3>5. \A i \in 1 .. Len(s) : redact_dict(s, inner)[i] = s[i]
      BY <3>2, <3>3, <3>4
    <3>6. redact_dict(s, inner) = s
      BY <3>3, <3>4, <3>5, SeqEqual
    <3> QED BY <2>1, <2>7, <3>6, WalkCases
  <2>8. ASSUME NEW s \in Seq(CleanMade(n - 1)), v = List(s) PROVE redact_at[d][v] = v
    <3> DEFINE R == CleanMade(n - 1)
    <3>1. s \in Seq(ShortMade(k - 1)) /\ Len(s) <= MaxItems
      BY <2>3, <2>8, Kinds
    <3>2. ASSUME NEW i \in 1 .. Len(s) PROVE inner[s[i]] = s[i] /\ s[i] \in R
      <4>1. s[i] \in R /\ s[i] \in ShortMade(k - 1)
        BY <3>1
      <4> QED BY <2>4, <4>1
    <3> HIDE DEF R
    <3>3. Len(s) \in Nat /\ ~(Len(s) > MaxItems) /\ s \in Seq(R)
      BY <3>1 DEF R
    <3>4. /\ redact_list(s, inner) \in Seq(R)
          /\ Len(redact_list(s, inner)) = Len(s)
          /\ \A i \in 1 .. Len(s) : i <= MaxItems => redact_list(s, inner)[i] = inner[s[i]]
      BY <3>2, <3>3, RedactList
    <3>5. \A i \in 1 .. Len(s) : redact_list(s, inner)[i] = s[i]
      BY <3>2, <3>3, <3>4
    <3>6. redact_list(s, inner) = s
      BY <3>3, <3>4, <3>5, SeqEqual
    <3> QED BY <2>1, <2>8, <3>6, WalkCases
  <2> QED BY <2>2, <2>5, <2>6, <2>7, <2>8
<1>3. \A d \in 0 .. MaxDepth : d \in T
  <2> HIDE DEF T
  <2> QED BY <1>1, <1>2, Downwards
<1> QED BY <1>3

-----------------------------------------------------------------------------
(* What is harmless is shown, by one redaction and by two.                 *)

LEMMA ValueParts ==
  ASSUME NEW v \in Value
  PROVE  \/ v = Atom
         \/ \E t \in Seq(Pieces) : v = Str(t)
         \/ \E s \in Seq(Names \X Value) : v = Dict(s)
         \/ \E s \in Seq(Value) : v = List(s)
<1> DEFINE P == Made(Seq(Pieces), Nat, {}, MaxNesting - 1)
<1>1. /\ MaxNesting - 1 \in 0 .. MaxNesting
      /\ \/ v = Atom
         \/ \E t \in Seq(Pieces) : v = Str(t)
         \/ \E s \in Seq(Entries({}, P)) : v = Dict(s)
         \/ \E s \in Seq(P) : v = List(s)
  <2>1. MaxNesting \in 0 .. MaxNesting
    OBVIOUS
  <2> QED BY <2>1, MadeCases DEF Value
<1>2. P \subseteq Value
  <2>1. MaxNesting \in MaxNesting - 1 .. MaxNesting
    OBVIOUS
  <2> QED BY <1>1, <2>1, MadeGrows DEF Value
<1> HIDE DEF P
<1>3. Entries({}, P) \subseteq Names \X Value
  BY <1>2 DEF Entries
<1>4. Seq(P) \subseteq Seq(Value) /\ Seq(Entries({}, P)) \subseteq Seq(Names \X Value)
  BY <1>2, <1>3, LargerSeq
<1> QED BY <1>1, <1>4

LEMMA RedactIsValue ==
  \A d \in 0 .. MaxDepth : \A v \in Value : redact_at[d][v] \in Value
<1>1. \A t \in Seq(Pieces) : scrub_text(t) \in Seq(Pieces)
  BY ScrubText DEF ShortTexts
<1>2. <<Deeper>> \in Seq(Pieces) /\ <<More>> \in Seq(Pieces) /\ <<REDACTED>> \in Seq(Pieces)
  BY Messages
<1>3. MaxNesting \in 1 .. MaxNesting
  OBVIOUS
<1>4. \A d \in 0 .. MaxDepth : \A n, m \in 1 .. MaxNesting :
        m >= n \/ m >= MaxDepth - d + 1 =>
          \A v \in Made(Seq(Pieces), Nat, {}, n) :
            redact_at[d][v] \in Made(Seq(Pieces), Nat, {}, m)
  <2>1. 0 .. MaxItems + 1 \subseteq Nat /\ {} \subseteq SecretNames \ SafeNames
    OBVIOUS
  <2> QED BY <1>1, <1>2, <2>1, RedactMade
<1> QED BY <1>3, <1>4 DEF Value

(* What is kept of a dict and of a list, wherever its parts come from.     *)
LEMMA DictKept ==
  ASSUME NEW S, NEW s \in Seq(S), NEW inner
  PROVE  LET r == redact_dict(s, inner)
         IN  /\ \E R : r \in Seq(R)
             /\ \A i \in 1 .. Len(s) : i <= MaxItems =>
                  i \in 1 .. Len(r) /\ i \in DOMAIN r /\ r[i] = Entry(s[i], inner)
<1> DEFINE R == {Entry(s[i], inner) : i \in 1 .. Len(s)} \cup {<<<<More>>, Str(<<More>>)>>}
           r == redact_dict(s, inner)
<1>1. \A i \in 1 .. Len(s) : Entry(s[i], inner) \in R
  OBVIOUS
<1>2. <<<<More>>, Str(<<More>>)>> \in R
  OBVIOUS
<1> HIDE DEF R
<1>3. /\ r \in Seq(R)
      /\ Len(r) = IF Len(s) > MaxItems THEN MaxItems + 1 ELSE Len(s)
      /\ \A i \in 1 .. Len(s) : i <= MaxItems => r[i] = Entry(s[i], inner)
  BY <1>1, <1>2, RedactDict
<1> HIDE DEF r
<1>4. Len(s) \in Nat /\ DOMAIN r = 1 .. Len(r)
  BY <1>3
<1> QED BY <1>3, <1>4 DEF r

LEMMA ListKept ==
  ASSUME NEW S, NEW s \in Seq(S), NEW inner
  PROVE  LET r == redact_list(s, inner)
         IN  /\ \E R : r \in Seq(R)
             /\ \A i \in 1 .. Len(s) : i <= MaxItems =>
                  i \in 1 .. Len(r) /\ i \in DOMAIN r /\ r[i] = inner[s[i]]
<1> DEFINE R == {inner[s[i]] : i \in 1 .. Len(s)} \cup {Str(<<More>>)}
           r == redact_list(s, inner)
<1>1. \A i \in 1 .. Len(s) : inner[s[i]] \in R
  OBVIOUS
<1>2. Str(<<More>>) \in R
  OBVIOUS
<1> HIDE DEF R
<1>3. /\ r \in Seq(R)
      /\ Len(r) = IF Len(s) > MaxItems THEN MaxItems + 1 ELSE Len(s)
      /\ \A i \in 1 .. Len(s) : i <= MaxItems => r[i] = inner[s[i]]
  BY <1>1, <1>2, RedactList
<1> HIDE DEF r
<1>4. Len(s) \in Nat /\ DOMAIN r = 1 .. Len(r)
  BY <1>3
<1> QED BY <1>3, <1>4 DEF r

(* Nothing fits into no levels.                                            *)
LEMMA NothingToShow ==
  ASSUME NEW w \in Value, NEW v \in Value
  PROVE  <<w, v>> \in Shown[0]
<1>1. ~Fits(v, 0, 0)
  BY MadeDef DEF Fits
<1>2. Shows(w, v, 0, Shown[0 - 1])
  BY <1>1 DEF Shows
<1> QED BY <1>2, ShownDef

LEMMA KeepsFitting ==
  ASSUME NEW d \in 0 .. MaxDepth, NEW levels \in 0 .. MaxDepth - d, NEW v,
         Clean(v), Fits(v, levels, 0)
  PROVE  redact_at[d][v] = v
<1>1. v \in CleanMade(MaxNesting) /\ v \in ShortMade(levels)
  BY DEF Clean, Fits, CleanMade, ShortMade, Hidden
<1>2. MaxNesting \in 0 .. MaxNesting
  OBVIOUS
<1> QED BY <1>1, <1>2, RedactKeeps

LEMMA ShownOnce ==
  \A d \in 0 .. MaxDepth : \A v \in Value : <<redact_at[d][v], v>> \in Shown[MaxDepth - d]
<1> DEFINE T == {d \in 0 .. MaxDepth : \A v \in Value : <<redact_at[d][v], v>> \in Shown[MaxDepth - d]}
<1>1. MaxDepth \in T
  <2>1. MaxDepth - MaxDepth = 0 /\ MaxDepth \in 0 .. MaxDepth
    OBVIOUS
  <2> QED BY <2>1, NothingToShow, RedactIsValue
<1>2. ASSUME NEW d \in Nat, d < MaxDepth, d + 1 \in T PROVE d \in T
  <2> SUFFICES ASSUME NEW v \in Value PROVE <<redact_at[d][v], v>> \in Shown[MaxDepth - d]
    BY <1>2
  <2> DEFINE w == redact_at[d][v]
             inner == redact_at[d + 1]
             levels == MaxDepth - d
             below == Shown[levels - 1]
  <2>1. levels \in 0 .. MaxDepth /\ levels - 1 = MaxDepth - (d + 1) /\ d \in 0 .. MaxDepth
    BY <1>2
  <2>2. w = walk(v, inner) /\ w \in Value
    BY <1>2, RedactDef, RedactIsValue
  <2>3. \A x \in Value : <<inner[x], x>> \in below
    BY <1>2, <2>1
  <2>4. Clean(v) /\ Fits(v, levels, 0) => w = v
    BY <2>1, KeepsFitting
  <2> HIDE DEF T, inner, w, below, levels
  <2>5. ASSUME v.kind = "dict"
        PROVE  /\ w.kind = "dict"
               /\ \A i \in {j \in DOMAIN v.entries : j <= MaxItems} :
                    /\ i \in DOMAIN w.entries
                    /\ w.entries[i][1] = v.entries[i][1]
                    /\ ~Secret(v.entries[i][1]) => <<w.entries[i][2], v.entries[i][2]>> \in below
    <3>1. PICK s \in Seq(Names \X Value) : v = Dict(s)
      BY <2>5, ValueParts, Kinds
    <3> DEFINE r == redact_dict(s, inner)
    <3>2. w = Dict(r)
      BY <2>2, <3>1, WalkCases
    <3>3. \A i \in 1 .. Len(s) : i <= MaxItems => i \in DOMAIN r /\ r[i] = Entry(s[i], inner)
      BY DictKept
    <3> HIDE DEF r
    <3>4. v.entries = s /\ w.entries = r /\ w.kind = "dict" /\ DOMAIN s = 1 .. Len(s)
      BY <3>1, <3>2, Kinds
    <3>5. ASSUME NEW i \in 1 .. Len(s), i <= MaxItems
          PROVE  /\ i \in DOMAIN r
                 /\ r[i][1] = s[i][1]
                 /\ ~Secret(s[i][1]) => <<r[i][2], s[i][2]>> \in below
      <4>1. s[i] \in Names \X Value
        OBVIOUS
      <4> QED BY <2>3, <3>3, <3>5, <4>1 DEF Entry, Secret, is_secret_key
    <3> QED BY <3>4, <3>5
  <2>6. ASSUME v.kind = "list"
        PROVE  /\ w.kind = "list"
               /\ \A i \in {j \in DOMAIN v.items : j <= MaxItems} :
                    i \in DOMAIN w.items /\ <<w.items[i], v.items[i]>> \in below
    <3>1. PICK s \in Seq(Value) : v = List(s)
      BY <2>6, ValueParts, Kinds
    <3> DEFINE r == redact_list(s, inner)
    <3>2. w = List(r)
      BY <2>2, <3>1, WalkCases
    <3>3. \A i \in 1 .. Len(s) : i <= MaxItems => i \in DOMAIN r /\ r[i] = inner[s[i]]
      BY ListKept
    <3> HIDE DEF r
    <3>4. v.items = s /\ w.items = r /\ w.kind = "list" /\ DOMAIN s = 1 .. Len(s)
      BY <3>1, <3>2, Kinds
    <3>5. \A i \in 1 .. Len(s) : i <= MaxItems => i \in DOMAIN r /\ <<r[i], s[i]>> \in below
      BY <2>3, <3>3
    <3> QED BY <3>4, <3>5
  <2>7. Shows(w, v, levels, below)
    BY <2>4, <2>5, <2>6 DEF Shows
  <2>8. <<w, v>> \in Shown[levels]
    BY <2>1, <2>2, <2>7, ShownDef DEF below
  <2> QED BY <2>8 DEF w, levels
<1>3. \A d \in 0 .. MaxDepth : d \in T
  <2> HIDE DEF T
  <2> QED BY <1>1, <1>2, Downwards
<1> QED BY <1>3

(* The second pass begins a level deeper: what it leaves out was out of    *)
(* the first one's reach but for one level.                                *)
LEMMA ShownTwice ==
  \A d \in 0 .. MaxDepth - 1 : \A v \in Value :
    <<redact_at[d + 1][redact_at[d][v]], v>> \in Shown[MaxDepth - (d + 1)]
<1> DEFINE T == {d \in 0 .. MaxDepth - 1 : \A v \in Value :
                   <<redact_at[d + 1][redact_at[d][v]], v>> \in Shown[MaxDepth - (d + 1)]}
<1>1. MaxDepth - 1 \in T
  <2>1. /\ MaxDepth - (MaxDepth - 1 + 1) = 0
        /\ MaxDepth - 1 \in 0 .. MaxDepth - 1
        /\ MaxDepth - 1 \in 0 .. MaxDepth
        /\ MaxDepth - 1 + 1 \in 0 .. MaxDepth
    OBVIOUS
  <2>2. \A v \in Value : redact_at[MaxDepth - 1 + 1][redact_at[MaxDepth - 1][v]] \in Value
    BY <2>1, RedactIsValue
  <2>3. \A v \in Value : <<redact_at[MaxDepth - 1 + 1][redact_at[MaxDepth - 1][v]], v>> \in Shown[0]
    BY <2>2, NothingToShow
  <2> QED BY <2>1, <2>3
<1>2. ASSUME NEW d \in Nat, d < MaxDepth - 1, d + 1 \in T PROVE d \in T
  <2> SUFFICES ASSUME NEW v \in Value
               PROVE  <<redact_at[d + 1][redact_at[d][v]], v>> \in Shown[MaxDepth - (d + 1)]
    BY <1>2
  <2> DEFINE inner == redact_at[d + 1]
             deeper == redact_at[d + 2]
             u == redact_at[d][v]
             w == inner[u]
             levels == MaxDepth - (d + 1)
             below == Shown[levels - 1]
  <2>1. /\ levels \in 0 .. MaxDepth
        /\ levels - 1 = MaxDepth - (d + 2)
        /\ d \in 0 .. MaxDepth - 1 /\ d + 1 \in 0 .. MaxDepth - 1
        /\ d \in 0 .. MaxDepth /\ d + 1 \in 0 .. MaxDepth
        /\ d + 1 + 1 = d + 2
        /\ levels \in 0 .. MaxDepth - d /\ levels \in 0 .. MaxDepth - (d + 1)
    BY <1>2
  <2>2. u \in Value /\ u = walk(v, inner)
    BY <2>1, RedactDef, RedactIsValue
  <2>3. w \in Value /\ w = walk(u, deeper)
    <3> HIDE DEF u
    <3> QED BY <2>1, <2>2, RedactDef, RedactIsValue
  <2>4. \A x \in Value : <<deeper[inner[x]], x>> \in below
    BY <1>2, <2>1
  <2>5. Clean(v) /\ Fits(v, levels, 0) => w = v
    BY <2>1, KeepsFitting
  <2> HIDE DEF T, inner, deeper, u, w, below, levels
  <2>6. ASSUME v.kind = "dict"
        PROVE  /\ w.kind = "dict"
               /\ \A i \in {j \in DOMAIN v.entries : j <= MaxItems} :
                    /\ i \in DOMAIN w.entries
                    /\ w.entries[i][1] = v.entries[i][1]
                    /\ ~Secret(v.entries[i][1]) => <<w.entries[i][2], v.entries[i][2]>> \in below
    <3>1. PICK s \in Seq(Names \X Value) : v = Dict(s)
      BY <2>6, ValueParts, Kinds
    <3> DEFINE q == redact_dict(s, inner)
               r == redact_dict(q, deeper)
    <3>2. u = Dict(q)
      BY <2>2, <3>1, WalkCases
    <3>3. /\ \E R : q \in Seq(R)
          /\ \A i \in 1 .. Len(s) : i <= MaxItems => i \in 1 .. Len(q) /\ q[i] = Entry(s[i], inner)
      BY DictKept
    <3>4. w = Dict(r)
      BY <2>3, <3>2, WalkCases
    <3> HIDE DEF q
    <3>5. \A i \in 1 .. Len(q) : i <= MaxItems => i \in DOMAIN r /\ r[i] = Entry(q[i], deeper)
      BY <3>3, DictKept
    <3> HIDE DEF r
    <3>6. v.entries = s /\ w.entries = r /\ w.kind = "dict" /\ DOMAIN s = 1 .. Len(s)
      BY <3>1, <3>4, Kinds
    <3>7. ASSUME NEW i \in 1 .. Len(s), i <= MaxItems
          PROVE  /\ i \in DOMAIN r
                 /\ r[i][1] = s[i][1]
                 /\ ~Secret(s[i][1]) => <<r[i][2], s[i][2]>> \in below
      <4>1. s[i] \in Names \X Value
        OBVIOUS
      <4>2. q[i] = Entry(s[i], inner) /\ r[i] = Entry(q[i], deeper) /\ i \in DOMAIN r
        BY <3>3, <3>5, <3>7
      <4>3. r[i][1] = s[i][1]
        BY <4>2 DEF Entry
      <4>4. ~Secret(s[i][1]) => r[i][2] = deeper[inner[s[i][2]]]
        BY <4>2 DEF Entry, Secret, is_secret_key
      <4> QED BY <2>4, <4>1, <4>2, <4>3, <4>4
    <3> QED BY <3>6, <3>7
  <2>7. ASSUME v.kind = "list"
        PROVE  /\ w.kind = "list"
               /\ \A i \in {j \in DOMAIN v.items : j <= MaxItems} :
                    i \in DOMAIN w.items /\ <<w.items[i], v.items[i]>> \in below
    <3>1. PICK s \in Seq(Value) : v = List(s)
      BY <2>7, ValueParts, Kinds
    <3> DEFINE q == redact_list(s, inner)
               r == redact_list(q, deeper)
    <3>2. u = List(q)
      BY <2>2, <3>1, WalkCases
    <3>3. /\ \E R : q \in Seq(R)
          /\ \A i \in 1 .. Len(s) : i <= MaxItems => i \in 1 .. Len(q) /\ q[i] = inner[s[i]]
      BY ListKept
    <3>4. w = List(r)
      BY <2>3, <3>2, WalkCases
    <3> HIDE DEF q
    <3>5. \A i \in 1 .. Len(q) : i <= MaxItems => i \in DOMAIN r /\ r[i] = deeper[q[i]]
      BY <3>3, ListKept
    <3> HIDE DEF r
    <3>6. v.items = s /\ w.items = r /\ w.kind = "list" /\ DOMAIN s = 1 .. Len(s)
      BY <3>1, <3>4, Kinds
    <3>7. \A i \in 1 .. Len(s) : i <= MaxItems => i \in DOMAIN r /\ r[i] = deeper[inner[s[i]]]
      BY <3>3, <3>5
    <3>8. \A i \in 1 .. Len(s) : i <= MaxItems => i \in DOMAIN r /\ <<r[i], s[i]>> \in below
      BY <2>4, <3>7
    <3> QED BY <3>6, <3>8
  <2>8. Shows(w, v, levels, below)
    BY <2>5, <2>6, <2>7 DEF Shows
  <2>9. <<w, v>> \in Shown[levels]
    BY <2>1, <2>3, <2>8, ShownDef DEF below
  <2> QED BY <2>9 DEF w, u, inner, levels
<1>3. \A d \in 0 .. MaxDepth - 1 : d \in T
  <2> HIDE DEF T
  <2>1. MaxDepth - 1 \in Nat
    OBVIOUS
  <2> QED BY <1>1, <1>2, <2>1, Downwards
<1> QED BY <1>3

-----------------------------------------------------------------------------
(* The logger.                                                             *)

(* What the field's value is at each stage.                                *)
IInv ==
  /\ payload \in Payloads
  /\ stage \in {"call", "redacted", "processed", "logged", "filtered"}
  /\ field # ExcInfo =>
       /\ stage = "call" => value = payload
       /\ stage = "redacted" => value = redact(payload)
       /\ stage \in {"processed", "logged"} /\ field \notin Skipped =>
            \E u \in {payload, redact(payload)} :
              value = IF is_secret_key(field) THEN Str(<<REDACTED>>) ELSE redact_at[1][u]

(* The one entry that the processor redacts.                               *)
LEMMA OneField ==
  ASSUME NEW f, NEW u, NEW inner
  PROVE  redact_dict(<<<<f, u>>>>, inner)[1][2]
           = IF is_secret_key(f) THEN Str(<<REDACTED>>) ELSE inner[u]
<1> DEFINE s == <<<<f, u>>>>
<1>1. s \in Seq({<<f, u>>}) /\ Len(s) = 1 /\ s[1] = <<f, u>> /\ 1 <= MaxItems
  OBVIOUS
<1> HIDE DEF s
<1>2. redact_dict(s, inner)[1] = Entry(s[1], inner)
  BY <1>1, DictKept
<1> QED BY <1>1, <1>2 DEF Entry, s

LEMMA InitIInv == Init => IInv
BY DEF Init, IInv

LEMMA NextIInv == IInv /\ [Next]_vars => IInv'
<1> SUFFICES ASSUME IInv, [Next]_vars PROVE IInv'
  OBVIOUS
<1>1. CASE CallSite
  BY <1>1 DEF CallSite, IInv
<1>2. CASE Filter
  BY <1>2 DEF Filter, IInv
<1>3. CASE redact_secrets
  <2>1. field \notin Skipped =>
          value' = IF is_secret_key(field) THEN Str(<<REDACTED>>) ELSE redact_at[1][value]
    BY <1>3, OneField DEF redact_secrets
  <2>2. field # ExcInfo => value \in {payload, redact(payload)}
    BY <1>3 DEF redact_secrets, IInv
  <2> QED BY <1>3, <2>1, <2>2 DEF redact_secrets, IInv
<1>4. CASE Render
  BY <1>4 DEF Render, IInv
<1>5. CASE UNCHANGED vars
  BY <1>5 DEF vars, IInv
<1> QED BY <1>1, <1>2, <1>3, <1>4, <1>5 DEF Next

LEMMA SpecIInv == Spec => []IInv
BY InitIInv, NextIInv, PTL DEF Spec

LEMMA PayloadIsWhole ==
  ASSUME IInv
  PROVE  /\ payload \in Made(WholeTexts, Nat, {}, MaxNesting)
         /\ payload \in Value
         /\ redact(payload) \in Value
         /\ redact(payload) = redact_at[0][payload]
<1>1. payload \in Made(WholeTexts, Nat, {}, MaxNesting)
  BY PayloadAssumption DEF IInv
<1>2. payload \in Value
  <2>1. MaxNesting \in 0 .. MaxNesting
    OBVIOUS
  <2> QED BY <1>1, <2>1, CleanIsValue
<1> QED BY <1>1, <1>2, RedactIsValue DEF redact

(* Redaction cleans, whatever the depth it begins at.                      *)
LEMMA RedactCleans ==
  \A d \in 0 .. MaxDepth : \A v \in Made(WholeTexts, Nat, {}, MaxNesting) :
    Clean(redact_at[d][v])
<1>1. \A t \in WholeTexts : scrub_text(t) \in CleanTexts
  BY CleanIsValue, ScrubText
<1>2. <<Deeper>> \in CleanTexts /\ <<More>> \in CleanTexts /\ <<REDACTED>> \in CleanTexts
  BY Messages DEF CleanTexts
<1>3. 0 .. MaxItems + 1 \subseteq Nat /\ MaxNesting \in 1 .. MaxNesting
  OBVIOUS
<1>4. \A d \in 0 .. MaxDepth : \A n, m \in 1 .. MaxNesting :
        m >= n \/ m >= MaxDepth - d + 1 =>
          \A v \in Made(WholeTexts, Nat, {}, n) :
            redact_at[d][v] \in Made(CleanTexts, Nat, SecretNames \ SafeNames, m)
  BY <1>1, <1>2, <1>3, CleanIsValue, RedactMade
<1>5. \A d \in 0 .. MaxDepth : \A v \in Made(WholeTexts, Nat, {}, MaxNesting) :
        redact_at[d][v] \in Made(CleanTexts, Nat, SecretNames \ SafeNames, MaxNesting)
  <2>1. MaxNesting >= MaxNesting
    OBVIOUS
  <2> TAKE d \in 0 .. MaxDepth
  <2>2. \A v \in Made(WholeTexts, Nat, {}, MaxNesting) :
          redact_at[d][v] \in Made(CleanTexts, Nat, SecretNames \ SafeNames, MaxNesting)
    BY <1>3, <1>4, <2>1
  <2> QED BY <2>2
<1> QED BY <1>5 DEF Clean

LEMMA CleanIsWhole ==
  ASSUME NEW v, Clean(v)
  PROVE  v \in Made(WholeTexts, Nat, {}, MaxNesting)
<1>1. MaxNesting \in 0 .. MaxNesting /\ MaxNesting \in MaxNesting .. MaxNesting
      /\ {} \subseteq SecretNames \ SafeNames
  OBVIOUS
<1>2. Made(CleanTexts, Nat, SecretNames \ SafeNames, MaxNesting)
        \subseteq Made(WholeTexts, Nat, {}, MaxNesting)
  BY <1>1, CleanIsValue, MadeGrows
<1> QED BY <1>2 DEF Clean

(* Whatever value is logged as a field, under whatever name and whether or *)
(* not its call site has redacted it: no string value in it, at any depth, *)
(* holds a credential or a part of one that a cut has left, and no value   *)
(* under the name of a secret is shown.  Keys, which may hold anything,    *)
(* are not values: of them nothing is said.                                *)
THEOREM NoSecretValueLogged == Spec => []NoSecretValue
<1>1. ASSUME IInv PROVE NoSecretValue
  <2> SUFFICES ASSUME Redacted
               PROVE  IF Secret(field) THEN value = Str(<<REDACTED>>) ELSE Clean(value)
    BY DEF NoSecretValue
  <2>1. PICK u \in {payload, redact(payload)} :
          value = IF is_secret_key(field) THEN Str(<<REDACTED>>) ELSE redact_at[1][u]
    BY <1>1 DEF IInv, Redacted
  <2>2. 0 \in 0 .. MaxDepth /\ 1 \in 0 .. MaxDepth
    OBVIOUS
  <2>3. Clean(redact(payload))
    BY <1>1, <2>2, PayloadIsWhole, RedactCleans
  <2>4. u \in Made(WholeTexts, Nat, {}, MaxNesting)
    BY <1>1, <2>3, CleanIsWhole, PayloadIsWhole
  <2>5. Clean(redact_at[1][u])
    BY <2>2, <2>4, RedactCleans
  <2> QED BY <2>1, <2>5 DEF Secret, is_secret_key
<1> QED BY <1>1, SpecIInv, PTL

(* A logged value has at most MaxDepth levels, and no string value, dict   *)
(* or list in it is longer than its bound and one message.  Of the length  *)
(* of keys nothing is said.                                                *)
THEOREM ValuesAreBounded == Spec => []ValuesBounded
<1>1. \A t \in Seq(Pieces) : scrub_text(t) \in ShortTexts(1)
  BY ScrubText
<1>2. <<Deeper>> \in ShortTexts(1) /\ <<More>> \in ShortTexts(1) /\ <<REDACTED>> \in ShortTexts(1)
  <2>1. \A p \in Pieces : <<p>> \in Seq(Pieces) /\ Len(<<p>>) = 1
    OBVIOUS
  <2> QED BY <2>1, Messages DEF ShortTexts
<1>3. /\ {} \subseteq SecretNames \ SafeNames
      /\ 1 \in 0 .. MaxDepth /\ MaxNesting \in 1 .. MaxNesting /\ MaxDepth \in 1 .. MaxNesting
      /\ MaxDepth >= MaxDepth - 1 + 1
  OBVIOUS
<1>4. \A d \in 0 .. MaxDepth : \A n, m \in 1 .. MaxNesting :
        m >= n \/ m >= MaxDepth - d + 1 =>
          \A v \in Made(Seq(Pieces), Nat, {}, n) :
            redact_at[d][v] \in Made(ShortTexts(1), 0 .. MaxItems + 1, {}, m)
  BY <1>1, <1>2, <1>3, RedactMade
<1>5. \A v \in Value : redact_at[1][v] \in Made(ShortTexts(1), 0 .. MaxItems + 1, {}, MaxDepth)
  BY <1>3, <1>4 DEF Value
<1>6. Str(<<REDACTED>>) \in Made(ShortTexts(1), 0 .. MaxItems + 1, {}, MaxDepth)
  BY <1>2, <1>3, MadeMembers
<1>7. ASSUME IInv PROVE ValuesBounded
  <2> SUFFICES ASSUME Redacted PROVE Fits(value, MaxDepth, 1)
    BY DEF ValuesBounded
  <2>1. PICK u \in {payload, redact(payload)} :
          value = IF is_secret_key(field) THEN Str(<<REDACTED>>) ELSE redact_at[1][u]
    BY <1>7 DEF IInv, Redacted
  <2>2. u \in Value
    BY <1>7, PayloadIsWhole
  <2> QED BY <1>5, <1>6, <2>1, <2>2 DEF Fits
<1> QED BY <1>7, SpecIInv, PTL

(* Every harmless part of a value that is within the bounds is logged as   *)
(* it was, also when it is redacted twice, next to secrets, or named like  *)
(* one that is not.                                                        *)
THEOREM HarmlessIsShown == Spec => []HarmlessShown
<1>1. ASSUME IInv PROVE HarmlessShown
  <2> SUFFICES ASSUME Redacted, ~Secret(field) PROVE <<value, payload>> \in Shown[MaxDepth - 1]
    BY DEF HarmlessShown
  <2>1. PICK u \in {payload, redact(payload)} : value = redact_at[1][u]
    BY <1>1 DEF IInv, Redacted, Secret, is_secret_key
  <2>2. 0 \in 0 .. MaxDepth - 1 /\ 0 + 1 = 1 /\ 1 \in 0 .. MaxDepth
    OBVIOUS
  <2>3. CASE u = payload
    BY <1>1, <2>1, <2>2, <2>3, PayloadIsWhole, ShownOnce
  <2>4. CASE u = redact(payload)
    <3>1. <<redact_at[0 + 1][redact_at[0][payload]], payload>> \in Shown[MaxDepth - (0 + 1)]
      BY <1>1, <2>2, PayloadIsWhole, ShownTwice
    <3> QED BY <1>1, <2>1, <2>2, <2>4, <3>1, PayloadIsWhole
  <2> QED BY <2>1, <2>3, <2>4
<1> QED BY <1>1, SpecIInv, PTL
=============================================================================
