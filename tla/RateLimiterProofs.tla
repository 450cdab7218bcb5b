-------------------------- MODULE RateLimiterProofs --------------------------
(***************************************************************************)
(* What RateLimiter.tla promises for every set of keys, every limit, every *)
(* window and every clock bound.                                           *)
(***************************************************************************)
EXTENDS RateLimiter, SequenceTheorems, FiniteSetTheorems, WellFoundedInduction, TLAPS

Times == 0 .. MaxTime

(* A nonempty set of naturals has a least element.                         *)
LEMMA LeastNumber ==
  ASSUME NEW T \in SUBSET Nat, T # {}
  PROVE  \E m \in T : \A j \in T : m <= j
<1> DEFINE R == {ss \in Nat \X Nat : ss[1] < ss[2]}
<1>1. R = OpToRel(<, Nat)
  BY DEF OpToRel
<1>2. IsWellFoundedOn(R, Nat)
  BY <1>1, NatLessThanWellFounded
<1>3. \A j, m \in Nat : j < m => <<j, m>> \in R
  OBVIOUS
<1> HIDE DEF R
<1>4. PICK m \in T : \A j \in T : ~ (<<j, m>> \in R)
  BY <1>2, WFMin
<1>5. \A j \in T : ~ (j < m)
  BY <1>3, <1>4
<1>6. \A j \in T : j \in Nat /\ m \in Nat
  BY <1>4
<1> QED BY <1>5, <1>6

(* The popleft loop always stops somewhere.                                *)
LEMMA FirstLiveExists ==
  ASSUME NEW ts \in Seq(Times), now \in Times
  PROVE  \E i \in 1 .. Len(ts) + 1 : FirstLive(ts, i)
<1> DEFINE T == {i \in 1 .. Len(ts) + 1 : i <= Len(ts) => ts[i] > now - Window}
<1>0. Len(ts) \in Nat /\ \A i \in 1 .. Len(ts) : ts[i] \in Nat
  <2>1. Len(ts) \in Nat /\ \A i \in 1 .. Len(ts) : ts[i] \in Times
    BY ElementOfSeq, LenProperties
  <2> QED BY <2>1 DEF Times
<1>1. Len(ts) + 1 \in T
  BY <1>0
<1>2. T \in SUBSET Nat
  BY <1>0
<1>3. PICK m \in T : \A j \in T : m <= j
  <2> HIDE DEF T
  <2> QED BY <1>1, <1>2, LeastNumber
<1>4. \A j \in 1 .. m - 1 : ts[j] <= now - Window
  <2> SUFFICES ASSUME NEW j \in 1 .. m - 1 PROVE ts[j] <= now - Window
    OBVIOUS
  <2>1. j \in 1 .. Len(ts) + 1 /\ j < m
    BY <1>0, <1>3
  <2>2. j \notin T
    BY <1>2, <1>3, <2>1
  <2> QED BY <1>0, <2>1, <2>2, WindowAssumption DEF Times
<1> QED BY <1>3, <1>4 DEF FirstLive

(* What pruning at i keeps.                                                *)
LEMMA PruneProperties ==
  ASSUME NEW ts \in Seq(Times), NEW i \in 1 .. Len(ts) + 1
  PROVE  LET live == SubSeq(ts, i, Len(ts))
         IN  /\ live \in Seq(Times)
             /\ Len(live) = Len(ts) - i + 1
             /\ \A j \in 1 .. Len(live) : live[j] = ts[j + i - 1]
             /\ live # <<>> <=> i <= Len(ts)
<1>0. Len(ts) \in Nat /\ \A j \in 1 .. Len(ts) : ts[j] \in Times
  BY ElementOfSeq, LenProperties
<1>1. \A j \in i .. Len(ts) : ts[j] \in Times
  BY <1>0
<1>2. /\ SubSeq(ts, i, Len(ts)) \in Seq(Times)
      /\ Len(SubSeq(ts, i, Len(ts))) = Len(ts) - i + 1
      /\ \A j \in 1 .. Len(ts) - i + 1 : SubSeq(ts, i, Len(ts))[j] = ts[i + j - 1]
  BY <1>0, <1>1, SubSeqProperties
<1>3. SubSeq(ts, i, Len(ts)) # <<>> <=> i <= Len(ts)
  <2> DEFINE live == SubSeq(ts, i, Len(ts))
  <2>1. live \in Seq(Times) /\ Len(live) = Len(ts) - i + 1
    BY <1>2
  <2>2. live # <<>> <=> Len(live) # 0
    <3> HIDE DEF live
    <3> QED BY <2>1, EmptySeq
  <2> QED BY <1>0, <2>1, <2>2
<1> QED BY <1>0, <1>2, <1>3

-----------------------------------------------------------------------------
(* The inductive invariant, per key.  The deque is what is left of the     *)
(* history when a prefix of expired times is dropped.                      *)
Suffix(k) ==
  \E d \in 0 .. Len(admitted[k]) :
    /\ Len(windows[k]) = Len(admitted[k]) - d
    /\ \A i \in 1 .. Len(windows[k]) : windows[k][i] = admitted[k][i + d]
    /\ \A j \in 1 .. d : admitted[k][j] <= now - Window

PastOnly(k) == \A i \in 1 .. Len(admitted[k]) : admitted[k][i] <= now

Rolling(k) ==
  \A i, j \in 1 .. Len(admitted[k]) :
    j - i >= Limit[k] => admitted[k][j] - admitted[k][i] >= Window

Bounded(k) == windows[k] # <<>> => Len(windows[k]) <= Limit[k]

Promised(k) ==
  answer[k].kind = "denied" =>
    windows[k] # <<>> /\ answer[k].retry_at = windows[k][1] + Window

KeyInv(k) == Suffix(k) /\ PastOnly(k) /\ Rolling(k) /\ Bounded(k) /\ Promised(k)

IInv == TypeOK /\ \A k \in Keys : KeyInv(k)

(* Nothing has been admitted yet.                                          *)
LEMMA InitIInv == Init => IInv
<1> SUFFICES ASSUME Init PROVE IInv
  OBVIOUS
<1>1. TypeOK
  BY TimeAssumption, WindowAssumption DEF Init, TypeOK, Kinds
<1>2. ASSUME NEW k \in Keys PROVE KeyInv(k)
  <2>1. windows[k] = <<>> /\ admitted[k] = <<>> /\ answer[k].kind = "none"
    BY DEF Init
  <2>2. Suffix(k)
    BY <2>1 DEF Suffix
  <2> QED BY <2>1, <2>2 DEF KeyInv, PastOnly, Rolling, Bounded, Promised
<1> QED BY <1>1, <1>2 DEF IInv

(* Pruning the deque of k leaves a suffix of the history.                  *)
LEMMA PrunedIsSuffix ==
  ASSUME IInv, NEW k \in Keys, NEW i \in 1 .. Len(windows[k]) + 1,
         FirstLive(windows[k], i)
  PROVE  LET live == SubSeq(windows[k], i, Len(windows[k]))
         IN  \E d \in 0 .. Len(admitted[k]) :
               /\ Len(live) = Len(admitted[k]) - d
               /\ \A j \in 1 .. Len(live) : live[j] = admitted[k][j + d]
               /\ \A j \in 1 .. d : admitted[k][j] <= now - Window
<1> DEFINE ts == windows[k]
           adm == admitted[k]
           live == SubSeq(ts, i, Len(ts))
<1>1. ts \in Seq(Times) /\ adm \in Seq(Times)
  BY DEF IInv, TypeOK, Times
<1>2. Len(ts) \in Nat /\ Len(adm) \in Nat
  BY <1>1, LenProperties
<1>3. /\ Len(live) = Len(ts) - i + 1
      /\ \A j \in 1 .. Len(live) : live[j] = ts[j + i - 1]
  BY <1>1, PruneProperties
<1>4. PICK d \in 0 .. Len(adm) :
        /\ Len(ts) = Len(adm) - d
        /\ \A j \in 1 .. Len(ts) : ts[j] = adm[j + d]
        /\ \A j \in 1 .. d : adm[j] <= now - Window
  BY DEF IInv, KeyInv, Suffix
<1>5. \A j \in 1 .. i - 1 : ts[j] <= now - Window
  BY DEF FirstLive
<1> HIDE DEF ts, adm, live
<1> DEFINE e == d + i - 1
<1>6. e \in 0 .. Len(adm) /\ Len(live) = Len(adm) - e
  BY <1>2, <1>3, <1>4 DEF ts
<1>7. \A j \in 1 .. Len(live) : live[j] = adm[j + e]
  BY <1>2, <1>3, <1>4 DEF ts
<1>8. \A j \in 1 .. e : adm[j] <= now - Window
  <2> SUFFICES ASSUME NEW j \in 1 .. e PROVE adm[j] <= now - Window
    OBVIOUS
  <2>1. CASE j <= d
    BY <1>4, <2>1
  <2>2. CASE ~ (j <= d)
    <3>1. j - d \in 1 .. i - 1 /\ j - d \in 1 .. Len(ts) /\ (j - d) + d = j
      BY <1>2, <2>2 DEF ts
    <3>2. ts[j - d] = adm[j]
      BY <1>4, <3>1
    <3> QED BY <1>5, <3>1, <3>2
  <2> QED BY <2>1, <2>2
<1> HIDE DEF e
<1>9. \E d2 \in 0 .. Len(adm) :
        /\ Len(live) = Len(adm) - d2
        /\ \A j \in 1 .. Len(live) : live[j] = adm[j + d2]
        /\ \A j \in 1 .. d2 : adm[j] <= now - Window
  BY <1>6, <1>7, <1>8
<1> QED BY <1>9 DEF ts, adm, live

(* A key whose own state a step leaves alone keeps its invariant; only the *)
(* clock may advance.                                                      *)
LEMMA KeyUntouched ==
  ASSUME IInv, NEW k \in Keys, now' \in Times, now' >= now,
         windows'[k] = windows[k], admitted'[k] = admitted[k], answer'[k] = answer[k]
  PROVE  KeyInv(k)'
<1>0. KeyInv(k) /\ now \in Times /\ admitted[k] \in Seq(Times)
  BY DEF IInv, TypeOK, Times
<1>1. Len(admitted[k]) \in Nat /\ \A j \in 1 .. Len(admitted[k]) : admitted[k][j] \in Nat
  <2>1. Len(admitted[k]) \in Nat /\ \A j \in 1 .. Len(admitted[k]) : admitted[k][j] \in Times
    BY <1>0, LenProperties, ElementOfSeq
  <2> QED BY <2>1 DEF Times
<1>2. now \in Nat /\ now' \in Nat
  BY <1>0 DEF Times
<1>3. Suffix(k)'
  <2>1. PICK d \in 0 .. Len(admitted[k]) :
          /\ Len(windows[k]) = Len(admitted[k]) - d
          /\ \A i \in 1 .. Len(windows[k]) : windows[k][i] = admitted[k][i + d]
          /\ \A j \in 1 .. d : admitted[k][j] <= now - Window
    BY <1>0 DEF KeyInv, Suffix
  <2>2. \A j \in 1 .. d : admitted[k][j] <= now' - Window
    <3> SUFFICES ASSUME NEW j \in 1 .. d PROVE admitted[k][j] <= now' - Window
      OBVIOUS
    <3>1. j \in 1 .. Len(admitted[k]) /\ admitted[k][j] \in Nat
      BY <1>1
    <3> QED BY <1>2, <2>1, <3>1, WindowAssumption
  <2> QED BY <2>1, <2>2 DEF Suffix
<1>4. PastOnly(k)'
  BY <1>0, <1>1, <1>2 DEF KeyInv, PastOnly
<1>5. Rolling(k)' /\ Bounded(k)' /\ Promised(k)'
  BY <1>0 DEF KeyInv, Rolling, Bounded, Promised
<1> QED BY <1>3, <1>4, <1>5 DEF KeyInv

(* An admission keeps the window of its key.                               *)
LEMMA AllowKeyInv ==
  ASSUME IInv, NEW k \in Keys, NEW i \in 1 .. Len(windows[k]) + 1,
         FirstLive(windows[k], i), now' = now,
         Allow(k, SubSeq(windows[k], i, Len(windows[k])))
  PROVE  KeyInv(k)' /\ TypeOK'
<1> DEFINE ts == windows[k]
           adm == admitted[k]
           live == SubSeq(ts, i, Len(ts))
           n == Len(adm)
<1>0. /\ TypeOK /\ KeyInv(k) /\ ts \in Seq(Times) /\ adm \in Seq(Times)
      /\ now \in Times
  BY DEF IInv, TypeOK, Times
<1>1. n \in Nat /\ \A j \in 1 .. n : adm[j] \in Nat
  <2>1. n \in Nat /\ \A j \in 1 .. n : adm[j] \in Times
    BY <1>0, LenProperties, ElementOfSeq
  <2> QED BY <2>1 DEF Times
<1>2. live \in Seq(Times) /\ Len(live) \in Nat
  BY <1>0, PruneProperties, LenProperties
<1>3. PICK d \in 0 .. n :
        /\ Len(live) = n - d
        /\ \A j \in 1 .. Len(live) : live[j] = adm[j + d]
        /\ \A j \in 1 .. d : adm[j] <= now - Window
  BY PrunedIsSuffix
<1>4. Len(live) < Limit[k] /\ Limit[k] \in Int
  BY LimitAssumption DEF Allow
<1>5. /\ windows' = [windows EXCEPT ![k] = Append(live, now)]
      /\ admitted' = [admitted EXCEPT ![k] = Append(adm, now)]
      /\ answer' = [answer EXCEPT ![k] = [kind |-> "allowed", retry_at |-> 0]]
  BY DEF Allow
<1> HIDE DEF ts, adm, live, n
<1>6. /\ Append(live, now) \in Seq(Times)
      /\ Len(Append(live, now)) = Len(live) + 1
      /\ \A j \in 1 .. Len(live) : Append(live, now)[j] = live[j]
      /\ Append(live, now)[Len(live) + 1] = now
  BY <1>0, <1>2, AppendProperties
<1>7. /\ Append(adm, now) \in Seq(Times)
      /\ Len(Append(adm, now)) = n + 1
      /\ \A j \in 1 .. n : Append(adm, now)[j] = adm[j]
      /\ Append(adm, now)[n + 1] = now
  BY <1>0, AppendProperties DEF n
<1>8. TypeOK'
  <2>1. [kind |-> "allowed", retry_at |-> 0] \in [kind : Kinds, retry_at : 0 .. (MaxTime + Window)]
    BY TimeAssumption, WindowAssumption DEF Kinds
  <2> QED BY <1>0, <1>5, <1>6, <1>7, <2>1 DEF TypeOK, Times
<1>9. /\ windows'[k] = Append(live, now)
      /\ admitted'[k] = Append(adm, now)
      /\ answer'[k].kind = "allowed"
  BY <1>0, <1>5 DEF TypeOK
<1>10. now \in Nat
  BY <1>0 DEF Times
<1>11. Suffix(k)'
  <2>1. \A j \in 1 .. Len(live) + 1 : Append(live, now)[j] = Append(adm, now)[j + d]
    <3> SUFFICES ASSUME NEW j \in 1 .. Len(live) + 1
                 PROVE  Append(live, now)[j] = Append(adm, now)[j + d]
      OBVIOUS
    <3>1. CASE j = Len(live) + 1
      <4>1. j + d = n + 1
        BY <1>1, <1>3, <3>1
      <4> QED BY <1>6, <1>7, <3>1, <4>1
    <3>2. CASE j # Len(live) + 1
      <4>1. j \in 1 .. Len(live) /\ j + d \in 1 .. n
        BY <1>1, <1>2, <1>3, <3>2
      <4> QED BY <1>3, <1>6, <1>7, <4>1
    <3> QED BY <3>1, <3>2
  <2>2. d \in 0 .. n + 1 /\ Len(live) + 1 = (n + 1) - d
    BY <1>1, <1>3
  <2>3. \A j \in 1 .. d : Append(adm, now)[j] <= now - Window
    BY <1>1, <1>3, <1>7
  <2>4. \E d2 \in 0 .. Len(admitted'[k]) :
          /\ Len(windows'[k]) = Len(admitted'[k]) - d2
          /\ \A j \in 1 .. Len(windows'[k]) : windows'[k][j] = admitted'[k][j + d2]
          /\ \A j \in 1 .. d2 : admitted'[k][j] <= now - Window
    BY <1>6, <1>7, <1>9, <2>1, <2>2, <2>3
  <2> QED BY <2>4 DEF Suffix
<1>12. PastOnly(k)'
  BY <1>0, <1>1, <1>7, <1>9, <1>10 DEF KeyInv, PastOnly, adm, n
<1>13. Rolling(k)'
  <2> SUFFICES ASSUME NEW x \in 1 .. n + 1, NEW y \in 1 .. n + 1, y - x >= Limit[k]
               PROVE  Append(adm, now)[y] - Append(adm, now)[x] >= Window
    BY <1>7, <1>9 DEF Rolling
  <2>1. CASE y <= n
    <3>1. x \in 1 .. n /\ y \in 1 .. n
      BY <1>1, <1>2, <1>4, <2>1
    <3>2. adm[y] - adm[x] >= Window
      BY <1>0, <3>1 DEF KeyInv, Rolling, adm, n
    <3> QED BY <1>7, <3>1, <3>2
  <2>2. CASE y = n + 1
    <3>1. x \in 1 .. d
      BY <1>1, <1>2, <1>3, <1>4, <2>2
    <3>2. Append(adm, now)[x] = adm[x] /\ Append(adm, now)[y] = now /\ adm[x] \in Nat
      BY <1>1, <1>3, <1>7, <2>2, <3>1
    <3>3. adm[x] <= now - Window
      BY <1>3, <3>1
    <3> QED BY <1>10, <3>2, <3>3, WindowAssumption
  <2>3. y <= n \/ y = n + 1
    BY <1>1
  <2> QED BY <2>1, <2>2, <2>3
<1>14. Bounded(k)' /\ Promised(k)'
  BY <1>2, <1>4, <1>6, <1>9 DEF Bounded, Promised
<1> QED BY <1>8, <1>11, <1>12, <1>13, <1>14 DEF KeyInv

(* A refusal prunes and changes nothing else.                              *)
LEMMA RefuseKeyInv ==
  ASSUME IInv, NEW k \in Keys, NEW i \in 1 .. Len(windows[k]) + 1,
         FirstLive(windows[k], i), now' = now,
         LET live == SubSeq(windows[k], i, Len(windows[k]))
         IN  Deny(k, live) \/ Crash(k, live)
  PROVE  KeyInv(k)' /\ TypeOK'
<1> DEFINE ts == windows[k]
           live == SubSeq(ts, i, Len(ts))
<1>0. /\ TypeOK /\ KeyInv(k) /\ ts \in Seq(Times) /\ now \in Nat
  BY DEF IInv, TypeOK, Times
<1>1. /\ live \in Seq(Times) /\ Len(live) \in Nat /\ Len(ts) \in Nat
      /\ Len(live) = Len(ts) - i + 1
      /\ live # <<>> => Len(live) >= 1
  BY <1>0, PruneProperties, LenProperties
<1>2. /\ windows' = [windows EXCEPT ![k] = live]
      /\ admitted' = admitted
      /\ answer' = [answer EXCEPT ![k] =
           IF live = <<>> THEN [kind |-> "IndexError", retry_at |-> 0]
                          ELSE [kind |-> "denied", retry_at |-> RetryAt(live)]]
  BY DEF Deny, Crash
<1>3. live # <<>> => live[1] \in 0 .. MaxTime
  BY <1>1, ElementOfSeq DEF Times
<1> HIDE DEF live
<1>4. /\ windows'[k] = live
      /\ admitted'[k] = admitted[k]
      /\ answer'[k] = IF live = <<>> THEN [kind |-> "IndexError", retry_at |-> 0]
                       ELSE [kind |-> "denied", retry_at |-> RetryAt(live)]
  BY <1>0, <1>2 DEF TypeOK
<1>5. TypeOK'
  <2>1. answer'[k] \in [kind : Kinds, retry_at : 0 .. (MaxTime + Window)]
    BY <1>3, <1>4, TimeAssumption, WindowAssumption DEF Kinds, RetryAt
  <2> QED BY <1>0, <1>1, <1>2, <1>4, <2>1 DEF TypeOK, Times
<1>6. Suffix(k)'
  <2>1. \E d \in 0 .. Len(admitted[k]) :
          /\ Len(live) = Len(admitted[k]) - d
          /\ \A j \in 1 .. Len(live) : live[j] = admitted[k][j + d]
          /\ \A j \in 1 .. d : admitted[k][j] <= now - Window
    BY PrunedIsSuffix DEF live
  <2> QED BY <1>4, <2>1 DEF Suffix
<1>7. PastOnly(k)' /\ Rolling(k)'
  BY <1>0, <1>4 DEF KeyInv, PastOnly, Rolling
<1>8. Bounded(k)'
  <2> SUFFICES ASSUME live # <<>> PROVE Len(live) <= Limit[k]
    BY <1>4 DEF Bounded
  <2>1. ts # <<>> /\ Len(live) <= Len(ts)
    BY <1>0, <1>1, EmptySeq
  <2> QED BY <1>0, <1>1, <2>1, LimitAssumption DEF KeyInv, Bounded
<1>9. Promised(k)'
  BY <1>4 DEF Promised, RetryAt
<1> QED BY <1>5, <1>6, <1>7, <1>8, <1>9 DEF KeyInv

(* IInv is inductive.                                                      *)
LEMMA NextIInv == IInv /\ [Next]_vars => IInv'
<1> SUFFICES ASSUME IInv, [Next]_vars PROVE IInv'
  OBVIOUS
<1>0. now \in Times /\ now \in Nat
  BY DEF IInv, TypeOK, Times
<1>1. ASSUME NEW k \in Keys, check_and_increment(k) PROVE IInv'
  <2>1. PICK i \in 1 .. Len(windows[k]) + 1 :
          /\ FirstLive(windows[k], i)
          /\ LET live == SubSeq(windows[k], i, Len(windows[k]))
             IN  Allow(k, live) \/ Deny(k, live) \/ Crash(k, live)
    BY <1>1 DEF check_and_increment
  <2>2. now' = now
    BY <1>1 DEF check_and_increment
  <2>3. KeyInv(k)' /\ TypeOK'
    BY <2>1, <2>2, AllowKeyInv, RefuseKeyInv
  <2>4. ASSUME NEW j \in Keys, j # k PROVE KeyInv(j)'
    <3>1. windows'[j] = windows[j] /\ admitted'[j] = admitted[j] /\ answer'[j] = answer[j]
      BY <2>1, <2>4 DEF Allow, Deny, Crash, IInv, TypeOK
    <3> QED BY <1>0, <2>2, <3>1, KeyUntouched
  <2> QED BY <2>3, <2>4 DEF IInv
<1>2. CASE Tick
  <2>1. now' \in Times /\ now' >= now
    BY <1>0, <1>2, TimeAssumption DEF Tick, Times
  <2>2. ASSUME NEW j \in Keys PROVE KeyInv(j)'
    BY <1>2, <2>1, KeyUntouched DEF Tick
  <2> QED BY <1>2, <2>1, <2>2 DEF IInv, TypeOK, Tick, Times
<1>3. CASE UNCHANGED vars
  BY <1>3 DEF IInv, vars, TypeOK, KeyInv, Suffix, PastOnly, Rolling, Bounded, Promised
<1> QED BY <1>1, <1>2, <1>3 DEF Next

(* Hence it holds throughout.                                              *)
LEMMA SpecIInv == Spec => []IInv
BY InitIInv, NextIInv, PTL DEF Spec

-----------------------------------------------------------------------------
(* The limiter's variables keep their types.                               *)
THEOREM LimiterTypeCorrect == Spec => []TypeOK
BY SpecIInv, PTL DEF IInv

(* No rolling window of any key ever holds more than its limit of allowed  *)
(* calls, although the limiter forgets every call it prunes.               *)
THEOREM WindowIsRolling == Spec => []RollingWindow
<1>1. IInv => RollingWindow
  <2> SUFFICES ASSUME IInv, NEW k \in Keys PROVE Rolling(k) /\ DOMAIN admitted[k] = 1 .. Len(admitted[k])
    BY DEF RollingWindow, Rolling
  <2> QED BY LenProperties DEF IInv, KeyInv, TypeOK
<1> QED BY <1>1, SpecIInv, PTL

(* The memory a key takes is bounded by its limit.                         *)
THEOREM DequesBounded == Spec => []WindowBounded
<1>1. IInv => WindowBounded
  BY DEF IInv, KeyInv, Bounded, WindowBounded
<1> QED BY <1>1, SpecIInv, PTL

(* A denied caller that waits retry_after_s finds room, unless another call*)
(* of its key was answered in between.                                     *)
THEOREM RetryAfterIsHonest == Spec => []RetryAfterHonest
<1>1. IInv => RetryAfterHonest
  <2> SUFFICES ASSUME IInv, NEW k \in Keys,
                      answer[k].kind = "denied", now >= answer[k].retry_at
               PROVE  \E i \in 1 .. Len(windows[k]) + 1 :
                        FirstLive(windows[k], i) /\ Len(windows[k]) - i + 1 < Limit[k]
    BY DEF RetryAfterHonest
  <2>1. /\ windows[k] \in Seq(Times) /\ now \in Times /\ now \in Nat
        /\ windows[k] # <<>> /\ Len(windows[k]) <= Limit[k]
        /\ answer[k].retry_at = windows[k][1] + Window
    BY DEF IInv, TypeOK, KeyInv, Bounded, Promised, Times
  <2>2. Len(windows[k]) \in Nat \ {0}
    BY <2>1, EmptySeq
  <2>3. windows[k][1] \in Nat
    <3>1. windows[k][1] \in Times
      BY <2>1, <2>2, ElementOfSeq
    <3> QED BY <3>1 DEF Times
  <2>4. PICK i \in 1 .. Len(windows[k]) + 1 : FirstLive(windows[k], i)
    BY <2>1, FirstLiveExists
  <2>5. windows[k][1] <= now - Window
    BY <2>1, <2>3, WindowAssumption
  <2>6. i # 1
    BY <2>1, <2>2, <2>3, <2>4, <2>5, WindowAssumption DEF FirstLive
  <2>7. Len(windows[k]) - i + 1 < Limit[k]
    BY <2>1, <2>2, <2>6, LimitAssumption
  <2> QED BY <2>4, <2>7
<1> QED BY <1>1, SpecIInv, PTL
-----------------------------------------------------------------------------
(* The deque implements the rolling window: what is live of it are the     *)
(* admissions of the last Window ticks, because the history is in order.   *)
Ordered ==
  \A k \in Keys : \A i, j \in 1 .. Len(admitted[k]) :
    i <= j => admitted[k][i] <= admitted[k][j]

LEMMA Answered ==
  ASSUME IInv, NEW k \in Keys, check_and_increment(k)
  PROVE  /\ now' = now
         /\ \/ admitted' = [admitted EXCEPT ![k] = Append(@, now)]
            \/ admitted' = admitted
BY DEF check_and_increment, Allow, Deny, Crash

LEMMA NextOrdered == IInv /\ Ordered /\ [Next]_vars => Ordered'
<1> SUFFICES ASSUME IInv, Ordered, [Next]_vars PROVE Ordered'
  OBVIOUS
<1>1. CASE admitted' = admitted
  BY <1>1 DEF Ordered
<1>2. ASSUME NEW k \in Keys, admitted' = [admitted EXCEPT ![k] = Append(@, now)]
      PROVE  Ordered'
  <2>1. /\ admitted \in [Keys -> Seq(Times)] /\ now \in Times
        /\ \A i \in 1 .. Len(admitted[k]) : admitted[k][i] <= now
    BY DEF IInv, TypeOK, KeyInv, PastOnly, Times
  <2>2. \A j \in Keys : j # k => admitted'[j] = admitted[j]
    BY <1>2, <2>1
  <2>3. /\ Len(admitted[k]) \in Nat /\ Len(admitted'[k]) = Len(admitted[k]) + 1
        /\ admitted'[k][Len(admitted[k]) + 1] = now
        /\ \A i \in 1 .. Len(admitted[k]) : admitted'[k][i] = admitted[k][i]
    BY <1>2, <2>1, AppendProperties, LenProperties
  <2>4. ASSUME NEW i \in 1 .. Len(admitted'[k]), NEW j \in 1 .. Len(admitted'[k]), i <= j
        PROVE  admitted'[k][i] <= admitted'[k][j]
    <3>1. CASE j \in 1 .. Len(admitted[k])
      BY <2>3, <2>4, <3>1 DEF Ordered
    <3>2. CASE j = Len(admitted[k]) + 1
      <4>1. now \in Nat
        BY <2>1 DEF Times
      <4> QED BY <2>1, <2>3, <2>4, <3>2, <4>1
    <3> QED BY <2>3, <3>1, <3>2
  <2> QED BY <2>2, <2>4 DEF Ordered
<1>3. admitted' = admitted \/ \E k \in Keys : admitted' = [admitted EXCEPT ![k] = Append(@, now)]
  BY Answered DEF Next, Tick, vars
<1> QED BY <1>1, <1>2, <1>3

(* SlidingWindow counts with an operator of its own, defined alike.        *)
LEMMA SameCount == \A S : Promise!Cardinality(S) = Cardinality(S)
BY DEF Cardinality, Promise!Cardinality

(* The live part of a deque is as long as the window is full.              *)
LEMMA LiveIsInWindow ==
  ASSUME IInv, Ordered, NEW k \in Keys, NEW i \in 1 .. Len(windows[k]) + 1,
         FirstLive(windows[k], i)
  PROVE  Promise!Cardinality(Promise!InWindow(k)) = Len(SubSeq(windows[k], i, Len(windows[k])))
<1> DEFINE ts == windows[k]
           adm == admitted[k]
           live == SubSeq(ts, i, Len(ts))
<1>1. ts \in Seq(Times) /\ adm \in Seq(Times) /\ now \in Nat
  BY DEF IInv, TypeOK, Times
<1>2. /\ Len(ts) \in Nat /\ Len(adm) \in Nat /\ DOMAIN adm = 1 .. Len(adm)
      /\ \A j \in 1 .. Len(adm) : adm[j] \in Nat
  <2>1. \A j \in 1 .. Len(adm) : adm[j] \in Times
    BY <1>1, ElementOfSeq
  <2> QED BY <1>1, <2>1, LenProperties DEF Times
<1>3. /\ live \in Seq(Times) /\ Len(live) = Len(ts) - i + 1
      /\ \A j \in 1 .. Len(live) : live[j] = ts[j + i - 1]
  BY <1>1, PruneProperties
<1>4. PICK d \in 0 .. Len(adm) :
        /\ Len(live) = Len(adm) - d
        /\ \A j \in 1 .. Len(live) : live[j] = adm[j + d]
        /\ \A j \in 1 .. d : adm[j] <= now - Window
  BY PrunedIsSuffix
<1>5. ASSUME NEW j \in d + 1 .. Len(adm) PROVE adm[j] > now - Window
  <2>1. i <= Len(ts) /\ 1 \in 1 .. Len(live)
    BY <1>2, <1>3, <1>4, <1>5
  <2>2. live[1] = ts[i] /\ ts[i] > now - Window /\ live[1] = adm[1 + d]
    BY <1>2, <1>3, <1>4, <2>1 DEF FirstLive
  <2>3. adm[d + 1] <= adm[j]
    <3>1. Len(adm) \in Nat /\ d \in 0 .. Len(adm) /\ j \in d + 1 .. Len(adm)
      BY <1>2, <1>5
    <3>2. d + 1 \in 1 .. Len(adm) /\ j \in 1 .. Len(adm) /\ d + 1 <= j
      <4> HIDE DEF adm
      <4> QED BY <3>1
    <3>3. \A a, b \in 1 .. Len(adm) : a <= b => adm[a] <= adm[b]
      BY DEF Ordered
    <3> HIDE DEF adm
    <3> QED BY <3>2, <3>3
  <2> QED BY <1>1, <1>2, <1>4, <1>5, <2>2, <2>3, WindowAssumption
<1>6. Promise!InWindow(k) = d + 1 .. Len(adm)
  <2>1. \A j \in 1 .. Len(adm) : adm[j] > now - Window <=> j \in d + 1 .. Len(adm)
    BY <1>1, <1>2, <1>4, <1>5, WindowAssumption
  <2>2. d + 1 .. Len(adm) \subseteq 1 .. Len(adm)
    BY <1>2, <1>4
  <2> QED BY <1>2, <2>1, <2>2 DEF Promise!InWindow
<1> HIDE DEF live
<1>7. Cardinality(d + 1 .. Len(adm)) = Len(adm) - d
  <2> HIDE DEF adm
  <2>1. d + 1 \in Int /\ Len(adm) \in Int /\ d \in Nat /\ d <= Len(adm)
    BY <1>2, <1>4
  <2>2. Cardinality(d + 1 .. Len(adm)) =
          IF d + 1 > Len(adm) THEN 0 ELSE Len(adm) - (d + 1) + 1
    BY <2>1, FS_Interval
  <2> QED BY <2>1, <2>2
<1> QED BY <1>4, <1>6, <1>7, SameCount DEF live

(* The limiter allows a call exactly when fewer than its limit were allowed*)
(* in the last Window ticks: it implements SlidingWindow.                  *)
THEOREM LimiterImplementsWindow == Spec => ImplementsWindow
<1> DEFINE told == [k \in Keys |-> IF answer[k].kind = "IndexError"
                                   THEN "denied" ELSE answer[k].kind]
<1>1. Init => Promise!Init
  BY DEF Init, Promise!Init
<1>2. Init => Ordered
  BY DEF Init, Ordered
<1>3. IInv /\ Ordered /\ [Next]_vars => [Promise!Next]_<<now, admitted, told>>
  <2> SUFFICES ASSUME IInv, Ordered, [Next]_vars
               PROVE  Promise!Next \/ UNCHANGED <<now, admitted, told>>
    OBVIOUS
  <2>1. ASSUME NEW k \in Keys, check_and_increment(k) PROVE Promise!Next
    <3>1. PICK i \in 1 .. Len(windows[k]) + 1 :
            /\ FirstLive(windows[k], i)
            /\ LET live == SubSeq(windows[k], i, Len(windows[k]))
               IN  Allow(k, live) \/ Deny(k, live) \/ Crash(k, live)
      BY <2>1 DEF check_and_increment
    <3> DEFINE live == SubSeq(windows[k], i, Len(windows[k]))
    <3>2. Promise!Cardinality(Promise!InWindow(k)) = Len(live)
      BY <3>1, LiveIsInWindow
    <3>3. now' = now /\ DOMAIN answer = Keys
      BY <2>1 DEF check_and_increment, IInv, TypeOK
    <3> HIDE DEF live
    <3>4. CASE Allow(k, live)
      <4>1. told' = [told EXCEPT ![k] = "allowed"]
        BY <3>3, <3>4 DEF Allow
      <4>2. Promise!Cardinality(Promise!InWindow(k)) < Limit[k]
        BY <3>2, <3>4 DEF Allow
      <4>3. admitted' = [admitted EXCEPT ![k] = Append(@, now)]
        BY <3>4 DEF Allow
      <4>4. Promise!Allow(k)
        BY <3>3, <4>1, <4>2, <4>3, Zenon DEF Promise!Allow
      <4> QED BY <4>4 DEF Promise!Next
    <3>5. CASE Deny(k, live) \/ Crash(k, live)
      <4>1. told' = [told EXCEPT ![k] = "denied"]
        <5>1. CASE Deny(k, live)
          BY <3>3, <5>1 DEF Deny
        <5>2. CASE Crash(k, live)
          BY <3>3, <5>2 DEF Crash
        <5> QED BY <3>5, <5>1, <5>2
      <4>2. Promise!Cardinality(Promise!InWindow(k)) >= Limit[k] /\ admitted' = admitted
        BY <3>2, <3>5 DEF Deny, Crash
      <4>3. Promise!Deny(k)
        BY <3>3, <4>1, <4>2, Zenon DEF Promise!Deny
      <4> QED BY <4>3 DEF Promise!Next
    <3> QED BY <3>1, <3>4, <3>5 DEF live
  <2>2. CASE Tick
    <3>1. Promise!Tick
      BY <2>2 DEF Tick, Promise!Tick
    <3> QED BY <3>1 DEF Promise!Next
  <2>3. CASE UNCHANGED vars
    BY <2>3 DEF vars
  <2> QED BY <2>1, <2>2, <2>3 DEF Next
<1> HIDE DEF told
<1>4. Spec => [](IInv /\ Ordered)
  <2>1. IInv /\ Ordered /\ [Next]_vars => (IInv /\ Ordered)'
    BY NextIInv, NextOrdered
  <2> QED BY <1>2, <2>1, InitIInv, PTL DEF Spec
<1> QED BY <1>1, <1>3, <1>4, PTL DEF Spec, ImplementsWindow, Promise!Spec, told
=============================================================================
