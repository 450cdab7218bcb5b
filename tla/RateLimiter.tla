----------------------------- MODULE RateLimiter -----------------------------
(***************************************************************************)
(* InMemoryRateLimiter of middleware.py: one deque of timestamps per key,  *)
(* pruned when its key is used, never otherwise.  check_and_increment runs *)
(* under a lock and never awaits inside it, so it is one atomic step.      *)
(* admitted is a history variable: the code forgets what it prunes.        *)
(***************************************************************************)
EXTENDS Integers, Sequences

CONSTANTS Keys,    \* rate-limit keys: api keys, and "anonymous"
          Limit,   \* Limit[k]: limit_per_minute passed for k; the key store is
                   \* read-only, and a key file may hold any integer
          Window,  \* 60 s in ticks
          MaxTime  \* bound on the clock

ASSUME WindowAssumption == Window \in Nat \ {0}
ASSUME LimitAssumption  == Limit \in [Keys -> Int]
ASSUME TimeAssumption   == MaxTime \in Nat

VARIABLES now,       \* clock.now()
          windows,   \* _windows; a missing deque and an empty one behave alike
          answer,    \* answer[k]: how the last call for k ended, and after a denial
                      \* when its retry_after_s has passed
          admitted   \* admitted[k]: when k was allowed, over the whole history

vars == <<now, windows, answer, admitted>>

Kinds == {"none", "allowed", "denied", "IndexError"}

TypeOK == /\ now \in 0 .. MaxTime
          /\ windows \in [Keys -> Seq(0 .. MaxTime)]
          /\ admitted \in [Keys -> Seq(0 .. MaxTime)]
          /\ answer \in [Keys -> [kind : Kinds, retry_at : 0 .. (MaxTime + Window)]]

Init == /\ now = 0
        /\ windows = [k \in Keys |-> <<>>]
        /\ admitted = [k \in Keys |-> <<>>]
        /\ answer = [k \in Keys |-> [kind |-> "none", retry_at |-> 0]]

-----------------------------------------------------------------------------
(* Plausible slips, used to show that the properties can be broken.        *)

FirstLive_Inclusive(ts, i) ==
  /\ i \in 1 .. Len(ts) + 1
  /\ \A j \in 1 .. i - 1 : ts[j] < now - Window
  /\ i <= Len(ts) => ts[i] >= now - Window

FirstLive_Early(ts, i) ==
  /\ i \in 1 .. Len(ts) + 1
  /\ \A j \in 1 .. i - 1 : ts[j] <= now - Window + 1
  /\ i <= Len(ts) => ts[i] > now - Window + 1

RetryAt_OneShort(live) == live[1] + Window - 1

RetryAt_Remaining(live) == live[1] - Window

Allow_OffByOne(k, live) ==
  /\ Len(live) <= Limit[k]
  /\ windows' = [windows EXCEPT ![k] = Append(live, now)]
  /\ admitted' = [admitted EXCEPT ![k] = Append(@, now)]
  /\ answer' = [answer EXCEPT ![k] = [kind |-> "allowed", retry_at |-> 0]]

-----------------------------------------------------------------------------
(* The popleft loop leaves the deque at i: every timestamp before i has    *)
(* expired and the one at i has not.                                       *)
FirstLive(ts, i) ==
  /\ i \in 1 .. Len(ts) + 1
  /\ \A j \in 1 .. i - 1 : ts[j] <= now - Window
  /\ i <= Len(ts) => ts[i] > now - Window

(* When retry_after_s, returned with a denial, has passed.  The oldest     *)
(* timestamp is live, so the difference is positive and max(.., 0) idle.   *)
RetryAt(live) == live[1] + Window

Allow(k, live) ==
  /\ Len(live) < Limit[k]
  /\ windows' = [windows EXCEPT ![k] = Append(live, now)]
  /\ admitted' = [admitted EXCEPT ![k] = Append(@, now)]
  /\ answer' = [answer EXCEPT ![k] = [kind |-> "allowed", retry_at |-> 0]]

Deny(k, live) ==
  /\ Len(live) >= Limit[k]
  /\ live # <<>>
  /\ windows' = [windows EXCEPT ![k] = live]
  /\ answer' = [answer EXCEPT ![k] = [kind |-> "denied", retry_at |-> RetryAt(live)]]
  /\ UNCHANGED admitted

(* timestamps[0] of an empty deque: a limit of zero or less.               *)
Crash(k, live) ==
  /\ Len(live) >= Limit[k]
  /\ live = <<>>
  /\ windows' = [windows EXCEPT ![k] = live]
  /\ answer' = [answer EXCEPT ![k] = [kind |-> "IndexError", retry_at |-> 0]]
  /\ UNCHANGED admitted

check_and_increment(k) ==
  /\ \E i \in 1 .. Len(windows[k]) + 1 :
       /\ FirstLive(windows[k], i)
       /\ LET live == SubSeq(windows[k], i, Len(windows[k]))
          IN  Allow(k, live) \/ Deny(k, live) \/ Crash(k, live)
  /\ UNCHANGED now

Tick == /\ now < MaxTime
        /\ now' = now + 1
        /\ UNCHANGED <<windows, answer, admitted>>

Next == (\E k \in Keys : check_and_increment(k)) \/ Tick

Spec == Init /\ [][Next]_vars

-----------------------------------------------------------------------------
(* "Per api_key, rolling 60s window": of any Limit + 1 consecutive         *)
(* admissions of a key the last comes at least Window after the first,     *)
(* wherever the window is placed and whatever was pruned in between.       *)
RollingWindow ==
  \A k \in Keys : \A i, j \in DOMAIN admitted[k] :
    j - i >= Limit[k] => admitted[k][j] - admitted[k][i] >= Window

(* retry_after_s is honest: a caller that waits it out finds room, unless  *)
(* another call of the key was allowed meanwhile.                          *)
RetryAfterHonest ==
  \A k \in Keys :
    answer[k].kind = "denied" /\ now >= answer[k].retry_at =>
      \E i \in 1 .. Len(windows[k]) + 1 :
        FirstLive(windows[k], i) /\ Len(windows[k]) - i + 1 < Limit[k]

(* The deque of a key never outgrows its limit.                            *)
WindowBounded ==
  \A k \in Keys : windows[k] # <<>> => Len(windows[k]) <= Limit[k]

(* Neither stricter nor looser than the rolling window it promises.        *)
Promise == INSTANCE SlidingWindow WITH
             answer <- [k \in Keys |-> IF answer[k].kind = "IndexError"
                                       THEN "denied" ELSE answer[k].kind]

ImplementsWindow == Promise!Spec
=============================================================================
