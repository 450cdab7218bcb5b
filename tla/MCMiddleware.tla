---------------------------- MODULE MCMiddleware ----------------------------
EXTENDS Middleware, TLC

CONSTANTS r1, r2, r3, onecall, plain, good, bad, noKey, paid, blocked,
          misspelt

TwoRequests   == {r1, r2}
ThreeRequests == {r1, r2, r3}

\* A cached premium tool (premium_onecall) and an uncached free one.
TwoTools == {onecall, plain}
MCMinTier == [t \in Tools |-> IF t = onecall THEN "premium" ELSE "free"]
MCTtl     == [t \in Tools |-> IF t = onecall THEN 1 ELSE None]
MCCost    == [t \in Tools |-> IF t = onecall THEN 3 ELSE 1]

TwoArgs == {good, bad}
OneArg  == {good}

\* A missing credential and what a key file may hold: a paying key, a free key
\* that may do nothing, and a key whose tier is misspelt.
FourKeys == {noKey, paid, blocked, misspelt}
KeyFile == [k \in FourKeys \ {noKey} |->
              CASE k = paid     -> [tier |-> "premium", limit |-> 2]
                [] k = blocked  -> [tier |-> "free", limit |-> 0]
                [] k = misspelt -> [tier |-> "gold", limit |-> 1]]

\* A paying key that may do nothing.
TwoKeys  == {noKey, paid}
PaidZero == [k \in {paid} |-> [tier |-> "premium", limit |-> 0]]

OneError  == {"HandlerError"}

NoAborts  == {}
AllAwaits == Awaits

Symmetry == Permutations(Requests)
=============================================================================
