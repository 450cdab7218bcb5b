------------------------------ MODULE MCLogger ------------------------------
EXTENDS Logger

MCWords        == {"x", "city", "token", "tokens"}
Keys           == {<<"city">>, <<"token">>, <<"tokens">>}
NamesWithParts == {<<"token">>, <<"tokens">>}
Exceptions     == {<<"tokens">>}
MCFields       == {<<"args">>, <<"token">>, <<"tokens">>, <<"event">>, <<"exc_info">>}

Blocks == {<<"x">>, <<"cre", "dential">>}
Texts  == {Str(FlattenSeq(bs)) : bs \in BoundedSeq(Blocks, 4)}

\* Harmless, too long, a credential, one across the cut, an atom.
Leaves == {Str(<<"x">>), Str(<<"x", "x", "x">>), Str(<<"cre", "dential">>),
           Str(<<"x", "cre", "dential">>), Atom}

Lists == {List(vs) : vs \in BoundedSeq(Leaves, 3)}
Dicts == UNION {{Dict([i \in DOMAIN ks |-> <<ks[i], vs[i]>>]) : vs \in [DOMAIN ks -> Leaves]} :
                  ks \in SetToAllKPermutations(Keys)}

\* A key that holds a credential and is longer than a string may be.
OddKey   == <<"x", "x", "cre", "dential">>
OddDicts == {Dict(<<<<OddKey, v>>, <<<<"city">>, w>>>>) : v, w \in Leaves}

\* One level up: beside a harmless neighbour.
Wraps(vs) == {List(<<v, Atom>>) : v \in vs} \cup
             {Dict(<<<<k, v>>, <<<<"city">>, Atom>>>>) : k \in Keys \ {<<"city">>}, v \in vs}

Flat == Texts \cup Lists \cup Dicts \cup OddDicts
Deep == Wraps(Flat) \cup Wraps(Wraps(Lists \cup Texts)) \cup Wraps(Wraps(Wraps(Texts)))

MCPayloads == Flat \cup Deep
=============================================================================
