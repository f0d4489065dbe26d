---------------------------- MODULE MCXHandshake ----------------------------
(* Instances of XHandshake.                                                  *)
EXTENDS XHandshake

Entry(t, b) == [type |-> t, body |-> b]

\* GREASE, a short share of the right group, the right share.
Grease == Entry(4, <<1>>)
Short  == Entry(groupX25519, <<4>>)
Right  == Entry(groupX25519, <<4, 4>>)

Usual ==
  [pub |-> "server", shortID |-> <<1>>, names |-> <<Entry(hostName, <<6>>)>>,
   shares |-> <<Grease, Right>>, order |-> <<"name", "share">>, ahead |-> 0, direct |-> TRUE]

\* All fingerprints with the usual keys and clock, and all keys, shortIDs (short,
\* padded, cut, unknown, too long), clocks and routes with the usual fingerprint.
SomeConfs ==
  {[Usual EXCEPT !.names = n, !.shares = s, !.order = o] :
     n \in {<<>>, <<Entry(hostName, <<6>>)>>, <<Entry(1, <<5>>), Entry(hostName, <<6, 1>>)>>},
     s \in {<<Right>>, <<Grease, Right>>, <<Short, Right>>, <<Right, Grease>>, <<Grease>>},
     o \in {<<>>, <<"name", "share">>, <<"share", "other", "name">>, <<"other", "share">>}}
  \cup
  {[Usual EXCEPT !.pub = p, !.shortID = i, !.ahead = a, !.direct = d] :
     p \in {"server", "other"}, i \in {<<1>>, <<1, 0>>, <<2, 2>>, <<2>>, <<1, 1, 1>>},
     a \in {-4, -2, -1, 0, 3, 4, 5, 6}, d \in BOOLEAN}

SomeShortIDs == {<<1>>, <<2, 2, 1>>}
=============================================================================
