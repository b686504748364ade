------------------------------ MODULE MCProxy ------------------------------
(***************************************************************************)
(* Instances of Proxy for TLC: origins, and what they may go through.      *)
(***************************************************************************)
EXTENDS Proxy, TLC

V(size, etag, lm) == [size |-> size, etag |-> etag, lm |-> lm]

Strong   == <<V(2, <<"S", 1>>, <<>>), V(2, <<"S", 2>>, <<>>), V(1, <<"S", 3>>, <<>>)>>
Weak     == <<V(2, <<"W", 1>>, <<"L", 1>>), V(2, <<"W", 2>>, <<"L", 1>>),
              V(2, <<"W", 3>>, <<"L", 2>>)>>
WeakOnly == <<V(2, <<"W", 1>>, <<>>), V(1, <<"W", 2>>, <<>>), V(2, <<"W", 3>>, <<>>)>>
Dated    == <<V(2, <<>>, <<"L", 1>>), V(1, <<>>, <<"L", 1>>), V(2, <<>>, <<"L", 2>>)>>
Removed  == <<V(2, <<>>, <<>>), Gone, V(0, <<>>, <<>>), V(2, <<>>, <<>>)>>

Lives == {Strong, Weak, WeakOnly, Dated, Removed}

Server(head, ranges, ifRange, tags) ==
    [head |-> head, ranges |-> ranges, ifRange |-> ifRange, tags |-> tags]

Kinds == { Server("ok", TRUE, TRUE, FALSE), Server("refused", TRUE, FALSE, TRUE),
           Server("lengthless", TRUE, TRUE, TRUE), Server("lengthless", FALSE, TRUE, TRUE),
           Server("refused", FALSE, FALSE, TRUE) }

Symmetry == Permutations(Requests)
=============================================================================
