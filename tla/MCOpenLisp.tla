----------------------------- MODULE MCOpenLisp -----------------------------
EXTENDS OpenLisp

\* EIDs 00 and 01; address 9 is the machine's own.
MCEids == {<<0, 0>>, <<0, 1>>}

At(addr, v) == [v |-> v, addr |-> addr]
Plain(addr, priority) == [elp |-> FALSE, hops |-> <<At(addr, 4)>>,
                          priority |-> priority]
Path(hops, priority) == [elp |-> TRUE, hops |-> hops, priority |-> priority]
Rec(p, locs) == [eid |-> p, v |-> 4, locs |-> locs]

\* One address announced twice, for a host; no mapping, for a prefix and for
\* everything; a record of an unknown family before a good one.
MCReplies ==
    {<<Rec(<<0, 1>>, <<Plain(1, 2), Plain(2, 1), Plain(1, 1)>>)>>,
     <<Rec(<<>>, <<>>)>>,
     <<[Rec(<<0>>, <<>>) EXCEPT !.v = 0], Rec(<<0>>, <<>>)>>,
     <<Rec(<<0>>, <<Path(<<At(9, 4), At(3, 4), At(4, 4)>>, 1)>>)>>}

Local(addr) == <<[v |-> 4, addr |-> addr, priority |-> 1]>>
MCLocals == [p \in {<<1>>, <<1, 1>>} |-> IF p = <<1>> THEN Local(6) ELSE <<>>]
\* An earlier process had another mapping for 1/1 and one that is gone.
MCLeftovers == {[p \in {<<1>>, <<1, 0>>} |-> Local(5)]}
MCPetr == Local(7)

C(rand, te, petr, fnc) == [srcport_rand |-> rand, lisp_te |-> te, petr |-> petr,
                           fncs |-> {fnc}]
MCConfs == {C(TRUE, FALSE, FALSE, "XTR"), C(FALSE, TRUE, TRUE, "RTR")}

\* An ordinary xTR and an explicit path of two hops.
MCPlainXtr == {C(TRUE, FALSE, FALSE, "XTR")}
=============================================================================
