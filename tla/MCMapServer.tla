----------------------------- MODULE MCMapServer -----------------------------
EXTENDS MapServer, TLC

CONSTANTS s1, s2, s3, e1, e2

Loc(rloc, priority, r) == [rloc |-> rloc, priority |-> priority, r |-> r]

Rec(p, locs) == [eid |-> p, locs |-> locs]

\* Three sites in one range, the third inside the second, a range that overlaps
\* it, and a delegation.
MCConfig ==
    <<[kind |-> "GEID", eid |-> <<0>>],
      [kind |-> "EID", eid |-> <<0, 0>>, site |-> s1],
      [kind |-> "EID", eid |-> <<0, 1, 1>>, site |-> s2],
      [kind |-> "EID", eid |-> <<0, 1, 1, 1>>, site |-> s3],
      [kind |-> "GEID", eid |-> <<0, 1, 0, 0>>],
      [kind |-> "GREID", eid |-> <<1>>],
      [kind |-> "REID", eid |-> <<1, 0>>, locs |-> <<Loc(9, 1, TRUE)>>,
       referral |-> "NODE_REFERRAL", A |-> TRUE]>>

\* The same without the third site's EID.
MCDisjoint == SelectSeq(MCConfig, LAMBDA c : c.kind = "EID" => c.site # s3)

MCKeyOf == (e1 :> s1) @@ (e2 :> s3)

\* e1 moves between its whole range, for which the map server answers, and two
\* parts of it, with an unreachable locator first; e2 has an address twice in an
\* EID of the second site, which it registers without authentication, or an EID
\* of its own site.
MCMappings ==
    (e1 :> {[proxy |-> TRUE, auth |-> TRUE, recs |-> <<Rec(<<0, 0>>, <<Loc(1, 1, TRUE)>>)>>],
            [proxy |-> FALSE, auth |-> TRUE,
             recs |-> <<Rec(<<0, 0, 0>>, <<Loc(1, 1, TRUE)>>),
                        Rec(<<0, 0, 1, 1>>, <<Loc(1, 1, FALSE), Loc(2, 1, TRUE)>>)>>]}) @@
    (e2 :> {[proxy |-> TRUE, auth |-> FALSE,
             recs |-> <<Rec(<<0, 1, 1, 0>>, <<Loc(3, 2, TRUE), Loc(3, 1, TRUE)>>)>>],
            [proxy |-> FALSE, auth |-> TRUE,
             recs |-> <<Rec(<<0, 1, 1, 1>>, <<Loc(3, 1, TRUE)>>)>>]})

MCMaxInFlight == (e1 :> 1) @@ (e2 :> 1)

MCHome == (1 :> e1) @@ (2 :> e1) @@ (3 :> e2)

MCReferrals ==
    {[eid |-> <<0, 1, 1>>, act |-> "NODE_REFERRAL", incomplete |-> FALSE,
      locs |-> <<Loc(9, 1, TRUE)>>]}

MCAddresses == {<<0, 0, 1, 1>>, <<0, 1, 1, 0>>}
==============================================================================
