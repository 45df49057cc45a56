----------------------------- MODULE MCResolver -----------------------------
EXTENDS Resolver

\* Referrals to an EID-prefix and to one outside it; an action without locators,
\* and a referral to an EID-prefix and to a longer one inside; an answer that ends
\* the lookup.
Refer(p) == [act |-> "NODE_REFERRAL", eid |-> p, rlocs |-> 1]
Answer(a) == [act |-> a, eid |-> <<0>>, rlocs |-> 0]

MCAnswers == {<<Refer(<<0>>), Refer(<<1>>)>>,
              <<Answer("MS_NOT_REGISTERED"), Refer(<<0>>), Refer(<<0, 1>>)>>,
              <<Answer("DELEGATION_HOLE")>>}
============================================================================
