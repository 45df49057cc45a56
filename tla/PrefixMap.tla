----------------------------- MODULE PrefixMap -----------------------------
(***************************************************************************)
(* What a prefix table promises: a map from prefixes to values in which a  *)
(* lookup finds the longest key that includes the prefix looked up.        *)
(***************************************************************************)
EXTENDS Naturals, Sequences, SequencesExt

CONSTANTS Keys, Values, None

VARIABLES
    map,      \* the values of the keys that have one
    answer    \* the last lookup: the prefix asked for and the key found

Init ==
    /\ map = [k \in {} |-> None]
    /\ answer = None

Put(k, v) ==
    /\ map' = [x \in DOMAIN map \cup {k} |-> IF x = k THEN v ELSE map[x]]
    /\ UNCHANGED answer

Drop(k) ==
    /\ k \in DOMAIN map
    /\ map' = [x \in DOMAIN map \ {k} |-> map[x]]
    /\ UNCHANGED answer

Longest(p) ==
    LET found == {k \in DOMAIN map : IsPrefix(k, p)}
    IN  IF found = {} THEN None
        ELSE CHOOSE k \in found : \A j \in found : Len(j) <= Len(k)

Lookup(p) ==
    /\ answer' = [asked |-> p, found |-> Longest(p),
                  exact |-> IF p \in DOMAIN map THEN p ELSE None]
    /\ UNCHANGED map

Next ==
    \E k \in Keys :
        \/ \E v \in Values : Put(k, v)
        \/ Drop(k)
        \/ Lookup(k)

Spec == Init /\ [][Next]_<<map, answer>>
============================================================================
