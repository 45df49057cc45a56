--------------------------- MODULE DbTable_proofs ---------------------------
(***************************************************************************)
(* What the functions of radix/db_table.c do to a trie, for every width of *)
(* an address and of a byte and for every table.                           *)
(*                                                                         *)
(* The loops of the code are recursive functions in DbTable.  What they    *)
(* compute is proved by induction in the form of the least-number          *)
(* principle (LeastNatural), and that they are defined at all by Iterates. *)
(***************************************************************************)
EXTENDS DbTable, WellFoundedInduction, FiniteSetTheorems, TLAPS

\* Every non-empty set of naturals has a least element.
LEMMA LeastNatural ==
    ASSUME NEW T, T \subseteq Nat, T # {}
    PROVE  \E m \in T : \A k \in T : m <= k
<1>1. PICK m \in T : \A k \in T : <<k, m>> \notin OpToRel(<, Nat)
  BY NatLessThanWellFounded, WFMin
<1>2. ASSUME NEW k \in T PROVE m <= k
  <2>1. <<k, m>> \notin {ss \in Nat \X Nat : ss[1] < ss[2]}
    BY <1>1 DEF OpToRel
  <2> QED  BY <2>1
<1> QED  BY <1>2

\* A bounded one has a greatest.
LEMMA GreatestBounded ==
    ASSUME NEW N \in Nat, NEW T, T \subseteq 0..N, T # {}
    PROVE  \E m \in T : \A k \in T : k <= m
<1> DEFINE mirror == {N - k : k \in T}
<1>1. mirror \subseteq Nat /\ mirror # {}
  OBVIOUS
<1>2. PICK d \in mirror : \A e \in mirror : d <= e
  BY <1>1, LeastNatural
<1>3. PICK m \in T : d = N - m
  BY <1>2
<1>4. ASSUME NEW k \in T PROVE k <= m
  <2>1. N - k \in mirror /\ N - m <= N - k
    BY <1>2, <1>3
  <2> QED  BY <2>1
<1> QED  BY <1>4

\* A set of naturals that holds 0 and every successor of its own holds them all.
LEMMA Induction ==
    ASSUME NEW T, T \subseteq Nat, 0 \in T, \A n \in T : n + 1 \in T
    PROVE  T = Nat
<1>1. SUFFICES ASSUME Nat \ T # {}  PROVE FALSE
  OBVIOUS
<1>2. PICK m \in Nat \ T : \A k \in Nat \ T : m <= k
  BY <1>1, LeastNatural
<1>3. m - 1 \in T /\ (m - 1) + 1 = m
  BY <1>2
<1> QED  BY <1>2, <1>3

\* g holds the values of a loop that starts with x0 and runs N rounds.
IsRun(g, S, x0, step, N) ==
    /\ g \in [0..N -> S]
    /\ g[0] = x0
    /\ \A n \in 1..N : g[n] = step[g[n - 1]]

\* Every loop has its values: this is what makes the recursive functions of
\* DbTable well defined.
LEMMA Iterates ==
    ASSUME NEW S, NEW x0 \in S, NEW step \in [S -> S], NEW N \in Nat
    PROVE  \E g : IsRun(g, S, x0, step, N)
<1> DEFINE Good(g, k) == g[0] = x0 /\ \A n \in 1..k : g[n] = step[g[n - 1]]
           T == {k \in Nat : \E g \in [0..k -> S] : Good(g, k)}
<1>1. 0 \in T
  <2>1. [n \in 0..0 |-> x0] \in [0..0 -> S] /\ Good([n \in 0..0 |-> x0], 0)
    OBVIOUS
  <2> QED  BY <2>1
<1>2. ASSUME NEW k \in T  PROVE k + 1 \in T
  <2>1. k \in Nat  BY <1>2
  <2>2. PICK g \in [0..k -> S] : Good(g, k)  BY <1>2
  <2>3. PICK h : h = [n \in 0..(k + 1) |-> IF n = k + 1 THEN step[g[k]] ELSE g[n]]
    OBVIOUS
  <2>4. h \in [0..(k + 1) -> S]  BY <2>1, <2>3
  <2>5. h[0] = x0  BY <2>1, <2>2, <2>3
  <2>6. ASSUME NEW n \in 1..(k + 1)  PROVE h[n] = step[h[n - 1]]
    <3>1. CASE n = k + 1  BY <2>1, <2>3, <3>1
    <3>2. CASE n \in 1..k  BY <2>1, <2>2, <2>3, <3>2
    <3> QED  BY <2>1, <3>1, <3>2
  <2>7. Good(h, k + 1)  BY <2>5, <2>6
  <2> QED  BY <2>1, <2>4, <2>7
<1>3. T \subseteq Nat
  OBVIOUS
<1> HIDE DEF T
<1>4. T = Nat  BY <1>1, <1>2, <1>3, Induction
<1>5. PICK g \in [0..N -> S] : Good(g, N)  BY <1>4 DEF T
<1> QED  BY <1>5 DEF IsRun

----------------------------------------------------------------------------
(***************************************************************************)
(* Prefixes.                                                               *)
(***************************************************************************)
\* x includes p: what prefix_match is to decide.
Includes(x, p) == Len(x) <= Len(p) /\ \A k \in 1..Len(x) : x[k] = p[k]

\* A prefix is a sequence of bits, and is known by its length and its bits.
LEMMA PrefixShape ==
    ASSUME NEW p \in Prefix
    PROVE  /\ p \in Seq({0, 1})
           /\ Len(p) \in 0..MaxLen /\ Len(p) \in Nat
           /\ \A k \in 1..Len(p) : p[k] \in {0, 1}
<1>1. PICK n \in 0..MaxLen : p \in [1..n -> {0, 1}]  BY DEF Prefix
<1>2. n \in Nat  BY <1>1, DbTableAssumption
<1>3. p \in Seq({0, 1}) /\ Len(p) = n  BY <1>1, <1>2
<1> QED  BY <1>1, <1>2, <1>3

\* Prefixes of equal length and bits are equal.
LEMMA PrefixEqual ==
    ASSUME NEW p \in Prefix, NEW q \in Prefix, Len(p) = Len(q),
           \A k \in 1..Len(p) : p[k] = q[k]
    PROVE  p = q
BY PrefixShape

\* Any sequence of bits that is not too long is one.
LEMMA PrefixIntro ==
    ASSUME NEW p \in Seq({0, 1}), Len(p) <= MaxLen
    PROVE  p \in Prefix
<1>1. Len(p) \in 0..MaxLen  BY DbTableAssumption
<1>2. p \in [1..Len(p) -> {0, 1}]  OBVIOUS
<1> QED  BY <1>1, <1>2 DEF Prefix

\* The start of a prefix.
LEMMA PrefixCut ==
    ASSUME NEW p \in Prefix, NEW n \in 0..Len(p)
    PROVE  /\ SubSeq(p, 1, n) \in Prefix
           /\ Len(SubSeq(p, 1, n)) = n
           /\ \A k \in 1..n : SubSeq(p, 1, n)[k] = p[k]
<1>1. p \in Seq({0, 1}) /\ Len(p) \in 0..MaxLen /\ n \in Nat /\ n <= Len(p)
  BY PrefixShape, DbTableAssumption
<1>2. /\ SubSeq(p, 1, n) \in Seq({0, 1}) /\ Len(SubSeq(p, 1, n)) = n
      /\ \A k \in 1..n : SubSeq(p, 1, n)[k] = p[k]
  BY <1>1
<1>3. n <= MaxLen  BY <1>1, DbTableAssumption
<1> QED  BY <1>2, <1>3, PrefixIntro

\* Inclusion is an order in which two prefixes of one address compare.
LEMMA IncludesOrder ==
    ASSUME NEW x \in Prefix, NEW y \in Prefix, NEW p \in Prefix
    PROVE  /\ Includes(p, p)
           /\ Includes(x, y) /\ Includes(y, p) => Includes(x, p)
           /\ Includes(x, y) /\ Len(x) = Len(y) => x = y
           /\ Includes(x, p) /\ Includes(y, p) /\ Len(x) <= Len(y) => Includes(x, y)
<1>1. /\ Len(x) \in Nat /\ Len(y) \in Nat /\ Len(p) \in Nat
  BY PrefixShape
<1>2. Includes(x, y) /\ Len(x) = Len(y) => x = y
  BY PrefixEqual DEF Includes
<1> QED  BY <1>1, <1>2 DEF Includes

\* The bit of an address inside and past the prefix.
LEMMA BitIs ==
    ASSUME NEW p \in Prefix, NEW i \in Nat
    PROVE  /\ Bit(p, i) \in {0, 1}
           /\ i < Len(p) => Bit(p, i) = p[i + 1]
<1>1. Len(p) \in Nat /\ \A k \in 1..Len(p) : p[k] \in {0, 1}  BY PrefixShape
<1>2. i < Len(p) => i + 1 \in 1..Len(p)  BY <1>1
<1> QED  BY <1>1, <1>2 DEF Bit

\* Bytes: every bit k is one of byte k \div PNBBY.
LEMMA ByteOf ==
    ASSUME NEW k \in Nat
    PROVE  /\ k \div PNBBY \in Nat /\ k % PNBBY \in 0..(PNBBY - 1)
           /\ k = (k \div PNBBY) * PNBBY + (k % PNBBY)
<1>0. PNBBY \in Nat /\ PNBBY > 0  BY DbTableAssumption
<1>1. k \div PNBBY \in Int  BY <1>0
<1>2. k \div PNBBY >= 0  BY <1>0
<1>3. k % PNBBY \in 0..(PNBBY - 1)  BY <1>0
<1>4. k = (k \div PNBBY) * PNBBY + (k % PNBBY)  BY <1>0
<1> QED  BY <1>1, <1>2, <1>3, <1>4

\* The first n bytes are the bits before n * PNBBY.
LEMMA BytesAreBits ==
    ASSUME NEW n \in Nat, NEW x, NEW p
    PROVE  (\A i \in 0..(n - 1) : SameByte(x, p, i))
             <=> (\A k \in 0..(n * PNBBY - 1) : Bit(x, k) = Bit(p, k))
<1>0. PNBBY \in Nat \ {0}  BY DbTableAssumption
<1>1. ASSUME \A i \in 0..(n - 1) : SameByte(x, p, i), NEW k \in 0..(n * PNBBY - 1)
      PROVE  Bit(x, k) = Bit(p, k)
  <2>1. PICK i \in Nat : i = k \div PNBBY  BY ByteOf
  <2>2. PICK r \in 0..(PNBBY - 1) : k = i * PNBBY + r  BY <2>1, ByteOf
  <2>3. i < n
    <3>1. CASE i >= n
      <4>1. i * PNBBY >= n * PNBBY  BY <1>0, <3>1
      <4> QED  BY <1>0, <2>2, <4>1
    <3> QED  BY <3>1
  <2>4. k \in (i * PNBBY)..(i * PNBBY + PNBBY - 1)  BY <1>0, <2>1, <2>2
  <2> QED  BY <1>1, <2>1, <2>3, <2>4 DEF SameByte
<1>2. ASSUME \A k \in 0..(n * PNBBY - 1) : Bit(x, k) = Bit(p, k),
             NEW i \in 0..(n - 1), NEW k \in (i * PNBBY)..(i * PNBBY + PNBBY - 1)
      PROVE  Bit(x, k) = Bit(p, k)
  <2>1. (i + 1) * PNBBY <= n * PNBBY  BY <1>0
  <2>2. (i + 1) * PNBBY = i * PNBBY + PNBBY  BY <1>0
  <2>3. i * PNBBY \in Nat  BY <1>0
  <2>4. k \in 0..(n * PNBBY - 1)  BY <1>0, <2>1, <2>2, <2>3
  <2> QED  BY <1>2, <2>4
<1> QED  BY <1>1, <1>2 DEF SameByte

\* prefix_match (db_table.c 116-142): the bytes and the odd bits it compares are
\* the bits of the node's prefix.
THEOREM PrefixMatchIs ==
    ASSUME NEW x \in Prefix, NEW p \in Prefix
    PROVE  prefix_match(x, p) <=> Includes(x, p)
<1>0. Len(x) \in Nat /\ Len(p) \in Nat /\ PNBBY \in Nat \ {0}
  BY PrefixShape, DbTableAssumption
<1>1. PICK offset \in Nat : offset = Len(x) \div PNBBY  BY <1>0, ByteOf
<1>2. PICK shift \in 0..(PNBBY - 1) : shift = Len(x) % PNBBY  BY <1>0, ByteOf
<1>3. Len(x) = offset * PNBBY + shift  BY <1>0, <1>1, <1>2, ByteOf
<1>4. PICK whole \in Nat : whole = offset * PNBBY  BY <1>0
<1>5. prefix_match(x, p) <=>
         /\ Len(x) <= Len(p)
         /\ \A k \in 0..(shift - 1) : Bit(x, whole + k) = Bit(p, whole + k)
         /\ \A k \in 0..(whole - 1) : Bit(x, k) = Bit(p, k)
  <2>1. prefix_match(x, p) <=>
           /\ Len(x) <= Len(p)
           /\ \A k \in 0..(shift - 1) : Bit(x, whole + k) = Bit(p, whole + k)
           /\ \A i \in 0..(offset - 1) : SameByte(x, p, i)
    BY <1>1, <1>2, <1>4 DEF prefix_match
  <2>2. (\A i \in 0..(offset - 1) : SameByte(x, p, i))
           <=> \A k \in 0..(whole - 1) : Bit(x, k) = Bit(p, k)
    BY <1>4, BytesAreBits
  <2> QED  BY <2>1, <2>2
<1>6. (/\ \A k \in 0..(shift - 1) : Bit(x, whole + k) = Bit(p, whole + k)
       /\ \A k \in 0..(whole - 1) : Bit(x, k) = Bit(p, k))
        <=> \A k \in 0..(Len(x) - 1) : Bit(x, k) = Bit(p, k)
  <2>1. Len(x) = whole + shift /\ shift \in Nat  BY <1>0, <1>2, <1>3, <1>4
  <2>2. ASSUME \A k \in 0..(Len(x) - 1) : Bit(x, k) = Bit(p, k)
        PROVE  /\ \A k \in 0..(shift - 1) : Bit(x, whole + k) = Bit(p, whole + k)
               /\ \A k \in 0..(whole - 1) : Bit(x, k) = Bit(p, k)
    <3>1. \A k \in 0..(shift - 1) : whole + k \in 0..(Len(x) - 1)  BY <2>1
    <3>2. \A k \in 0..(whole - 1) : k \in 0..(Len(x) - 1)  BY <2>1
    <3> QED  BY <2>2, <3>1, <3>2
  <2>3. ASSUME \A k \in 0..(shift - 1) : Bit(x, whole + k) = Bit(p, whole + k),
               \A k \in 0..(whole - 1) : Bit(x, k) = Bit(p, k),
               NEW k \in 0..(Len(x) - 1)
        PROVE  Bit(x, k) = Bit(p, k)
    <3>1. CASE k < whole  BY <2>3, <3>1
    <3>2. CASE k >= whole
      <4>1. PICK j \in 0..(shift - 1) : k = whole + j  BY <2>1, <3>2
      <4> QED  BY <2>3, <4>1
    <3> QED  BY <3>1, <3>2
  <2> QED  BY <2>2, <2>3
<1>7. ASSUME Len(x) <= Len(p)
      PROVE  (\A k \in 0..(Len(x) - 1) : Bit(x, k) = Bit(p, k))
                <=> \A k \in 1..Len(x) : x[k] = p[k]
  <2>1. \A k \in 0..(Len(x) - 1) : Bit(x, k) = x[k + 1] /\ Bit(p, k) = p[k + 1]
    BY <1>0, <1>7, BitIs
  <2>2. \A k \in 1..Len(x) : k - 1 \in 0..(Len(x) - 1) /\ (k - 1) + 1 = k
    BY <1>0
  <2>3. \A k \in 0..(Len(x) - 1) : k + 1 \in 1..Len(x)  BY <1>0
  <2> QED  BY <2>1, <2>2, <2>3
<1> QED  BY <1>5, <1>6, <1>7 DEF Includes

\* route_common (db_table.c 246-276) of a node that does not include p: where the
\* two part.
THEOREM RouteCommonIs ==
    ASSUME NEW x \in Prefix, NEW p \in Prefix, ~Includes(x, p)
    PROVE  LET glue == route_common(x, p)
           IN  /\ glue \in Prefix
               /\ Includes(glue, x) /\ Includes(glue, p) /\ Len(glue) < Len(x)
               /\ Len(glue) < Len(p) => x[Len(glue) + 1] # p[Len(glue) + 1]
<1>0. Len(x) \in Nat /\ Len(p) \in Nat /\ PNBBY \in Nat \ {0}
  BY PrefixShape, DbTableAssumption
<1> DEFINE Same(n) == \A k \in 0..(n - 1) : Bit(x, k) = Bit(p, k)
           whole == {i \in 0..(Len(p) \div PNBBY) : \A j \in 0..(i - 1) : SameByte(x, p, j)}
           bytes == CHOOSE i \in whole : \A j \in whole : j <= i
           lens  == {l \in (bytes * PNBBY)..Len(p) :
                        \A k \in (bytes * PNBBY)..(l - 1) : Bit(x, k) = Bit(p, k)}
           len   == CHOOSE l \in lens : \A m \in lens : m <= l
<1>1. route_common(x, p) = SubSeq(x, 1, len)
  BY DEF route_common
<1>2. PICK top \in Nat : top = Len(p) \div PNBBY  BY <1>0, ByteOf
<1>3. 0 \in whole /\ whole \subseteq 0..top  BY <1>2
<1>4. \E i \in whole : \A j \in whole : j <= i  BY <1>2, <1>3, GreatestBounded
<1>5. bytes \in whole  BY <1>4
<1>6. bytes \in Nat /\ bytes <= top /\ Same(bytes * PNBBY)
  <2>1. PICK n : n = bytes  OBVIOUS
  <2> HIDE DEF bytes
  <2>2. n \in Nat /\ n <= top /\ \A j \in 0..(n - 1) : SameByte(x, p, j)
    BY <1>2, <1>5, <2>1
  <2>3. Same(n * PNBBY)  BY <2>2, BytesAreBits
  <2> QED  BY <2>1, <2>2, <2>3
<1> HIDE DEF whole, bytes
<1>7. PICK start \in Nat : start = bytes * PNBBY  BY <1>0, <1>6
<1>8. start <= Len(p)
  <2>1. bytes * PNBBY <= top * PNBBY  BY <1>0, <1>2, <1>6
  <2>2. PICK r \in 0..(PNBBY - 1) : Len(p) = top * PNBBY + r  BY <1>0, <1>2, ByteOf
  <2> QED  BY <1>0, <1>2, <1>7, <2>1, <2>2
<1>9. lens = {l \in start..Len(p) : \A k \in start..(l - 1) : Bit(x, k) = Bit(p, k)}
  BY <1>7
<1>10. start \in lens /\ lens \subseteq 0..Len(p)  BY <1>0, <1>7, <1>8, <1>9
<1>11. \E l \in lens : \A m \in lens : m <= l  BY <1>0, <1>10, GreatestBounded
<1>12. len \in lens /\ \A m \in lens : m <= len  BY <1>11
<1> HIDE DEF lens, len
<1>13. len \in Nat /\ start <= len /\ len <= Len(p) /\ Same(len)
  <2>1. len \in Nat /\ start <= len /\ len <= Len(p)
        /\ \A k \in start..(len - 1) : Bit(x, k) = Bit(p, k)
    BY <1>0, <1>7, <1>9, <1>12
  <2>2. \A k \in 0..(start - 1) : Bit(x, k) = Bit(p, k)  BY <1>6, <1>7
  <2>3. \A k \in 0..(len - 1) : k \in 0..(start - 1) \/ k \in start..(len - 1)
    BY <1>7, <2>1
  <2> QED  BY <2>1, <2>2, <2>3
<1>14. len < Len(p) => Bit(x, len) # Bit(p, len)
  <2>1. SUFFICES ASSUME len < Len(p), Bit(x, len) = Bit(p, len)  PROVE FALSE
    OBVIOUS
  <2>2. \A k \in start..len : k \in 0..(len - 1) \/ k = len  BY <1>7, <1>13
  <2>3. len + 1 \in lens  BY <1>0, <1>7, <1>9, <1>13, <2>1, <2>2
  <2> QED  BY <1>12, <1>13, <2>3
<1>15. len < Len(x)
  <2>1. SUFFICES ASSUME len >= Len(x)  PROVE FALSE  BY <1>0, <1>13
  <2>2. \A k \in 1..Len(x) : /\ k - 1 \in 0..(len - 1) /\ k - 1 \in Nat
                             /\ k - 1 < Len(x) /\ k - 1 < Len(p) /\ (k - 1) + 1 = k
    BY <1>0, <1>13, <2>1
  <2>3. \A k \in 1..Len(x) : x[k] = p[k]  BY <1>13, <2>2, BitIs
  <2> QED  BY <1>0, <1>13, <2>1, <2>3 DEF Includes
<1>16. PICK glue : glue = route_common(x, p)  OBVIOUS
<1>17. glue \in Prefix /\ Len(glue) = len /\ \A k \in 1..len : glue[k] = x[k]
  BY <1>0, <1>1, <1>13, <1>15, <1>16, PrefixCut
<1>18. \A k \in 1..len : x[k] = p[k]
  <2>1. \A k \in 1..len : /\ k - 1 \in 0..(len - 1) /\ k - 1 \in Nat
                          /\ k - 1 < Len(x) /\ k - 1 < Len(p) /\ (k - 1) + 1 = k
    BY <1>0, <1>13, <1>15
  <2>2. \A k \in 1..len : Bit(x, k - 1) = x[k] /\ Bit(p, k - 1) = p[k]  BY <2>1, BitIs
  <2> QED  BY <1>13, <2>1, <2>2
<1>19. len < Len(p) => x[len + 1] # p[len + 1]
  BY <1>13, <1>14, <1>15, BitIs
<1> QED  BY <1>0, <1>13, <1>15, <1>16, <1>17, <1>18, <1>19 DEF Includes

----------------------------------------------------------------------------
(***************************************************************************)
(* Tables whose nodes are linked as db_table.c intends.                    *)
(***************************************************************************)
Pointer == Prefix \cup {NULL}
Node(Data) == [link : [1..2 -> Pointer], parent : Pointer, info : Data,
               flags : Data, lock : Nat]
Table(Data) == [top : Pointer,
                node : UNION {[D -> Node(Data)] : D \in SUBSET Prefix},
                count : Int]

Up(t, x) == t.node[x].parent
Kid(t, x, b) == t.node[x].link[b]
\* The side of x below a node of length n.
Side(x, n) == check_bit(x, n) + 1

\* A node hangs below its parent, on its own side; the top below nobody.
LinkedUp(t, x) ==
    /\ x = t.top <=> Up(t, x) = NULL
    /\ Up(t, x) # NULL => /\ Up(t, x) \in Nodes(t)
                          /\ Len(Up(t, x)) < Len(x)
                          /\ Includes(Up(t, x), x)
                          /\ Kid(t, Up(t, x), Side(x, Len(Up(t, x)))) = x

\* A child knows its parent and is on its own side.
LinkedDown(t, x) ==
    \A b \in 1..2 : Kid(t, x, b) # NULL =>
        /\ Kid(t, x, b) \in Nodes(t)
        /\ Up(t, Kid(t, x, b)) = x
        /\ Side(Kid(t, x, b), Len(x)) = b

Linked(t) == /\ Nodes(t) \subseteq Prefix
             /\ t.top \in Nodes(t) \cup {NULL}
             /\ \A x \in Nodes(t) : LinkedUp(t, x) /\ LinkedDown(t, x)

\* A side is a side.
LEMMA SideIs ==
    ASSUME NEW x \in Prefix, NEW n \in Nat
    PROVE  Side(x, n) \in 1..2 /\ (n < Len(x) => Side(x, n) = x[n + 1] + 1)
BY BitIs DEF Side, check_bit

\* Two prefixes of one address lie on the same side of a shorter one.
LEMMA SameSide ==
    ASSUME NEW x \in Prefix, NEW y \in Prefix, Includes(x, y), NEW n \in Nat, n < Len(x)
    PROVE  Side(x, n) = Side(y, n)
<1>1. Len(x) \in Nat /\ Len(y) \in Nat /\ Len(x) <= Len(y) /\ n < Len(y)
      /\ n + 1 \in 1..Len(x)
  BY PrefixShape DEF Includes
<1>2. x[n + 1] = y[n + 1]  BY <1>1 DEF Includes
<1> QED  BY <1>1, <1>2, SideIs

\* The top includes every node.
LEMMA TopIncludesAll ==
    ASSUME NEW t, Linked(t), NEW x \in Nodes(t)
    PROVE  t.top \in Nodes(t) /\ Includes(t.top, x)
<1> DEFINE Holds(y) == t.top \in Nodes(t) /\ Includes(t.top, y)
           Bad == {Len(y) : y \in {z \in Nodes(t) : ~Holds(z)}}
<1>0. Nodes(t) \subseteq Prefix  BY DEF Linked
<1>1. SUFFICES ASSUME Bad # {}  PROVE FALSE  OBVIOUS
<1>2. Bad \subseteq Nat  BY <1>0, PrefixShape
<1>3. PICK n \in Bad : \A k \in Bad : n <= k  BY <1>1, <1>2, LeastNatural
<1>4. PICK y \in Nodes(t) : Len(y) = n /\ ~Holds(y)  BY <1>3
<1>5. LinkedUp(t, y)  BY DEF Linked
<1>6. CASE Up(t, y) = NULL
  BY <1>0, <1>4, <1>5, <1>6, IncludesOrder DEF LinkedUp
<1>7. CASE Up(t, y) # NULL
  <2>1. PICK u \in Nodes(t) : u = Up(t, y) /\ Len(u) < Len(y) /\ Includes(u, y)
    BY <1>5, <1>7 DEF LinkedUp
  <2>2. Len(u) \in Nat /\ Len(y) \in Nat  BY <1>0, PrefixShape
  <2>3. Holds(u)
    <3>1. CASE Len(u) \in Bad  BY <1>3, <1>4, <2>1, <2>2, <3>1
    <3> QED  BY <3>1
  <2>4. Includes(t.top, y)  BY <1>0, <2>1, <2>3, IncludesOrder
  <2> QED  BY <1>4, <2>3, <2>4
<1> QED  BY <1>6, <1>7

\* Below node m, on the side of x, there is the next node on the way to x.
LEMMA NextOnWay ==
    ASSUME NEW t, Linked(t), NEW m0 \in Nodes(t), NEW x0 \in Nodes(t),
           Includes(m0, x0), m0 # x0
    PROVE  /\ Kid(t, m0, Side(x0, Len(m0))) \in Nodes(t)
           /\ Includes(Kid(t, m0, Side(x0, Len(m0))), x0)
<1> DEFINE Next(m, x) == Kid(t, m, Side(x, Len(m)))
           Holds(m, x) == Includes(m, x) /\ m # x =>
                             Next(m, x) \in Nodes(t) /\ Includes(Next(m, x), x)
           Bad == {Len(y) : y \in {x \in Nodes(t) : \E m \in Nodes(t) : ~Holds(m, x)}}
<1>0. Nodes(t) \subseteq Prefix  BY DEF Linked
<1>1. SUFFICES ASSUME Bad # {}  PROVE FALSE  OBVIOUS
<1>2. Bad \subseteq Nat  BY <1>0, PrefixShape
<1>3. PICK n \in Bad : \A k \in Bad : n <= k  BY <1>1, <1>2, LeastNatural
<1>4. PICK x \in Nodes(t), m \in Nodes(t) : Len(x) = n /\ ~Holds(m, x)  BY <1>3
<1>5. Includes(m, x) /\ m # x /\ ~(Next(m, x) \in Nodes(t) /\ Includes(Next(m, x), x))
  BY <1>4
<1>6. ASSUME NEW y \in Nodes(t), Len(y) < Len(x), NEW k \in Nodes(t)  PROVE Holds(k, y)
  <2>1. Len(y) \in Nat /\ Len(x) \in Nat  BY <1>0, PrefixShape
  <2>2. CASE Len(y) \in Bad  BY <1>3, <1>4, <1>6, <2>1, <2>2
  <2> QED  BY <2>2
<1>7. Len(m) \in Nat /\ Len(x) \in Nat /\ Len(m) < Len(x)
  <2>1. Len(m) \in Nat /\ Len(x) \in Nat /\ Len(m) <= Len(x)
    BY <1>0, <1>5, PrefixShape DEF Includes
  <2>2. Len(m) # Len(x)  BY <1>0, <1>5, IncludesOrder
  <2> QED  BY <2>1, <2>2
<1>8. x # t.top
  <2>1. CASE x = t.top
    <3>1. Includes(x, m)  BY <2>1, TopIncludesAll
    <3>2. Len(x) <= Len(m)  BY <3>1 DEF Includes
    <3> QED  BY <1>7, <3>2
  <2> QED  BY <2>1
<1>9. PICK u \in Nodes(t) : /\ Len(u) < Len(x) /\ Includes(u, x)
                            /\ Next(u, x) = x
  BY <1>8 DEF Linked, LinkedUp
<1>10. Len(u) \in Nat  BY <1>0, PrefixShape
<1>11. CASE u = m
  BY <1>0, <1>5, <1>9, <1>11, IncludesOrder
<1>12. CASE Len(m) < Len(u)
  <2>1. Includes(m, u) /\ m # u
    BY <1>0, <1>5, <1>7, <1>9, <1>10, <1>12, IncludesOrder
  <2>2. Next(m, u) \in Nodes(t) /\ Includes(Next(m, u), u)  BY <1>6, <1>9, <2>1
  <2>3. Side(u, Len(m)) = Side(x, Len(m))
    BY <1>0, <1>7, <1>9, <1>12, SameSide
  <2>4. Includes(Next(m, x), x)
    BY <1>0, <1>9, <2>2, <2>3, IncludesOrder
  <2> QED  BY <1>5, <2>2, <2>3, <2>4
<1>13. CASE Len(u) < Len(m)
  <2>1. Includes(u, m) /\ u # m
    BY <1>0, <1>5, <1>7, <1>9, <1>10, <1>13, IncludesOrder
  <2>2. Next(u, m) \in Nodes(t) /\ Includes(Next(u, m), m)  BY <1>6, <1>7, <2>1
  <2>3. Side(m, Len(u)) = Side(x, Len(u))
    BY <1>0, <1>5, <1>10, <1>13, SameSide
  <2>4. Includes(x, m)  BY <1>9, <2>2, <2>3
  <2> QED  BY <1>7, <2>4 DEF Includes
<1>14. CASE Len(u) = Len(m)
  <2>1. u = m
    BY <1>0, <1>5, <1>7, <1>9, <1>14, IncludesOrder
  <2> QED  BY <1>11, <2>1
<1> QED  BY <1>7, <1>10, <1>12, <1>13, <1>14

----------------------------------------------------------------------------
(***************************************************************************)
(* The walk from the top (db_table.c 337-344 and the other lookups).       *)
(***************************************************************************)
\* The condition of the loop.
LEMMA CoversIs ==
    ASSUME NEW t, NEW p \in Prefix, NEW x \in Pointer
    PROVE  Covers(t, x, p) <=> x \in Prefix /\ Includes(x, p)
<1>1. NULL \notin Prefix  BY DbTableAssumption, Zenon
<1> QED  BY <1>1, PrefixMatchIs DEF Covers, Includes, Pointer

\* One round of the loop.
Moved(t, p, stop, x) == IF Covers(t, x, p) /\ x # stop
                        THEN Kid(t, x, Side(p, Len(x))) ELSE x

\* A round stays among the nodes.
LEMMA MovedTyped ==
    ASSUME NEW t, Linked(t), NEW p \in Prefix, NEW stop, NEW x \in Nodes(t) \cup {NULL}
    PROVE  Moved(t, p, stop, x) \in Nodes(t) \cup {NULL}
<1>1. CASE Covers(t, x, p) /\ x # stop
  <2>1. x \in Nodes(t) /\ x \in Prefix  BY <1>1 DEF Covers, Linked
  <2>2. Side(p, Len(x)) \in 1..2  BY <2>1, SideIs, PrefixShape
  <2>3. LinkedDown(t, x)  BY <2>1 DEF Linked
  <2> QED  BY <1>1, <2>2, <2>3 DEF LinkedDown, Moved
<1>2. CASE ~(Covers(t, x, p) /\ x # stop)  BY <1>2 DEF Moved
<1> QED  BY <1>1, <1>2

\* The walk is its rounds, one after the other.
LEMMA WalkUnfolds ==
    ASSUME NEW t, Linked(t), NEW p \in Prefix, NEW stop
    PROVE  LET w == Walk(t, p, stop)
           IN  /\ w \in [0..(MaxLen + 1) -> Nodes(t) \cup {NULL}]
               /\ w[0] = t.top
               /\ \A n \in 1..(MaxLen + 1) : w[n] = Moved(t, p, stop, w[n - 1])
<1>0. MaxLen + 1 \in Nat  BY DbTableAssumption
<1> DEFINE move(x) == IF Covers(t, x, p) /\ x # stop
                      THEN t.node[x].link[check_bit(p, Len(x)) + 1] ELSE x
           Is(at) == at = [n \in 0..(MaxLen + 1) |-> IF n = 0 THEN t.top ELSE move(at[n - 1])]
<1>1. \A x : move(x) = Moved(t, p, stop, x)
  BY DEF Moved, Kid, Side
<1> HIDE DEF move
<1>2. PICK S, step : /\ S = Nodes(t) \cup {NULL}
                     /\ step = [x \in S |-> Moved(t, p, stop, x)]
  OBVIOUS
<1>3. PICK g \in [0..(MaxLen + 1) -> S] :
         g[0] = t.top /\ \A n \in 1..(MaxLen + 1) : g[n] = step[g[n - 1]]
  <2>1. PICK N \in Nat : N = MaxLen + 1  BY <1>0
  <2>2. PICK x0 : x0 = t.top  OBVIOUS
  <2>3. step \in [S -> S] /\ x0 \in S  BY <1>2, <2>2, MovedTyped DEF Linked
  <2>4. PICK g : IsRun(g, S, x0, step, N)  BY <2>3, Iterates
  <2>5. g \in [0..N -> S] /\ g[0] = x0 /\ \A n \in 1..N : g[n] = step[g[n - 1]]
    BY <2>4 DEF IsRun
  <2> QED  BY <2>1, <2>2, <2>5
<1>4. \A n \in 1..(MaxLen + 1) : g[n] = move(g[n - 1])
  <2>1. \A n \in 1..(MaxLen + 1) : g[n - 1] \in S  BY <1>0, <1>3
  <2> QED  BY <1>1, <1>2, <1>3, <2>1
<1>5. Is(g)  BY <1>0, <1>3, <1>4
<1>6. Walk(t, p, stop) = CHOOSE at : Is(at)  BY DEF Walk, move
<1>7. Is(Walk(t, p, stop))  BY <1>5, <1>6
<1>8. PICK w : w = Walk(t, p, stop)  OBVIOUS
<1>9. /\ w[0] = t.top
      /\ \A n \in 1..(MaxLen + 1) : w[n] = move(w[n - 1])
      /\ w = [n \in 0..(MaxLen + 1) |-> w[n]]
  BY <1>0, <1>7, <1>8
<1> DEFINE T == {n \in Nat : n <= MaxLen + 1 => w[n] \in S}
<1>10. T = Nat
  <2>1. 0 \in T  BY <1>2, <1>9 DEF Linked
  <2>2. ASSUME NEW n \in T  PROVE n + 1 \in T
    <3>1. CASE n + 1 <= MaxLen + 1
      <4>1. w[n] \in S /\ n + 1 \in 1..(MaxLen + 1) /\ (n + 1) - 1 = n
        BY <1>0, <2>2, <3>1
      <4>2. w[n + 1] = Moved(t, p, stop, w[n])  BY <1>1, <1>9, <4>1
      <4>3. w[n + 1] \in S  BY <1>2, <4>1, <4>2, MovedTyped
      <4> QED  BY <2>2, <4>3
    <3> QED  BY <1>0, <2>2, <3>1
  <2>3. T \subseteq Nat  OBVIOUS
  <2> HIDE DEF T
  <2> QED  BY <2>1, <2>2, <2>3, Induction
<1>11. \A n \in 0..(MaxLen + 1) : w[n] \in S  BY <1>0, <1>10
<1>12. w \in [0..(MaxLen + 1) -> S]  BY <1>9, <1>11
<1> QED  BY <1>1, <1>2, <1>8, <1>9, <1>12

\* The walk to p meets every node that includes p: x after at most Len(x) rounds.
LEMMA WalkMeets ==
    ASSUME NEW t, Linked(t), NEW p \in Prefix, NEW stop \in {NULL, p},
           NEW x0 \in Nodes(t), Includes(x0, p)
    PROVE  \E n \in 0..Len(x0) : Walk(t, p, stop)[n] = x0
<1> DEFINE Holds(x) == \E n \in 0..Len(x) : Walk(t, p, stop)[n] = x
           Bad == {Len(y) : y \in {z \in Nodes(t) : Includes(z, p) /\ ~Holds(z)}}
<1>0. Nodes(t) \subseteq Prefix /\ NULL \notin Prefix
  BY DbTableAssumption, Zenon DEF Linked
<1>1. SUFFICES ASSUME Bad # {}  PROVE FALSE  OBVIOUS
<1>2. Bad \subseteq Nat  BY <1>0, PrefixShape
<1>3. PICK n \in Bad : \A k \in Bad : n <= k  BY <1>1, <1>2, LeastNatural
<1>4. PICK x \in Nodes(t) : Len(x) = n /\ Includes(x, p) /\ ~Holds(x)  BY <1>3
<1>5. Len(x) \in Nat /\ Len(x) <= MaxLen /\ Len(x) <= Len(p)
  BY <1>0, <1>4, PrefixShape, DbTableAssumption DEF Includes
<1>6. CASE x = t.top
  <2>1. Walk(t, p, stop)[0] = x  BY <1>6, WalkUnfolds
  <2> QED  BY <1>4, <1>5, <2>1
<1>7. CASE x # t.top
  <2>1. PICK u \in Nodes(t) : /\ Len(u) < Len(x) /\ Includes(u, x)
                              /\ Kid(t, u, Side(x, Len(u))) = x
    BY <1>7 DEF Linked, LinkedUp
  <2>2. Len(u) \in Nat  BY <1>0, PrefixShape
  <2>3. Includes(u, p)  BY <1>0, <1>4, <2>1, IncludesOrder
  <2>4. Holds(u)
    <3>1. CASE Len(u) \in Bad  BY <1>3, <1>4, <1>5, <2>1, <2>2, <3>1
    <3> QED  BY <2>3, <3>1
  <2>5. PICK k \in 0..Len(u) : Walk(t, p, stop)[k] = u  BY <2>4
  <2>6. k + 1 \in 1..(MaxLen + 1) /\ (k + 1) - 1 = k /\ k + 1 \in 0..Len(x)
    BY <1>5, <2>1, <2>2, DbTableAssumption
  <2>7. Walk(t, p, stop)[k + 1] = Moved(t, p, stop, u)
    BY <2>5, <2>6, WalkUnfolds
  <2>8. Covers(t, u, p)  BY <1>0, <2>3, CoversIs DEF Pointer
  <2>9. u # stop
    <3>1. u # NULL  BY <1>0
    <3>2. u # p  BY <1>5, <2>1, <2>2
    <3> QED  BY <3>1, <3>2
  <2>10. Side(p, Len(u)) = Side(x, Len(u))  BY <1>0, <1>4, <2>1, <2>2, SameSide
  <2>11. Walk(t, p, stop)[k + 1] = x
    BY <2>1, <2>7, <2>8, <2>9, <2>10 DEF Moved
  <2> QED  BY <1>4, <2>6, <2>11
<1> QED  BY <1>6, <1>7

\* What a lookup visits: the nodes that include p, and no others.
LEMMA VisitedIs ==
    ASSUME NEW t, Linked(t), NEW p \in Prefix
    PROVE  Visited(t, p) = {x \in Nodes(t) : Includes(x, p)}
<1>0. Nodes(t) \subseteq Prefix /\ NULL \notin Prefix
  BY DbTableAssumption, Zenon DEF Linked
<1>1. PICK w : w = Walk(t, p, NULL)  OBVIOUS
<1>2. w \in [0..(MaxLen + 1) -> Nodes(t) \cup {NULL}]  BY <1>1, WalkUnfolds
<1>3. Visited(t, p) = {x \in {w[n] : n \in 0..(MaxLen + 1)} : Covers(t, x, p)}
  BY <1>1 DEF Visited
<1>4. ASSUME NEW x \in Visited(t, p)  PROVE x \in Nodes(t) /\ Includes(x, p)
  <2>1. x \in Nodes(t) \cup {NULL} /\ Covers(t, x, p)  BY <1>2, <1>3, <1>4
  <2> QED  BY <1>0, <2>1, CoversIs DEF Pointer
<1>5. ASSUME NEW x \in Nodes(t), Includes(x, p)  PROVE x \in Visited(t, p)
  <2>1. PICK n \in 0..Len(x) : w[n] = x  BY <1>1, <1>5, WalkMeets
  <2>2. Len(x) \in 0..MaxLen  BY <1>0, PrefixShape
  <2>3. n \in 0..(MaxLen + 1)  BY <2>1, <2>2, DbTableAssumption
  <2>4. Covers(t, x, p)  BY <1>0, <1>5, CoversIs DEF Pointer
  <2> QED  BY <1>3, <2>1, <2>3, <2>4
<1> QED  BY <1>4, <1>5

\* The last node of a walk.
LEMMA LastIs ==
    ASSUME NEW p \in Prefix, NEW S, S \subseteq {x \in Prefix : Includes(x, p)}
    PROVE  /\ S = {} => Last(S) = NULL
           /\ S # {} => Last(S) \in S /\ \A y \in S : Includes(y, Last(S))
<1>1. ASSUME S # {}  PROVE \E x \in S : \A y \in S : Len(y) <= Len(x)
  <2> DEFINE lens == {Len(x) : x \in S}
  <2>1. lens \subseteq 0..MaxLen /\ lens # {} /\ MaxLen \in Nat
    BY <1>1, PrefixShape, DbTableAssumption
  <2>2. PICK m \in lens : \A k \in lens : k <= m  BY <2>1, GreatestBounded
  <2> QED  BY <2>2
<1>2. ASSUME S # {}  PROVE Last(S) \in S /\ \A y \in S : Len(y) <= Len(Last(S))
  BY <1>1, <1>2 DEF Last
<1>3. S # {} => \A y \in S : Includes(y, Last(S))  BY <1>2, IncludesOrder
<1> QED  BY <1>2, <1>3 DEF Last

\* Where the loop of db_node_get (db_table.c 440-449) stops, and how it got there.
LEMMA WalkEnds ==
    ASSUME NEW t, Linked(t), NEW p \in Prefix
    PROVE  LET node == Walk(t, p, p)[MaxLen + 1]
           IN  /\ node \in Nodes(t) \cup {NULL}
               /\ node = NULL \/ node = p \/ ~Includes(node, p)
               /\ \/ node = t.top
                  \/ \E m \in Nodes(t) : /\ Includes(m, p) /\ m # p
                                         /\ node = Kid(t, m, Side(p, Len(m)))
<1>0. Nodes(t) \subseteq Prefix /\ NULL \notin Prefix
  BY DbTableAssumption, Zenon DEF Linked
<1>1. PICK N \in Nat : N = MaxLen + 1  BY DbTableAssumption
<1>2. PICK w : w = Walk(t, p, p)  OBVIOUS
<1>3. /\ w \in [0..N -> Nodes(t) \cup {NULL}] /\ w[0] = t.top
      /\ \A n \in 1..N : w[n] = Moved(t, p, p, w[n - 1])
  BY <1>1, <1>2, WalkUnfolds
<1> DEFINE Goes(x) == x \in Nodes(t) /\ Includes(x, p) /\ x # p
           Origin(x) == \/ x = t.top
                        \/ \E m \in Nodes(t) : /\ Includes(m, p) /\ m # p
                                               /\ x = Kid(t, m, Side(p, Len(m)))
           T == {n \in Nat : n <= N => /\ Goes(w[n]) => Len(w[n]) >= n
                                       /\ Origin(w[n])}
<1>4. ASSUME NEW x \in Nodes(t) \cup {NULL}
      PROVE  Moved(t, p, p, x) = IF Goes(x) THEN Kid(t, x, Side(p, Len(x))) ELSE x
  BY <1>0, CoversIs DEF Moved, Pointer
<1>5. 0 \in T
  <2>1. Goes(w[0]) => Len(w[0]) >= 0  BY <1>0, PrefixShape
  <2> QED  BY <1>1, <1>3, <2>1
<1>6. ASSUME NEW n \in T  PROVE n + 1 \in T
  <2>1. n \in Nat /\ (n <= N => (Goes(w[n]) => Len(w[n]) >= n) /\ Origin(w[n]))
    BY <1>6
  <2>2. CASE n + 1 <= N
    <3>1. /\ n + 1 \in 1..N /\ (n + 1) - 1 = n /\ n \in 0..N /\ n <= N /\ n + 1 \in 0..N
      BY <2>1, <2>2
    <3>2. PICK x \in Nodes(t) \cup {NULL} : x = w[n]  BY <1>3, <3>1
    <3>3. PICK y \in Nodes(t) \cup {NULL} : y = w[n + 1]  BY <1>3, <3>1
    <3>4. y = IF Goes(x) THEN Kid(t, x, Side(p, Len(x))) ELSE x
      BY <1>3, <1>4, <3>1, <3>2, <3>3
    <3>5. Origin(y)  BY <2>1, <3>1, <3>2, <3>4
    <3>6. ASSUME Goes(y)  PROVE Len(y) >= n + 1
      <4>1. Goes(x)  BY <3>4, <3>6
      <4>2. y \in Nodes(t) /\ y # NULL /\ Len(y) \in Nat /\ Len(x) \in Nat
        BY <1>0, <3>6, <4>1, PrefixShape
      <4>3. Side(p, Len(x)) \in 1..2  BY <4>2, SideIs
      <4>4. LinkedDown(t, x) /\ LinkedUp(t, y)  BY <4>1, <4>2 DEF Linked
      <4>5. Up(t, y) = x  BY <3>4, <4>1, <4>2, <4>3, <4>4 DEF LinkedDown
      <4>6. Len(x) < Len(y)  BY <1>0, <4>1, <4>4, <4>5 DEF LinkedUp
      <4>7. Len(x) >= n  BY <2>1, <3>1, <3>2, <4>1
      <4> QED  BY <2>1, <4>2, <4>6, <4>7
    <3> QED  BY <2>1, <3>3, <3>5, <3>6
  <2> QED  BY <1>1, <2>1, <2>2
<1>7. T = Nat
  <2>1. T \subseteq Nat  OBVIOUS
  <2> HIDE DEF T
  <2> QED  BY <1>5, <1>6, <2>1, Induction
<1>8. (Goes(w[N]) => Len(w[N]) >= N) /\ Origin(w[N])  BY <1>1, <1>7
<1>9. w[N] \in Nodes(t) \cup {NULL}  BY <1>1, <1>3
<1>10. ~Goes(w[N])
  <2>1. ASSUME Goes(w[N])  PROVE FALSE
    <3>1. Len(w[N]) \in 0..MaxLen  BY <1>0, <2>1, PrefixShape
    <3> QED  BY <1>1, <1>8, <2>1, <3>1, DbTableAssumption
  <2> QED  BY <2>1
<1> QED  BY <1>1, <1>2, <1>8, <1>9, <1>10

\* What db_node_get has found when its loop ends: the node of p, or else the
\* last node that includes p (or none) and what hangs below it on p's side.
LEMMA GetFinds ==
    ASSUME NEW t, Linked(t), NEW p \in Prefix
    PROVE  LET node  == Walk(t, p, p)[MaxLen + 1]
               match == Last(Visited(t, p) \ {p})
           IN  /\ node \in Nodes(t) \cup {NULL}
               /\ p \in Nodes(t) <=> node = p
               /\ p \notin Nodes(t) => node = NULL \/ ~Includes(node, p)
               /\ p \notin Nodes(t) /\ match = NULL => node = t.top
               /\ p \notin Nodes(t) /\ match # NULL =>
                     /\ match \in Nodes(t) /\ Includes(match, p) /\ Len(match) < Len(p)
                     /\ node = Kid(t, match, Side(p, Len(match)))
<1>0. Nodes(t) \subseteq Prefix /\ NULL \notin Prefix
  BY DbTableAssumption, Zenon DEF Linked
<1>1. PICK node, match : /\ node = Walk(t, p, p)[MaxLen + 1]
                         /\ match = Last(Visited(t, p) \ {p})
  OBVIOUS
<1> DEFINE S == {x \in Nodes(t) : Includes(x, p)} \ {p}
<1>2. /\ node \in Nodes(t) \cup {NULL}
      /\ node = NULL \/ node = p \/ ~Includes(node, p)
      /\ \/ node = t.top
         \/ \E m \in S : node = Kid(t, m, Side(p, Len(m)))
  BY <1>1, WalkEnds
<1>3. /\ S = {} => match = NULL
      /\ S # {} => match \in S /\ \A y \in S : Includes(y, match)
  <2>1. match = Last(S)  BY <1>1, VisitedIs
  <2>2. S \subseteq {x \in Prefix : Includes(x, p)}  BY <1>0
  <2> HIDE DEF S
  <2> QED  BY <2>1, <2>2, LastIs
<1>4. p \in Nodes(t) => node = p
  <2>1. SUFFICES ASSUME p \in Nodes(t)  PROVE node = p  OBVIOUS
  <2>2. CASE node = t.top
    <3>1. t.top \in Nodes(t) /\ Includes(t.top, p)  BY <2>1, TopIncludesAll
    <3> QED  BY <1>0, <1>2, <2>2, <3>1
  <2>3. ASSUME NEW m \in S, node = Kid(t, m, Side(p, Len(m)))  PROVE node = p
    <3>1. node \in Nodes(t) /\ Includes(node, p)  BY <2>1, <2>3, NextOnWay
    <3> QED  BY <1>0, <1>2, <3>1
  <2> QED  BY <1>2, <2>2, <2>3
<1>5. node = p => p \in Nodes(t)  BY <1>0, <1>2
<1>6. ASSUME p \notin Nodes(t), match = NULL  PROVE node = t.top
  <2>1. S = {}  BY <1>0, <1>3, <1>6
  <2> QED  BY <1>2, <2>1
<1>7. ASSUME p \notin Nodes(t), match # NULL
      PROVE  /\ match \in Nodes(t) /\ Includes(match, p) /\ Len(match) < Len(p)
             /\ node = Kid(t, match, Side(p, Len(match)))
  <2>1. match \in S /\ \A y \in S : Includes(y, match)  BY <1>3, <1>7
  <2>2. match \in Nodes(t) /\ Includes(match, p) /\ match # p  BY <2>1
  <2>3. Len(match) < Len(p) /\ Len(match) \in Nat /\ Len(p) \in Nat
    <3>1. Len(match) # Len(p)  BY <1>0, <2>2, IncludesOrder
    <3>2. Len(match) <= Len(p)  BY <2>2 DEF Includes
    <3> QED  BY <1>0, <2>2, <3>1, <3>2, PrefixShape
  <2>4. node # p  BY <1>5, <1>7
  <2>5. CASE node = t.top
    <3>1. t.top \in Nodes(t) /\ Includes(t.top, match)  BY <2>2, TopIncludesAll
    <3>2. Includes(t.top, p)  BY <1>0, <2>2, <3>1, IncludesOrder
    <3> QED  BY <1>0, <1>2, <2>4, <2>5, <3>1, <3>2
  <2>6. ASSUME NEW m \in S, node = Kid(t, m, Side(p, Len(m)))
        PROVE  node = Kid(t, match, Side(p, Len(match)))
    <3>1. Includes(m, match) /\ m \in Nodes(t)  BY <2>1
    <3>2. CASE m # match
      <4>1. /\ Kid(t, m, Side(match, Len(m))) \in Nodes(t)
            /\ Includes(Kid(t, m, Side(match, Len(m))), match)
        BY <2>2, <3>1, <3>2, NextOnWay
      <4>2. Len(m) \in Nat /\ Len(m) < Len(match)
        <5>1. Len(m) # Len(match)  BY <1>0, <2>2, <3>1, <3>2, IncludesOrder
        <5>2. Len(m) <= Len(match)  BY <3>1 DEF Includes
        <5> QED  BY <1>0, <2>3, <3>1, <5>1, <5>2, PrefixShape
      <4>3. Side(match, Len(m)) = Side(p, Len(m))  BY <1>0, <2>2, <4>2, SameSide
      <4>4. node \in Nodes(t) /\ Includes(node, match)  BY <2>6, <4>1, <4>3
      <4>5. Includes(node, p)  BY <1>0, <2>2, <4>4, IncludesOrder
      <4> QED  BY <1>0, <1>2, <2>4, <4>4, <4>5
    <3> QED  BY <2>6, <3>2
  <2> QED  BY <1>2, <2>2, <2>3, <2>5, <2>6
<1>8. p \notin Nodes(t) => node = NULL \/ ~Includes(node, p)  BY <1>2, <1>5
<1> QED  BY <1>1, <1>2, <1>4, <1>5, <1>6, <1>7, <1>8

----------------------------------------------------------------------------
\* No node lies between a node and its parent.
LEMMA ParentIsNext ==
    ASSUME NEW t, Linked(t), NEW x \in Nodes(t), NEW root \in Nodes(t),
           Includes(root, x), root # x
    PROVE  Up(t, x) \in Nodes(t) /\ Includes(root, Up(t, x)) /\ Len(Up(t, x)) < Len(x)
<1>0. Nodes(t) \subseteq Prefix /\ NULL \notin Prefix
  BY DbTableAssumption, Zenon DEF Linked
<1>1. LinkedUp(t, x)  BY DEF Linked
<1>2. Up(t, x) # NULL
  <2>1. SUFFICES ASSUME x = t.top  PROVE FALSE
    BY <1>1 DEF LinkedUp
  <2>2. Includes(x, root)  BY <2>1, TopIncludesAll
  <2>3. Len(x) \in Nat /\ Len(root) \in Nat  BY <1>0, PrefixShape
  <2>4. Len(x) = Len(root)  BY <2>2, <2>3 DEF Includes
  <2> QED  BY <1>0, <2>4, IncludesOrder
<1>3. PICK u \in Nodes(t) : /\ u = Up(t, x) /\ Len(u) < Len(x) /\ Includes(u, x)
                            /\ Kid(t, u, Side(x, Len(u))) = x
  BY <1>1, <1>2 DEF LinkedUp
<1>4. Len(u) \in Nat /\ Len(root) \in Nat /\ Len(x) \in Nat  BY <1>0, PrefixShape
<1>5. CASE Len(root) <= Len(u)
  <2>1. Includes(root, u)  BY <1>0, <1>3, <1>5, IncludesOrder
  <2> QED  BY <1>3, <2>1
<1>6. CASE Len(u) < Len(root)
  <2>1. Includes(u, root)  BY <1>0, <1>3, <1>4, <1>6, IncludesOrder
  <2>2. u # root  BY <1>4, <1>6
  <2>3. Includes(Kid(t, u, Side(root, Len(u))), root)  BY <2>1, <2>2, NextOnWay
  <2>4. Side(root, Len(u)) = Side(x, Len(u))  BY <1>0, <1>4, <1>6, SameSide
  <2>5. Includes(x, root)  BY <1>3, <2>3, <2>4
  <2>6. Len(x) = Len(root)  BY <1>4, <2>5 DEF Includes
  <2> QED  BY <1>0, <2>6, IncludesOrder
<1> QED  BY <1>4, <1>5, <1>6

\* What is reached from root over links: the nodes that root includes.
LEMMA SubtreeBelow ==
    ASSUME NEW t, Linked(t), NEW root \in Nodes(t) \cup {NULL}
    PROVE  Subtree(t, root) = {y \in Nodes(t) : root # NULL /\ Includes(root, y)}
<1>0. Nodes(t) \subseteq Prefix /\ NULL \notin Prefix /\ MaxLen \in Nat
  BY DbTableAssumption, Zenon DEF Linked
<1> DEFINE grow(A) == A \cup ({t.node[y].link[b] : y \in A, b \in 1..2} \ {NULL})
           Is(f) == f = [n \in 0..MaxLen |-> IF n = 0 THEN {root} \ {NULL} ELSE grow(f[n - 1])]
           B == {y \in Nodes(t) : root # NULL /\ Includes(root, y)}
<1>1. ASSUME NEW A \in SUBSET B
      PROVE  /\ grow(A) \in SUBSET B /\ A \subseteq grow(A)
             /\ \A y \in A, b \in 1..2 : Kid(t, y, b) # NULL => Kid(t, y, b) \in grow(A)
  <2>1. ASSUME NEW y \in A, NEW b \in 1..2, Kid(t, y, b) # NULL
        PROVE  Kid(t, y, b) \in B
    <3>1. y \in Nodes(t) /\ root \in Nodes(t) /\ Includes(root, y)  OBVIOUS
    <3>2. PICK c \in Nodes(t) : c = Kid(t, y, b) /\ Up(t, c) = y
      BY <2>1, <3>1 DEF Linked, LinkedDown
    <3>3. Includes(y, c)  BY <1>0, <3>1, <3>2 DEF Linked, LinkedUp
    <3>4. Includes(root, c)  BY <1>0, <3>1, <3>3, IncludesOrder
    <3> QED  BY <3>1, <3>2, <3>4
  <2> QED  BY <2>1 DEF Kid
<1> HIDE DEF grow
<1>2. PICK S, step, x0 : /\ S = SUBSET B
                         /\ step = [A \in S |-> grow(A)]
                         /\ x0 = {root} \ {NULL}
  OBVIOUS
<1>3. step \in [S -> S] /\ x0 \in S
  <2>1. step \in [S -> S]  BY <1>1, <1>2
  <2>2. root # NULL => root \in B  BY <1>0, IncludesOrder
  <2> QED  BY <1>2, <2>1, <2>2
<1>4. PICK g : IsRun(g, S, x0, step, MaxLen)  BY <1>0, <1>3, Iterates
<1>5. g \in [0..MaxLen -> S] /\ g[0] = x0 /\ \A n \in 1..MaxLen : g[n] = step[g[n - 1]]
  BY <1>4 DEF IsRun
<1>6. \A n \in 1..MaxLen : g[n] = grow(g[n - 1])
  <2>1. \A n \in 1..MaxLen : g[n - 1] \in S  BY <1>0, <1>5
  <2> QED  BY <1>2, <1>5, <2>1
<1>7. Is(g)  BY <1>0, <1>2, <1>5, <1>6
<1>8. Subtree(t, root) = (CHOOSE f : Is(f))[MaxLen]  BY DEF Subtree, grow
<1>9. PICK f : f = CHOOSE h : Is(h)  OBVIOUS
<1>10. Is(f)  BY <1>7, <1>9
<1>11. f[0] = x0 /\ \A n \in 1..MaxLen : f[n] = grow(f[n - 1])
  <2>1. f = [n \in 0..MaxLen |-> IF n = 0 THEN x0 ELSE grow(f[n - 1])]
    BY <1>2, <1>10, Zenon
  <2> QED  BY <1>0, <2>1
<1> DEFINE T == {n \in Nat : n <= MaxLen =>
                    /\ f[n] \in SUBSET B
                    /\ root # NULL => root \in f[n]
                    /\ \A x \in B : Len(x) <= n => x \in f[n]}
<1>12. 0 \in T
  <2>1. ASSUME NEW x \in B, Len(x) <= 0  PROVE x = root
    <3>1. Includes(root, x) /\ root \in Nodes(t) /\ x \in Nodes(t)  OBVIOUS
    <3>2. Len(root) \in Nat /\ Len(x) \in Nat /\ Len(root) <= Len(x)
      BY <1>0, <3>1, PrefixShape DEF Includes
    <3>3. Len(root) = Len(x)  BY <2>1, <3>2
    <3> QED  BY <1>0, <3>1, <3>3, IncludesOrder
  <2>2. f[0] \in SUBSET B  BY <1>2, <1>3, <1>11
  <2>3. /\ root # NULL => root \in f[0]
        /\ \A x \in B : Len(x) <= 0 => x \in f[0]
    BY <1>0, <1>2, <1>11, <2>1
  <2> QED  BY <2>2, <2>3
<1>13. ASSUME NEW n \in T  PROVE n + 1 \in T
  <2>1. n \in Nat  BY <1>13
  <2>2. CASE n + 1 <= MaxLen
    <3>1. n + 1 \in 1..MaxLen /\ (n + 1) - 1 = n /\ n <= MaxLen  BY <1>0, <2>1, <2>2
    <3>2. PICK A \in SUBSET B :
             /\ A = f[n] /\ (root # NULL => root \in A)
             /\ \A x \in B : Len(x) <= n => x \in A
      BY <1>13, <3>1
    <3>3. f[n + 1] = grow(A)  BY <1>11, <3>1, <3>2
    <3>4. ASSUME NEW x \in B, Len(x) <= n + 1  PROVE x \in grow(A)
      <4>1. x \in Nodes(t) /\ root \in Nodes(t) /\ Includes(root, x)  OBVIOUS
      <4>2. Len(x) \in Nat  BY <1>0, <4>1, PrefixShape
      <4>3. CASE x = root
        BY <1>0, <1>1, <3>2, <4>1, <4>3
      <4>4. CASE x # root
        <5>1. PICK u \in Nodes(t) : u = Up(t, x) /\ Len(u) < Len(x) /\ Includes(root, u)
          BY <4>1, <4>4, ParentIsNext
        <5>2. Len(u) \in Nat /\ u # NULL  BY <1>0, PrefixShape
        <5>3. Kid(t, u, Side(x, Len(u))) = x  BY <4>1, <5>1, <5>2 DEF Linked, LinkedUp
        <5>4. u \in B  BY <1>0, <4>1, <5>1
        <5>5. u \in A  BY <2>1, <3>2, <3>4, <4>2, <5>1, <5>2, <5>4
        <5>6. Side(x, Len(u)) \in 1..2 /\ x # NULL  BY <1>0, <4>1, <5>2, SideIs
        <5> QED  BY <1>1, <5>3, <5>5, <5>6
      <4> QED  BY <4>3, <4>4
    <3>5. f[n + 1] \in SUBSET B /\ (root # NULL => root \in f[n + 1])
      BY <1>1, <3>2, <3>3
    <3> QED  BY <2>1, <3>3, <3>4, <3>5
  <2> QED  BY <1>0, <2>1, <2>2
<1>14. T = Nat
  <2>1. T \subseteq Nat  OBVIOUS
  <2> HIDE DEF T
  <2> QED  BY <1>12, <1>13, <2>1, Induction
<1>15. f[MaxLen] \in SUBSET B /\ \A x \in B : Len(x) <= MaxLen => x \in f[MaxLen]
  BY <1>0, <1>14
<1>16. \A x \in B : Len(x) <= MaxLen  BY <1>0, PrefixShape
<1> QED  BY <1>8, <1>9, <1>15, <1>16

\* Every node of a linked table is reached from its top.
LEMMA SubtreeIs ==
    ASSUME NEW t, Linked(t)
    PROVE  Subtree(t, t.top) = Nodes(t)
<1>0. Nodes(t) \subseteq Prefix /\ NULL \notin Prefix /\ t.top \in Nodes(t) \cup {NULL}
  BY DbTableAssumption, Zenon DEF Linked
<1>1. \A y \in Nodes(t) : t.top # NULL /\ Includes(t.top, y)  BY <1>0, TopIncludesAll
<1> QED  BY <1>0, <1>1, SubtreeBelow

----------------------------------------------------------------------------
(***************************************************************************)
(* What the functions that change a table do to it.                        *)
(***************************************************************************)
\* The data, the flags and the lock count of a node.
Info(t, x) == t.node[x].info
Marks(t, x) == t.node[x].flags
Locks(t, x) == t.node[x].lock

\* A table has its three fields, and its nodes are prefixes.
LEMMA TableShape ==
    ASSUME NEW Data, NEW t \in Table(Data)
    PROVE  /\ t = [top |-> t.top, node |-> t.node, count |-> t.count]
           /\ t.top \in Pointer /\ t.count \in Int
           /\ Nodes(t) \subseteq Prefix
           /\ t.node \in [Nodes(t) -> Node(Data)]
<1>1. /\ t = [top |-> t.top, node |-> t.node, count |-> t.count]
      /\ t.top \in Pointer /\ t.count \in Int
      /\ t.node \in UNION {[D -> Node(Data)] : D \in SUBSET Prefix}
  BY DEF Table
<1>2. PICK D \in SUBSET Prefix : t.node \in [D -> Node(Data)]  BY <1>1
<1>3. Nodes(t) = D  BY <1>2 DEF Nodes
<1> QED  BY <1>1, <1>2, <1>3

\* And whatever has them is a table.
LEMMA TableIntro ==
    ASSUME NEW Data, NEW top \in Pointer, NEW count \in Int, NEW D \in SUBSET Prefix,
           NEW node \in [D -> Node(Data)], 
           NEW t, t = [top |-> top, node |-> node, count |-> count]
    PROVE  t \in Table(Data) /\ Nodes(t) = D
BY DEF Table, Nodes

\* db_node_set (db_table.c 178-190) adds a node that is linked to nothing.
LEMMA NodeSetEffect ==
    ASSUME NEW Data, NEW t \in Table(Data), NEW p \in Prefix, NULL \in Data,
           NEW u, u = db_node_set(t, p)
    PROVE  /\ u \in Table(Data)
           /\ Nodes(u) = Nodes(t) \cup {p} /\ u.top = t.top /\ u.count = t.count + 1
           /\ \A y \in Nodes(t) \ {p} : u.node[y] = t.node[y]
           /\ Kid(u, p, 1) = NULL /\ Kid(u, p, 2) = NULL /\ Up(u, p) = NULL 
           /\ Info(u, p) = NULL /\ Marks(u, p) = NULL /\ Locks(u, p) = 0
<1>1. PICK node : node = [x \in Nodes(t) \cup {p} |->
                           IF x = p THEN db_node_create ELSE t.node[x]]
  OBVIOUS
<1>2. u = [top |-> t.top, node |-> node, count |-> t.count + 1]
  <2>1. u = [t EXCEPT !.node = node, !.count = @ + 1]  BY <1>1 DEF db_node_set
  <2>2. PICK count : count = t.count + 1  OBVIOUS
  <2>3. u = [t EXCEPT !.node = node, !.count = count]  BY <2>1, <2>2
  <2> QED  BY <2>2, <2>3, TableShape
<1>3. db_node_create \in Node(Data)
  <2>1. PICK link : link = <<NULL, NULL>>  OBVIOUS
  <2>2. link \in [1..2 -> Pointer]  BY <2>1 DEF Pointer
  <2>3. NULL \in Pointer  BY DEF Pointer
  <2>4. db_node_create = [link |-> link, parent |-> NULL, info |-> NULL,
                          flags |-> NULL, lock |-> 0]
    BY <2>1 DEF db_node_create
  <2> QED  BY <2>2, <2>3, <2>4 DEF Node
<1>4. node \in [Nodes(t) \cup {p} -> Node(Data)]
  BY <1>1, <1>3, TableShape
<1>5. u \in Table(Data) /\ Nodes(u) = Nodes(t) \cup {p}
  BY <1>2, <1>4, TableShape, TableIntro
<1>6. u.node[p] = db_node_create  BY <1>1, <1>2
<1> QED  BY <1>1, <1>2, <1>5, <1>6 DEF Kid, Up, Info, Marks, Locks, db_node_create

\* u is t with x below n.
Below(t, u, n, x) ==
    /\ Nodes(u) = Nodes(t) /\ u.top = t.top /\ u.count = t.count
    /\ \A y \in Nodes(t) :
          /\ \A b \in 1..2 : Kid(u, y, b) = IF y = n /\ b = Side(x, Len(n)) THEN x
                                            ELSE Kid(t, y, b)
          /\ Up(u, y) = IF y = x THEN n ELSE Up(t, y)
          /\ Info(u, y) = Info(t, y) /\ Marks(u, y) = Marks(t, y)
          /\ Locks(u, y) = Locks(t, y)

\* set_link (db_table.c 294-305) hangs x below n and touches nothing else.
LEMMA SetLinkEffect ==
    ASSUME NEW Data, NEW t \in Table(Data), NEW n \in Nodes(t), NEW x \in Nodes(t),
           NEW u, u = set_link(t, n, x)
    PROVE  u \in Table(Data) /\ Below(t, u, n, x)
<1>0. n # NULL  BY DbTableAssumption, TableShape
<1>1. PICK b \in 1..2 : b = Side(x, Len(n))  BY SideIs, PrefixShape, TableShape
<1>2. t.node \in [Nodes(t) -> Node(Data)] /\ Nodes(t) \subseteq Prefix  BY TableShape
<1>3. PICK link : link = [t.node[n].link EXCEPT ![b] = x]  OBVIOUS
<1>17. t.node[n].link \in [1..2 -> Pointer]  BY <1>2 DEF Node
<1>4. link \in [1..2 -> Pointer] /\ \A c \in 1..2 : link[c] = IF c = b THEN x ELSE Kid(t, n, c)
  BY <1>2, <1>3, <1>17 DEF Pointer, Kid
<1>5. PICK r : r = [t.node[n] EXCEPT !.link = link]  OBVIOUS
<1>6. r \in Node(Data) /\ r.link = link /\ r.parent = t.node[n].parent /\ r.info = t.node[n].info
      /\ r.flags = t.node[n].flags
      /\ r.lock = t.node[n].lock
  BY <1>2, <1>4, <1>5 DEF Node
<1>7. PICK f : f = [t.node EXCEPT ![n] = r]  OBVIOUS
<1>8. f \in [Nodes(t) -> Node(Data)] /\ f[n] = r /\ \A y \in Nodes(t) \ {n} : f[y] = t.node[y]
  BY <1>2, <1>6, <1>7
<1>9. PICK q : q = [f[x] EXCEPT !.parent = n]  OBVIOUS
<1>10. q \in Node(Data) /\ q.parent = n /\ q.link = f[x].link /\ q.info = f[x].info
       /\ q.flags = f[x].flags
       /\ q.lock = f[x].lock
  BY <1>2, <1>8, <1>9 DEF Node, Pointer
<1>11. PICK h : h = [f EXCEPT ![x] = q]  OBVIOUS
<1>12. h \in [Nodes(t) -> Node(Data)] /\ h[x] = q /\ \A y \in Nodes(t) \ {x} : h[y] = f[y]
  BY <1>8, <1>10, <1>11
<1>13. u = [t EXCEPT !.node = h]
  BY <1>0, <1>1, <1>3, <1>5, <1>7, <1>9, <1>11 DEF set_link, Side
<1>14. u = [top |-> t.top, node |-> h, count |-> t.count]
  BY <1>13, TableShape
<1>15. u \in Table(Data) /\ Nodes(u) = Nodes(t)  BY <1>12, <1>14, TableShape, TableIntro
<1>16. ASSUME NEW y \in Nodes(t) 
       PROVE  /\ \A c \in 1..2 : Kid(u, y, c) = IF y = n /\ c = b THEN x ELSE Kid(t, y, c)
              /\ Up(u, y) = IF y = x THEN n ELSE Up(t, y)
              /\ Info(u, y) = Info(t, y) /\ Marks(u, y) = Marks(t, y)
              /\ Locks(u, y) = Locks(t, y)
  <2>1. u.node[y] = h[y]  BY <1>14
  <2>2. /\ h[y].link = f[y].link /\ h[y].info = f[y].info
        /\ h[y].flags = f[y].flags /\ h[y].lock = f[y].lock
     BY <1>10, <1>12
  <2>3. h[y].parent = IF y = x THEN n ELSE f[y].parent BY <1>10, <1>12
  <2>4. /\ f[y].parent = t.node[y].parent /\ f[y].info = t.node[y].info
        /\ f[y].flags = t.node[y].flags /\ f[y].lock = t.node[y].lock
     BY <1>6, <1>8
  <2>5. f[y].link = IF y = n THEN link ELSE t.node[y].link  BY <1>6, <1>8
  <2> QED BY <1>4, <2>1, <2>2, <2>3, <2>4, <2>5 DEF Kid, Up, Info, Marks, Locks
<1> QED  BY <1>1, <1>14, <1>15, <1>16 DEF Below

\* set_link below no node.
LEMMA SetTopEffect ==
    ASSUME NEW Data, NEW t \in Table(Data), NEW x \in Nodes(t),
           NEW u, u = set_link(t, NULL, x)
    PROVE  /\ u \in Table(Data)
           /\ Nodes(u) = Nodes(t) /\ u.top = x /\ u.count = t.count
           /\ u.node = t.node
<1>1. u = [top |-> x, node |-> t.node, count |-> t.count]
  BY TableShape DEF set_link
<1>2. x \in Pointer  BY TableShape DEF Pointer
<1> QED  BY <1>1, <1>2, TableShape, TableIntro

\* The lock and the data of a node change nothing else.
LEMMA LockEffect ==
    ASSUME NEW Data, NEW t \in Table(Data), NEW x \in Nodes(t), NEW n \in Nat,
           NEW u, u = [t EXCEPT !.node[x].lock = n]
    PROVE  /\ u \in Table(Data)
           /\ Nodes(u) = Nodes(t) /\ u.top = t.top /\ u.count = t.count
           /\ \A y \in Nodes(t) :
                /\ \A b \in 1..2 : Kid(u, y, b) = Kid(t, y, b)
                /\ Up(u, y) = Up(t, y) /\ Info(u, y) = Info(t, y) /\ Marks(u, y) = Marks(t, y)
                /\ Locks(u, y) = IF y = x THEN n ELSE Locks(t, y)
<1>1. t.node \in [Nodes(t) -> Node(Data)]  BY TableShape
<1>2. PICK r : r = [t.node[x] EXCEPT !.lock = n]  OBVIOUS
<1>3. /\ r \in Node(Data) /\ r.link = t.node[x].link /\ r.parent = t.node[x].parent
      /\ r.info = t.node[x].info /\ r.flags = t.node[x].flags /\ r.lock = n
  BY <1>1, <1>2 DEF Node
<1>4. PICK f : f = [t.node EXCEPT ![x] = r]  OBVIOUS
<1>5. f \in [Nodes(t) -> Node(Data)] /\ f[x] = r /\ \A y \in Nodes(t) \ {x} : f[y] = t.node[y]
  BY <1>1, <1>3, <1>4
<1>6. u = [t EXCEPT !.node = f]  BY <1>2, <1>4
<1>7. u = [top |-> t.top, node |-> f, count |-> t.count]  BY <1>6, TableShape
<1>8. u \in Table(Data) /\ Nodes(u) = Nodes(t)  BY <1>5, <1>7, TableShape, TableIntro
<1> QED  BY <1>3, <1>5, <1>7, <1>8 DEF Kid, Up, Info, Marks, Locks

\* db_node_set_info (db_table.c 621-633) changes the data of one node.
LEMMA SetInfoEffect ==
    ASSUME NEW Data, NEW t \in Table(Data), NEW x \in Nodes(t), NEW v \in Data,
           NEW u, u = db_node_set_info(t, x, v)
    PROVE  /\ u \in Table(Data)
           /\ Nodes(u) = Nodes(t) /\ u.top = t.top /\ u.count = t.count
           /\ \A y \in Nodes(t) :
                /\ \A b \in 1..2 : Kid(u, y, b) = Kid(t, y, b)
                /\ Up(u, y) = Up(t, y) /\ Locks(u, y) = Locks(t, y)
                /\ Marks(u, y) = Marks(t, y)
                /\ Info(u, y) = IF y = x THEN v ELSE Info(t, y)
<1>1. t.node \in [Nodes(t) -> Node(Data)]  BY TableShape
<1>2. PICK r : r = [t.node[x] EXCEPT !.info = v]  OBVIOUS
<1>3. /\ r \in Node(Data) /\ r.link = t.node[x].link /\ r.parent = t.node[x].parent
      /\ r.lock = t.node[x].lock /\ r.flags = t.node[x].flags /\ r.info = v
  BY <1>1, <1>2 DEF Node
<1>4. PICK f : f = [t.node EXCEPT ![x] = r]  OBVIOUS
<1>5. f \in [Nodes(t) -> Node(Data)] /\ f[x] = r /\ \A y \in Nodes(t) \ {x} : f[y] = t.node[y]
  BY <1>1, <1>3, <1>4
<1>6. u = [t EXCEPT !.node = f]  BY <1>2, <1>4 DEF db_node_set_info
<1>7. u = [top |-> t.top, node |-> f, count |-> t.count]  BY <1>6, TableShape
<1>8. u \in Table(Data) /\ Nodes(u) = Nodes(t)  BY <1>5, <1>7, TableShape, TableIntro
<1> QED  BY <1>3, <1>5, <1>7, <1>8 DEF Kid, Up, Info, Marks, Locks

\* A table with the same nodes and links is as well linked.
LEMMA SameLinks ==
    ASSUME NEW t, Linked(t), NEW u, Nodes(u) = Nodes(t), u.top = t.top,
           \A y \in Nodes(t) : /\ \A b \in 1..2 : Kid(u, y, b) = Kid(t, y, b)
                               /\ Up(u, y) = Up(t, y)
    PROVE  Linked(u)
<1>0. Nodes(t) \subseteq Prefix  BY DEF Linked
<1>1. ASSUME NEW x \in Nodes(t)  PROVE LinkedUp(u, x) /\ LinkedDown(u, x)
  <2>1. LinkedUp(t, x) /\ LinkedDown(t, x)  BY DEF Linked
  <2>2. LinkedDown(u, x)  BY <2>1 DEF LinkedDown
  <2>3. Up(t, x) # NULL => Side(x, Len(Up(t, x))) \in 1..2
    BY <1>0, <2>1, SideIs, PrefixShape DEF LinkedUp
  <2>4. LinkedUp(u, x)  BY <2>1, <2>3 DEF LinkedUp
  <2> QED  BY <2>2, <2>4
<1> QED  BY <1>1 DEF Linked

\* Hanging a new node below match, on its free side, keeps the table linked.
LEMMA AddLinked ==
    ASSUME NEW t, Linked(t), NEW p \in Prefix, p \notin Nodes(t),
           NEW match \in Nodes(t), Includes(match, p), Len(match) < Len(p),
           Kid(t, match, Side(p, Len(match))) = NULL,
           NEW u, Nodes(u) = Nodes(t) \cup {p}, u.top = t.top,
           \A y \in Nodes(t) :
              /\ \A b \in 1..2 : Kid(u, y, b) = IF y = match /\ b = Side(p, Len(match))
                                                THEN p ELSE Kid(t, y, b)
              /\ Up(u, y) = Up(t, y),
           Up(u, p) = match, Kid(u, p, 1) = NULL, Kid(u, p, 2) = NULL
    PROVE  Linked(u)
<1>0. Nodes(t) \subseteq Prefix /\ NULL \notin Prefix /\ t.top \in Nodes(t) \cup {NULL}
  BY DbTableAssumption, Zenon DEF Linked
<1>1. Len(match) \in Nat  BY <1>0, PrefixShape
<1>2. Side(p, Len(match)) \in 1..2  BY <1>1, SideIs
<1>3. ASSUME NEW x \in Nodes(t)  PROVE LinkedUp(u, x) /\ LinkedDown(u, x)
  <2>1. LinkedUp(t, x) /\ LinkedDown(t, x)  BY DEF Linked
  <2>2. Up(t, x) # NULL => Side(x, Len(Up(t, x))) \in 1..2
    BY <1>0, <2>1, SideIs, PrefixShape DEF LinkedUp
  <2>3. LinkedUp(u, x)
    <3>1. x = u.top <=> Up(u, x) = NULL  BY <2>1 DEF LinkedUp
    <3>2. CASE Up(t, x) # NULL
      <4>1. PICK m \in Nodes(t) : /\ m = Up(t, x) /\ Len(m) < Len(x) /\ Includes(m, x)
                                  /\ Kid(t, m, Side(x, Len(m))) = x
                                  /\ Side(x, Len(m)) \in 1..2
        BY <2>1, <2>2, <3>2 DEF LinkedUp
      <4>2. x # NULL  BY <1>0
      <4>3. ~(m = match /\ Side(x, Len(m)) = Side(p, Len(match)))  BY <4>1, <4>2
      <4>4. Kid(u, m, Side(x, Len(m))) = x  BY <4>1, <4>3
      <4> QED  BY <3>1, <4>1, <4>4 DEF LinkedUp
    <3> QED  BY <3>1, <3>2 DEF LinkedUp
  <2>4. LinkedDown(u, x)
    <3>1. SUFFICES ASSUME NEW b \in 1..2, Kid(u, x, b) # NULL
                   PROVE  /\ Kid(u, x, b) \in Nodes(u) /\ Up(u, Kid(u, x, b)) = x
                          /\ Side(Kid(u, x, b), Len(x)) = b
      BY DEF LinkedDown
    <3>2. CASE x = match /\ b = Side(p, Len(match))  BY <3>2
    <3>3. CASE ~(x = match /\ b = Side(p, Len(match)))
      <4>1. Kid(u, x, b) = Kid(t, x, b)  BY <3>3
      <4> QED  BY <2>1, <3>1, <4>1 DEF LinkedDown
    <3> QED  BY <3>2, <3>3
  <2> QED  BY <2>3, <2>4
<1>4. LinkedUp(u, p) /\ LinkedDown(u, p)
  <2>1. p # u.top /\ match # NULL  BY <1>0
  <2>2. Kid(u, match, Side(p, Len(match))) = p  BY <1>2
  <2>3. LinkedUp(u, p)  BY <2>1, <2>2 DEF LinkedUp
  <2> QED  BY <2>3 DEF LinkedDown
<1> QED  BY <1>0, <1>3, <1>4 DEF Linked

\* The node in the way of p, x, is what hangs below match on the side of p, or
\* the top of a table in which no node includes p.
InTheWay(t, p, match, x) ==
    /\ x \in Nodes(t) /\ ~Includes(x, p)
    /\ match \in Nodes(t) \cup {NULL}
    /\ match = NULL => x = t.top
    /\ match # NULL => /\ Includes(match, p) /\ Len(match) < Len(p)
                       /\ x = Kid(t, match, Side(p, Len(match)))

\* The glue node is new, lies between match and both of its children, and
\* has them on different sides.
LEMMA GlueIs ==
    ASSUME NEW t, Linked(t), NEW p \in Prefix, p \notin Nodes(t), NEW match, NEW x,
           InTheWay(t, p, match, x), NEW g, g = route_common(x, p)
    PROVE  /\ g \in Prefix /\ g \notin Nodes(t)
           /\ Includes(g, x) /\ Includes(g, p) /\ Len(g) < Len(x)
           /\ g # p => Len(g) < Len(p) /\ Side(p, Len(g)) # Side(x, Len(g))
           /\ Up(t, x) = match
           /\ match # NULL => /\ Len(match) < Len(g) /\ Includes(match, g)
                              /\ Side(g, Len(match)) = Side(p, Len(match))
<1>0. Nodes(t) \subseteq Prefix /\ NULL \notin Prefix /\ x \in Nodes(t) /\ x \in Prefix
  BY DbTableAssumption, Zenon DEF Linked, InTheWay
<1>1. /\ g \in Prefix /\ Includes(g, x) /\ Includes(g, p) /\ Len(g) < Len(x)
      /\ Len(g) < Len(p) => x[Len(g) + 1] # p[Len(g) + 1]
  BY <1>0, RouteCommonIs DEF InTheWay
<1>2. /\ Len(g) \in Nat /\ Len(x) \in Nat /\ Len(p) \in Nat /\ Len(g) <= Len(p)
  BY <1>0, <1>1, PrefixShape DEF Includes
<1>3. ASSUME g # p
      PROVE  Len(g) < Len(p) /\ Side(p, Len(g)) # Side(x, Len(g))
  <2>1. Len(g) # Len(p)  BY <1>1, <1>3, IncludesOrder
  <2>2. Len(g) < Len(p)  BY <1>2, <2>1
  <2>3. Side(p, Len(g)) = p[Len(g) + 1] + 1 /\ Side(x, Len(g)) = x[Len(g) + 1] + 1
    BY <1>0, <1>1, <1>2, <2>2, SideIs
  <2>4. p[Len(g) + 1] \in {0, 1} /\ x[Len(g) + 1] \in {0, 1}
    BY <1>0, <1>1, <1>2, <2>2, PrefixShape
  <2> QED  BY <1>1, <2>2, <2>3, <2>4
<1>4. CASE match = NULL
  <2>1. x = t.top  BY <1>4 DEF InTheWay
  <2>2. Up(t, x) = match  BY <1>0, <1>4, <2>1 DEF Linked, LinkedUp
  <2>3. ASSUME g \in Nodes(t)  PROVE FALSE
    <3>1. Includes(x, g)  BY <2>1, <2>3, TopIncludesAll
    <3>2. Includes(x, p)  BY <1>0, <1>1, <3>1, IncludesOrder
    <3> QED  BY <3>2 DEF InTheWay
  <2> QED  BY <1>1, <1>3, <1>4, <2>2, <2>3
<1>5. CASE match # NULL
  <2>1. /\ match \in Nodes(t) /\ Includes(match, p) /\ Len(match) < Len(p)
        /\ x = Kid(t, match, Side(p, Len(match)))
    BY <1>5 DEF InTheWay
  <2>2. Len(match) \in Nat /\ match \in Prefix  BY <1>0, <2>1, PrefixShape
  <2>3. Side(p, Len(match)) \in 1..2  BY <2>2, SideIs
  <2>4. /\ Up(t, x) = match /\ Side(x, Len(match)) = Side(p, Len(match))
    <3>1. LinkedDown(t, match) /\ x # NULL  BY <1>0, <2>1 DEF Linked
    <3> QED  BY <2>1, <2>3, <3>1 DEF LinkedDown
  <2>5. Len(match) < Len(x) /\ Includes(match, x)
    <3>1. LinkedUp(t, x)  BY <1>0 DEF Linked
    <3> QED  BY <1>5, <2>4, <3>1 DEF LinkedUp
  <2>6. x[Len(match) + 1] = p[Len(match) + 1]
    <3>1. /\ Side(x, Len(match)) = x[Len(match) + 1] + 1
          /\ Side(p, Len(match)) = p[Len(match) + 1] + 1
      BY <1>0, <2>1, <2>2, <2>5, SideIs
    <3>2. x[Len(match) + 1] \in {0, 1} /\ p[Len(match) + 1] \in {0, 1}
      <4>1. Len(match) + 1 \in 1..Len(x) /\ Len(match) + 1 \in 1..Len(p)
        BY <1>2, <2>1, <2>2, <2>5
      <4> QED  BY <1>0, <4>1, PrefixShape
    <3>3. PICK a \in {0, 1}, c \in {0, 1} :
             a = x[Len(match) + 1] /\ c = p[Len(match) + 1]
      BY <3>2
    <3>4. a + 1 = c + 1  BY <2>4, <3>1, <3>3
    <3> QED  BY <3>3, <3>4
  <2>7. Len(match) < Len(g)
    <3>1. SUFFICES ASSUME Len(g) <= Len(match)  PROVE FALSE  BY <1>2, <2>2
    <3>2. x[Len(g) + 1] # p[Len(g) + 1]  BY <1>1, <1>2, <2>1, <2>2, <3>1
    <3>3. CASE Len(g) = Len(match)  BY <2>6, <3>2, <3>3
    <3>4. CASE Len(g) < Len(match)
      <4>1. Len(g) + 1 \in 1..Len(match)  BY <1>2, <2>2, <3>4
      <4>2. x[Len(g) + 1] = match[Len(g) + 1] /\ p[Len(g) + 1] = match[Len(g) + 1]
        BY <2>1, <2>5, <4>1 DEF Includes
      <4> QED  BY <3>2, <4>2
    <3> QED  BY <1>2, <2>2, <3>1, <3>3, <3>4
  <2>8. Includes(match, g)  BY <1>1, <1>2, <2>1, <2>2, <2>7, IncludesOrder
  <2>9. Side(g, Len(match)) = Side(p, Len(match))  BY <1>1, <2>2, <2>7, SameSide
  <2>10. ASSUME g \in Nodes(t)  PROVE FALSE
    <3>1. match # g  BY <1>2, <2>2, <2>7
    <3>2. Includes(x, g)  BY <2>1, <2>8, <2>9, <2>10, <3>1, NextOnWay
    <3> QED  BY <1>1, <1>2, <3>2 DEF Includes
  <2> QED  BY <1>1, <1>3, <2>4, <2>7, <2>8, <2>9, <2>10
<1> QED  BY <1>4, <1>5

\* Putting the glue node between match and x, and p below it if it is another
\* node, keeps the table linked.
LEMMA ForkLinked ==
    ASSUME NEW t, Linked(t), NEW p \in Prefix, p \notin Nodes(t), NEW match, NEW x,
           InTheWay(t, p, match, x), NEW g, g = route_common(x, p),
           NEW u, Nodes(u) = Nodes(t) \cup {g, p},
           u.top = IF match = NULL THEN g ELSE t.top,
           \A y \in Nodes(t) :
              /\ \A b \in 1..2 : Kid(u, y, b) = IF y = match /\ b = Side(g, Len(match))
                                                THEN g ELSE Kid(t, y, b)
              /\ Up(u, y) = IF y = x THEN g ELSE Up(t, y),
           Up(u, g) = match,
           \A b \in 1..2 : Kid(u, g, b) = IF b = Side(x, Len(g)) THEN x
                                          ELSE IF g = p THEN NULL ELSE p,
           g # p => Up(u, p) = g /\ Kid(u, p, 1) = NULL /\ Kid(u, p, 2) = NULL
    PROVE  Linked(u)
<1>0. /\ Nodes(t) \subseteq Prefix /\ NULL \notin Prefix /\ t.top \in Nodes(t) \cup {NULL}
      /\ x \in Nodes(t) /\ x \in Prefix /\ match \in Nodes(t) \cup {NULL}
  BY DbTableAssumption, Zenon DEF Linked, InTheWay
<1>1. /\ g \in Prefix /\ g \notin Nodes(t)
      /\ Includes(g, x) /\ Includes(g, p) /\ Len(g) < Len(x)
      /\ g # p => Len(g) < Len(p) /\ Side(p, Len(g)) # Side(x, Len(g))
      /\ Up(t, x) = match
      /\ match # NULL => /\ Len(match) < Len(g) /\ Includes(match, g)
                         /\ Side(g, Len(match)) = Side(p, Len(match))
  BY GlueIs
<1>2. Len(g) \in Nat /\ Side(x, Len(g)) \in 1..2 /\ Side(p, Len(g)) \in 1..2
  BY <1>0, <1>1, PrefixShape, SideIs
<1>3. /\ match = NULL => x = t.top
      /\ match # NULL => /\ match \in Nodes(t) /\ x = Kid(t, match, Side(g, Len(match)))
                         /\ Side(g, Len(match)) \in 1..2
  BY <1>0, <1>1, SideIs, PrefixShape DEF InTheWay
<1>4. g # NULL /\ x # NULL /\ p # NULL /\ g # x  BY <1>0, <1>1
<1>5. ASSUME NEW y \in Nodes(t)  PROVE LinkedUp(u, y)
  <2>0. LinkedUp(t, y) /\ y # NULL /\ y # g  BY <1>0, <1>1 DEF Linked
  <2>1. CASE y = x
    <3>1. x # u.top  BY <1>0, <1>1, <1>3, <1>4, <2>0, <2>1 DEF LinkedUp
    <3>2. Kid(u, g, Side(x, Len(g))) = x  BY <1>2
    <3> QED  BY <1>1, <1>4, <2>1, <3>1, <3>2 DEF LinkedUp
  <2>2. CASE y # x
    <3>1. Up(u, y) = Up(t, y)  BY <2>2
    <3>2. y = u.top <=> Up(u, y) = NULL  BY <1>3, <2>0, <2>2, <3>1 DEF LinkedUp
    <3>3. CASE Up(t, y) # NULL
      <4>1. PICK m \in Nodes(t) : /\ m = Up(t, y) /\ Len(m) < Len(y) /\ Includes(m, y)
                                  /\ Kid(t, m, Side(y, Len(m))) = y
        BY <2>0, <3>3 DEF LinkedUp
      <4>2. Side(y, Len(m)) \in 1..2  BY <1>0, SideIs, PrefixShape
      <4>3. ~(m = match /\ Side(y, Len(m)) = Side(g, Len(match)))
        BY <1>0, <1>3, <2>2, <4>1
      <4>4. Kid(u, m, Side(y, Len(m))) = y  BY <4>1, <4>2, <4>3
      <4> QED  BY <3>1, <3>2, <4>1, <4>4 DEF LinkedUp
    <3> QED  BY <3>1, <3>2, <3>3 DEF LinkedUp
  <2> QED  BY <2>1, <2>2
<1>6. ASSUME NEW y \in Nodes(t)  PROVE LinkedDown(u, y)
  <2>0. LinkedDown(t, y) /\ y # NULL  BY <1>0 DEF Linked
  <2>1. SUFFICES ASSUME NEW b \in 1..2, Kid(u, y, b) # NULL
                 PROVE  /\ Kid(u, y, b) \in Nodes(u) /\ Up(u, Kid(u, y, b)) = y
                        /\ Side(Kid(u, y, b), Len(y)) = b
    BY DEF LinkedDown
  <2>2. CASE y = match /\ b = Side(g, Len(match))  BY <2>2
  <2>3. CASE ~(y = match /\ b = Side(g, Len(match)))
    <3>1. PICK k : k = Kid(t, y, b)  OBVIOUS
    <3>2. Kid(u, y, b) = k  BY <2>3, <3>1
    <3>3. k \in Nodes(t) /\ Up(t, k) = y /\ Side(k, Len(y)) = b
      BY <2>0, <2>1, <3>1, <3>2 DEF LinkedDown
    <3>4. k # x
      <4>1. ASSUME k = x  PROVE FALSE
        <5>1. y = match  BY <1>1, <3>3, <4>1
        <5>2. LinkedDown(t, match) /\ match # NULL  BY <2>0, <5>1
        <5>3. Side(x, Len(match)) = Side(g, Len(match))
          BY <1>3, <1>4, <5>2 DEF LinkedDown
        <5> QED  BY <2>3, <3>3, <4>1, <5>1, <5>3
      <4> QED  BY <4>1
    <3> QED  BY <3>2, <3>3, <3>4
  <2> QED  BY <2>2, <2>3
<1>7. LinkedUp(u, g)
  <2>1. g = u.top <=> match = NULL  BY <1>0, <1>1, <1>4
  <2>2. match # NULL => Kid(u, match, Side(g, Len(match))) = g  BY <1>3
  <2> QED  BY <1>1, <1>3, <2>1, <2>2 DEF LinkedUp
<1>8. LinkedDown(u, g)
  <2>1. SUFFICES ASSUME NEW b \in 1..2, Kid(u, g, b) # NULL
                 PROVE  /\ Kid(u, g, b) \in Nodes(u) /\ Up(u, Kid(u, g, b)) = g
                        /\ Side(Kid(u, g, b), Len(g)) = b
    BY DEF LinkedDown
  <2>2. CASE b = Side(x, Len(g))
    BY <1>0, <2>2
  <2>3. CASE b # Side(x, Len(g))
    <3>1. g # p /\ Kid(u, g, b) = p  BY <2>1, <2>3
    <3>2. Side(p, Len(g)) = b  BY <1>1, <1>2, <2>3, <3>1
    <3> QED  BY <3>1, <3>2
  <2> QED  BY <2>2, <2>3
<1>9. ASSUME g # p  PROVE LinkedUp(u, p) /\ LinkedDown(u, p)
  <2>1. p # u.top  BY <1>0, <1>4, <1>9
  <2>2. Kid(u, g, Side(p, Len(g))) = p  BY <1>1, <1>2, <1>9
  <2>3. LinkedUp(u, p)  BY <1>1, <1>4, <1>9, <2>1, <2>2 DEF LinkedUp
  <2>4. LinkedDown(u, p)  BY <1>9 DEF LinkedDown
  <2> QED  BY <2>3, <2>4
<1>10. u.top \in Nodes(u) \cup {NULL} /\ Nodes(u) \subseteq Prefix  BY <1>0, <1>1
<1> QED  BY <1>5, <1>6, <1>7, <1>8, <1>9, <1>10 DEF Linked

\* The node counter is exact.
Counted(t) == IsFiniteSet(Nodes(t)) /\ t.count = Cardinality(Nodes(t))

\* u has the nodes of t, with their data, locks and forks, and the node of p;
\* whatever else it has is a fork without data.
Added(t, u, p) ==
    /\ Nodes(t) \cup {p} \subseteq Nodes(u)
    /\ \A y \in Nodes(t) : /\ Info(u, y) = Info(t, y) /\ Marks(u, y) = Marks(t, y)
                           /\ Locks(u, y) = Locks(t, y)
                           /\ \A b \in 1..2 : Kid(t, y, b) # NULL => Kid(u, y, b) # NULL
    /\ p \notin Nodes(t) => Info(u, p) = NULL /\ Marks(u, p) = NULL /\ Locks(u, p) = 0
    /\ \A y \in Nodes(u) \ (Nodes(t) \cup {p}) :
          Info(u, y) = NULL /\ Marks(u, y) = NULL /\ \A b \in 1..2 : Kid(u, y, b) # NULL

\* db_node_set counts the node it creates.
LEMMA NodeSetCounts ==
    ASSUME NEW Data, NEW t \in Table(Data), NEW p \in Prefix, NULL \in Data,
           p \notin Nodes(t), Counted(t), NEW u, u = db_node_set(t, p)
    PROVE  Counted(u)
<1>1. Nodes(u) = Nodes(t) \cup {p} /\ u.count = t.count + 1  BY NodeSetEffect
<1>2. /\ IsFiniteSet(Nodes(t) \cup {p})
      /\ Cardinality(Nodes(t) \cup {p}) = Cardinality(Nodes(t)) + 1
  BY FS_AddElement DEF Counted
<1> QED  BY <1>1, <1>2 DEF Counted

\* A new node below match, whose side of p is free, or in an empty table.
LEMMA AddEffect ==
    ASSUME NEW Data, NEW t \in Table(Data), NULL \in Data, Linked(t),
           NEW p \in Prefix, p \notin Nodes(t), NEW match \in Nodes(t) \cup {NULL},
           match = NULL => t.top = NULL,
           match # NULL => /\ Includes(match, p) /\ Len(match) < Len(p)
                           /\ Kid(t, match, Side(p, Len(match))) = NULL,
           NEW u, u = set_link(db_node_set(t, p), match, p)
    PROVE  u \in Table(Data) /\ Linked(u) /\ (Counted(t) => Counted(u)) /\ Added(t, u, p)
<1>0. Nodes(t) \subseteq Prefix /\ NULL \notin Prefix
  BY DbTableAssumption, Zenon DEF Linked
<1>1. PICK a : a = db_node_set(t, p)  OBVIOUS
<1>2. /\ a \in Table(Data)
      /\ Nodes(a) = Nodes(t) \cup {p} /\ a.top = t.top
      /\ \A y \in Nodes(t) : a.node[y] = t.node[y]
      /\ Kid(a, p, 1) = NULL /\ Kid(a, p, 2) = NULL /\ Up(a, p) = NULL
      /\ Info(a, p) = NULL /\ Marks(a, p) = NULL /\ Locks(a, p) = 0
  BY <1>1, NodeSetEffect
<1>3. (Counted(t) => Counted(a))  BY <1>1, NodeSetCounts
<1>4. CASE match = NULL
  <2>1. /\ u \in Table(Data) /\ Nodes(u) = Nodes(a) /\ u.top = p /\ u.count = a.count
        /\ u.node = a.node
    BY <1>1, <1>2, <1>4, SetTopEffect
  <2>2. Nodes(t) = {}
    <3>1. ASSUME NEW y \in Nodes(t)  PROVE FALSE
      <4>1. t.top \in Nodes(t)  BY TopIncludesAll
      <4> QED  BY <1>0, <1>4, <4>1
    <3> QED  BY <3>1
  <2>3. (Counted(t) => Counted(u))  BY <1>3, <2>1 DEF Counted
  <2>4. /\ Kid(u, p, 1) = NULL /\ Kid(u, p, 2) = NULL /\ Up(u, p) = NULL
        /\ Info(u, p) = NULL /\ Marks(u, p) = NULL /\ Locks(u, p) = 0
    BY <1>2, <2>1 DEF Kid, Up, Info, Marks, Locks
  <2>5. Linked(u)
    <3>1. Nodes(u) = {p}  BY <1>2, <2>1, <2>2
    <3> QED  BY <2>1, <2>4, <3>1 DEF Linked, LinkedUp, LinkedDown
  <2>6. Added(t, u, p)  BY <1>2, <2>1, <2>2, <2>4 DEF Added
  <2> QED  BY <2>1, <2>3, <2>5, <2>6
<1>5. CASE match # NULL
  <2>1. match \in Nodes(t) /\ match # p /\ Side(p, Len(match)) \in 1..2
    BY <1>0, <1>5, PrefixShape, SideIs
  <2>2. /\ u \in Table(Data)
        /\ Nodes(u) = Nodes(a) /\ u.top = a.top /\ u.count = a.count
        /\ \A y \in Nodes(a) :
             /\ \A b \in 1..2 : Kid(u, y, b) = IF y = match /\ b = Side(p, Len(match)) THEN p
                                               ELSE Kid(a, y, b)
             /\ Up(u, y) = IF y = p THEN match ELSE Up(a, y)
             /\ Info(u, y) = Info(a, y) /\ Marks(u, y) = Marks(a, y)
             /\ Locks(u, y) = Locks(a, y)
    <3>1. match \in Nodes(a) /\ p \in Nodes(a) /\ u = set_link(a, match, p)
      BY <1>1, <1>2, <2>1
    <3>2. u \in Table(Data) /\ Below(a, u, match, p)  BY <1>2, <3>1, SetLinkEffect
    <3> QED  BY <3>2 DEF Below
  <2>3. \A y \in Nodes(t) :
             /\ \A b \in 1..2 : Kid(u, y, b) = IF y = match /\ b = Side(p, Len(match)) THEN p
                                               ELSE Kid(t, y, b)
             /\ Up(u, y) = Up(t, y)
             /\ Info(u, y) = Info(t, y) /\ Marks(u, y) = Marks(t, y)
             /\ Locks(u, y) = Locks(t, y)
    BY <1>2, <2>2 DEF Kid, Up, Info, Marks, Locks
  <2>4. /\ Up(u, p) = match /\ Kid(u, p, 1) = NULL /\ Kid(u, p, 2) = NULL
        /\ Info(u, p) = NULL /\ Marks(u, p) = NULL /\ Locks(u, p) = 0
    BY <1>2, <2>1, <2>2
  <2>5. (Counted(t) => Counted(u))  BY <1>3, <2>2 DEF Counted
  <2>6. Linked(u)
    <3>1. Nodes(u) = Nodes(t) \cup {p} /\ u.top = t.top  BY <1>2, <2>2
    <3>2. /\ Includes(match, p) /\ Len(match) < Len(p)
          /\ Kid(t, match, Side(p, Len(match))) = NULL
      BY <1>5
    <3> QED  BY <2>1, <2>3, <2>4, <3>1, <3>2, AddLinked
  <2>7. Added(t, u, p)
    <3>1. p # NULL  BY <1>0
    <3> QED  BY <1>2, <2>2, <2>3, <2>4, <3>1 DEF Added
  <2> QED  BY <2>2, <2>5, <2>6, <2>7
<1> QED  BY <1>4, <1>5

\* The glue node g above x and below match.
Split(t, match, g, x) == set_link(set_link(db_node_set(t, g), g, x), match, g)

\* u is t with g between match and x.
Between(t, u, match, g, x) ==
    /\ Nodes(u) = Nodes(t) \cup {g} /\ u.top = IF match = NULL THEN g ELSE t.top
    /\ \A y \in Nodes(t) :
          /\ \A b \in 1..2 : Kid(u, y, b) = IF y = match /\ b = Side(g, Len(match))
                                            THEN g ELSE Kid(t, y, b)
          /\ Up(u, y) = IF y = x THEN g ELSE Up(t, y)
          /\ Info(u, y) = Info(t, y) /\ Marks(u, y) = Marks(t, y)
          /\ Locks(u, y) = Locks(t, y)
    /\ \A b \in 1..2 : Kid(u, g, b) = IF b = Side(x, Len(g)) THEN x ELSE NULL
    /\ Up(u, g) = match /\ Info(u, g) = NULL /\ Marks(u, g) = NULL /\ Locks(u, g) = 0

\* It is one node more, and the child of match and the parent of x.
LEMMA SplitEffect ==
    ASSUME NEW Data, NEW t \in Table(Data), NULL \in Data, NULL \notin Prefix,
           NEW g \in Prefix, g \notin Nodes(t), NEW match \in Nodes(t) \cup {NULL},
           NEW x \in Nodes(t), NEW u, u = Split(t, match, g, x)
    PROVE  u \in Table(Data) /\ (Counted(t) => Counted(u)) /\ Between(t, u, match, g, x)
<1>0. x # g /\ Nodes(t) \subseteq Prefix  BY TableShape
<1>1. PICK a : a = db_node_set(t, g)  OBVIOUS
<1>2. /\ a \in Table(Data)
      /\ Nodes(a) = Nodes(t) \cup {g} /\ a.top = t.top
      /\ \A y \in Nodes(t) : a.node[y] = t.node[y]
      /\ Kid(a, g, 1) = NULL /\ Kid(a, g, 2) = NULL /\ Up(a, g) = NULL
      /\ Info(a, g) = NULL /\ Marks(a, g) = NULL /\ Locks(a, g) = 0
  BY <1>1, NodeSetEffect
<1>3. (Counted(t) => Counted(a))  BY <1>1, NodeSetCounts
<1>4. PICK c : c = set_link(a, g, x)  OBVIOUS
<1>5. /\ c \in Table(Data)
      /\ Nodes(c) = Nodes(a) /\ c.top = a.top /\ c.count = a.count
      /\ \A y \in Nodes(a) :
           /\ \A b \in 1..2 : Kid(c, y, b) = IF y = g /\ b = Side(x, Len(g)) THEN x
                                             ELSE Kid(a, y, b)
           /\ Up(c, y) = IF y = x THEN g ELSE Up(a, y)
           /\ Info(c, y) = Info(a, y) /\ Marks(c, y) = Marks(a, y)
           /\ Locks(c, y) = Locks(a, y)
  <2>1. g \in Nodes(a) /\ x \in Nodes(a)  BY <1>2
  <2>2. c \in Table(Data) /\ Below(a, c, g, x)  BY <1>2, <1>4, <2>1, SetLinkEffect
  <2> QED  BY <2>2 DEF Below
<1>6. \A y \in Nodes(t) :
           /\ \A b \in 1..2 : Kid(c, y, b) = Kid(t, y, b)
           /\ Up(c, y) = IF y = x THEN g ELSE Up(t, y)
           /\ Info(c, y) = Info(t, y) /\ Marks(c, y) = Marks(t, y)
           /\ Locks(c, y) = Locks(t, y)
  BY <1>2, <1>5 DEF Kid, Up, Info, Marks, Locks
<1>7. /\ \A b \in 1..2 : Kid(c, g, b) = IF b = Side(x, Len(g)) THEN x ELSE NULL
      /\ Up(c, g) = NULL /\ Info(c, g) = NULL /\ Marks(c, g) = NULL /\ Locks(c, g) = 0
  BY <1>0, <1>2, <1>5
<1>8. u = set_link(c, match, g)  BY <1>1, <1>4 DEF Split
<1>9. CASE match = NULL
  <2>1. /\ u \in Table(Data) /\ Nodes(u) = Nodes(c) /\ u.top = g /\ u.count = c.count
        /\ u.node = c.node
    BY <1>2, <1>5, <1>8, <1>9, SetTopEffect
  <2>2. (Counted(t) => Counted(u))  BY <1>3, <1>5, <2>1 DEF Counted
  <2>3. \A y : /\ \A b \in 1..2 : Kid(u, y, b) = Kid(c, y, b)
               /\ Up(u, y) = Up(c, y) /\ Info(u, y) = Info(c, y) /\ Marks(u, y) = Marks(c, y)
                                      /\ Locks(u, y) = Locks(c, y)
    BY <2>1 DEF Kid, Up, Info, Marks, Locks
  <2>4. \A y \in Nodes(t) : y # match  BY <1>0, <1>9
  <2> QED  BY <1>2, <1>5, <1>6, <1>7, <1>9, <2>1, <2>2, <2>3, <2>4 DEF Between
<1>10. CASE match # NULL
  <2>0. match \in Nodes(t) /\ match # g  BY <1>10
  <2>1. /\ u \in Table(Data)
        /\ Nodes(u) = Nodes(c) /\ u.top = c.top /\ u.count = c.count
        /\ \A y \in Nodes(c) :
             /\ \A b \in 1..2 : Kid(u, y, b) = IF y = match /\ b = Side(g, Len(match)) THEN g
                                               ELSE Kid(c, y, b)
             /\ Up(u, y) = IF y = g THEN match ELSE Up(c, y)
             /\ Info(u, y) = Info(c, y) /\ Marks(u, y) = Marks(c, y)
             /\ Locks(u, y) = Locks(c, y)
    <3>1. match \in Nodes(c) /\ g \in Nodes(c)  BY <1>2, <1>5, <2>0
    <3>2. u \in Table(Data) /\ Below(c, u, match, g)  BY <1>5, <1>8, <3>1, SetLinkEffect
    <3> QED  BY <3>2 DEF Below
  <2>2. (Counted(t) => Counted(u))  BY <1>3, <1>5, <2>1 DEF Counted
  <2>3. \A y \in Nodes(t) : y # g /\ y \in Nodes(c)  BY <1>2, <1>5
  <2>4. g \in Nodes(c)  BY <1>2, <1>5
  <2> QED  BY <1>2, <1>5, <1>6, <1>7, <1>10, <2>0, <2>1, <2>2, <2>3, <2>4
       DEF Between
<1> QED  BY <1>9, <1>10

\* The second half of db_node_get (db_table.c 459-474): another node is in the way
\* of p.  A glue node takes its place, and p is the glue node or hangs below it.
LEMMA ForkEffect ==
    ASSUME NEW Data, NEW t \in Table(Data), NULL \in Data, Linked(t),
           NEW p \in Prefix, p \notin Nodes(t), NEW match, NEW x,
           InTheWay(t, p, match, x), NEW g, g = route_common(x, p),
           NEW u, u = IF g = p THEN Split(t, match, g, x)
                      ELSE set_link(db_node_set(Split(t, match, g, x), p), g, p)
    PROVE  u \in Table(Data) /\ Linked(u) /\ (Counted(t) => Counted(u)) /\ Added(t, u, p)
<1>0. /\ Nodes(t) \subseteq Prefix /\ NULL \notin Prefix
      /\ x \in Nodes(t) /\ x \in Prefix /\ match \in Nodes(t) \cup {NULL}
  BY DbTableAssumption, Zenon DEF Linked, InTheWay
<1>1. /\ g \in Prefix /\ g \notin Nodes(t)
      /\ g # p => Len(g) < Len(p) /\ Side(p, Len(g)) # Side(x, Len(g))
  BY GlueIs
<1>2. Side(x, Len(g)) \in 1..2 /\ Side(p, Len(g)) \in 1..2
  BY <1>0, <1>1, PrefixShape, SideIs
<1>3. PICK s : s = Split(t, match, g, x)  OBVIOUS
<1>4. /\ s \in Table(Data) /\ (Counted(t) => Counted(s))
      /\ Nodes(s) = Nodes(t) \cup {g} /\ s.top = IF match = NULL THEN g ELSE t.top
      /\ \A y \in Nodes(t) :
           /\ \A b \in 1..2 : Kid(s, y, b) = IF y = match /\ b = Side(g, Len(match))
                                             THEN g ELSE Kid(t, y, b)
           /\ Up(s, y) = IF y = x THEN g ELSE Up(t, y)
           /\ Info(s, y) = Info(t, y) /\ Marks(s, y) = Marks(t, y)
           /\ Locks(s, y) = Locks(t, y)
      /\ \A b \in 1..2 : Kid(s, g, b) = IF b = Side(x, Len(g)) THEN x ELSE NULL
      /\ Up(s, g) = match /\ Info(s, g) = NULL /\ Marks(s, g) = NULL /\ Locks(s, g) = 0
  <2>1. s \in Table(Data) /\ (Counted(t) => Counted(s)) /\ Between(t, s, match, g, x)
    BY <1>0, <1>1, <1>3, SplitEffect
  <2> QED  BY <2>1 DEF Between
<1>5. /\ u \in Table(Data) /\ (Counted(t) => Counted(u))
      /\ Nodes(u) = Nodes(t) \cup {g, p} /\ u.top = IF match = NULL THEN g ELSE t.top
      /\ \A y \in Nodes(t) :
           /\ \A b \in 1..2 : Kid(u, y, b) = IF y = match /\ b = Side(g, Len(match))
                                             THEN g ELSE Kid(t, y, b)
           /\ Up(u, y) = IF y = x THEN g ELSE Up(t, y)
           /\ Info(u, y) = Info(t, y) /\ Marks(u, y) = Marks(t, y)
           /\ Locks(u, y) = Locks(t, y)
      /\ \A b \in 1..2 : Kid(u, g, b) = IF b = Side(x, Len(g)) THEN x
                                        ELSE IF g = p THEN NULL ELSE p
      /\ Up(u, g) = match /\ Info(u, g) = NULL /\ Marks(u, g) = NULL
      /\ Info(u, p) = NULL /\ Marks(u, p) = NULL /\ Locks(u, p) = 0
      /\ g # p => Up(u, p) = g /\ Kid(u, p, 1) = NULL /\ Kid(u, p, 2) = NULL
  <2>1. CASE g = p
    <3>1. u = s  BY <1>3, <2>1
    <3>2. Nodes(s) = Nodes(t) \cup {g, p}  BY <1>4, <2>1
    <3> QED  BY <1>4, <2>1, <3>1, <3>2
  <2>2. CASE g # p
    <3>1. PICK a : a = db_node_set(s, p)  OBVIOUS
    <3>2. p \notin Nodes(s) /\ g \in Nodes(s)  BY <1>4, <2>2
    <3>3. /\ a \in Table(Data)
          /\ Nodes(a) = Nodes(s) \cup {p} /\ a.top = s.top
          /\ \A y \in Nodes(s) : a.node[y] = s.node[y]
          /\ Kid(a, p, 1) = NULL /\ Kid(a, p, 2) = NULL
          /\ Info(a, p) = NULL /\ Marks(a, p) = NULL /\ Locks(a, p) = 0
      BY <1>4, <3>1, <3>2, NodeSetEffect
    <3>4. (Counted(t) => Counted(a))  BY <1>4, <3>1, <3>2, NodeSetCounts
    <3>5. u = set_link(a, g, p)  BY <1>3, <2>2, <3>1
    <3>6. g \in Nodes(a) /\ p \in Nodes(a)  BY <3>2, <3>3
    <3>7. u \in Table(Data) /\ Below(a, u, g, p)  BY <3>3, <3>5, <3>6, SetLinkEffect
    <3>8. (Counted(t) => Counted(u))  BY <3>4, <3>7 DEF Below, Counted
    <3>9. \A y \in Nodes(s) :
            /\ \A b \in 1..2 : Kid(u, y, b) = IF y = g /\ b = Side(p, Len(g)) THEN p
                                              ELSE Kid(s, y, b)
            /\ Up(u, y) = Up(s, y)
            /\ Info(u, y) = Info(s, y) /\ Marks(u, y) = Marks(s, y)
            /\ Locks(u, y) = Locks(s, y)
      BY <3>2, <3>3, <3>7 DEF Below, Kid, Up, Info, Marks, Locks
    <3>10. /\ Up(u, p) = g /\ Kid(u, p, 1) = NULL /\ Kid(u, p, 2) = NULL
           /\ Info(u, p) = NULL /\ Marks(u, p) = NULL /\ Locks(u, p) = 0
      BY <2>2, <3>3, <3>6, <3>7 DEF Below
    <3>11. Nodes(u) = Nodes(t) \cup {g, p} /\ u.top = s.top
      BY <1>4, <3>3, <3>7 DEF Below
    <3>12. \A y \in Nodes(t) : y # g /\ y \in Nodes(s)  BY <1>1, <1>4
    <3>13. \A b \in 1..2 : Kid(u, g, b) = IF b = Side(x, Len(g)) THEN x ELSE p
      <4>1. \A b \in 1..2 : b = Side(p, Len(g)) \/ b = Side(x, Len(g))
        BY <1>1, <1>2, <2>2
      <4> QED  BY <1>1, <1>4, <2>2, <3>2, <3>9, <4>1
    <3> QED  BY <1>4, <2>2, <3>2, <3>7, <3>8, <3>9, <3>10, <3>11, <3>12, <3>13
  <2> QED  BY <2>1, <2>2
<1>6. Linked(u)  BY <1>5, ForkLinked
<1>7. Added(t, u, p)
  <2>1. g # NULL /\ p # NULL /\ x # NULL  BY <1>0, <1>1
  <2>2. \A y \in Nodes(u) \ (Nodes(t) \cup {p}) :
          Info(u, y) = NULL /\ Marks(u, y) = NULL /\ \A b \in 1..2 : Kid(u, y, b) # NULL
    BY <1>5, <2>1
  <2>3. \A y \in Nodes(t) : \A b \in 1..2 : Kid(t, y, b) # NULL => Kid(u, y, b) # NULL
    BY <1>5, <2>1
  <2> QED  BY <1>5, <2>2, <2>3 DEF Added
<1> QED  BY <1>5, <1>6, <1>7

\* db_node_get finds or adds the node of p and locks it; it keeps the table
\* linked and its counter exact, and disturbs no other node's data or lock.
LEMMA GetEffect ==
    ASSUME NEW Data, NEW t \in Table(Data), NULL \in Data, Linked(t),
           NEW p \in Prefix, NEW u, u = db_node_get(t, p)
    PROVE  /\ u \in Table(Data) /\ Linked(u) /\ (Counted(t) => Counted(u))
           /\ Nodes(t) \cup {p} \subseteq Nodes(u)
           /\ \A y \in Nodes(t) : /\ Info(u, y) = Info(t, y) /\ Marks(u, y) = Marks(t, y)
                                  /\ y # p => Locks(u, y) = Locks(t, y)
                                  /\ \A b \in 1..2 : Kid(t, y, b) # NULL => Kid(u, y, b) # NULL
           /\ p \notin Nodes(t) => Info(u, p) = NULL /\ Marks(u, p) = NULL
           /\ Locks(u, p) > 0
           /\ \A y \in Nodes(u) \ (Nodes(t) \cup {p}) :
                 Info(u, y) = NULL /\ Marks(u, y) = NULL /\ \A b \in 1..2 : Kid(u, y, b) # NULL
<1>0. Nodes(t) \subseteq Prefix /\ NULL \notin Prefix
  BY DbTableAssumption, Zenon DEF Linked
<1>1. PICK node, match, g, a, s, f :
         /\ node = Walk(t, p, p)[MaxLen + 1] /\ match = Last(Visited(t, p) \ {p})
         /\ g = route_common(node, p)
         /\ a = set_link(db_node_set(t, p), match, p)
         /\ s = Split(t, match, g, node)
         /\ f = IF g = p THEN s ELSE set_link(db_node_set(s, p), g, p)
  OBVIOUS
<1>2. PICK w : w = IF node = p THEN t ELSE IF node = NULL THEN a ELSE f  OBVIOUS
<1>3. u = db_lock_node(w, p)
  BY <1>1, <1>2 DEF db_node_get, Split
<1>4. /\ node \in Nodes(t) \cup {NULL}
      /\ p \in Nodes(t) <=> node = p
      /\ p \notin Nodes(t) => node = NULL \/ ~Includes(node, p)
      /\ p \notin Nodes(t) /\ match = NULL => node = t.top
      /\ p \notin Nodes(t) /\ match # NULL =>
            /\ match \in Nodes(t) /\ Includes(match, p) /\ Len(match) < Len(p)
            /\ node = Kid(t, match, Side(p, Len(match)))
  BY <1>1, GetFinds
<1>5. w \in Table(Data) /\ Linked(w) /\ (Counted(t) => Counted(w)) /\ Added(t, w, p)
  <2>1. CASE node = p
    <3>1. w = t /\ p \in Nodes(t)  BY <1>2, <1>4, <2>1
    <3> QED  BY <3>1 DEF Added
  <2>2. CASE node # p /\ node = NULL
    <3>1. w = set_link(db_node_set(t, p), match, p) /\ p \notin Nodes(t)
      BY <1>1, <1>2, <1>4, <2>2
    <3>2. /\ match \in Nodes(t) \cup {NULL}
          /\ match = NULL => t.top = NULL
          /\ match # NULL => /\ Includes(match, p) /\ Len(match) < Len(p)
                             /\ Kid(t, match, Side(p, Len(match))) = NULL
      BY <1>4, <2>2
    <3> QED  BY <3>1, <3>2, AddEffect
  <2>3. CASE node # p /\ node # NULL
    <3>1. /\ p \notin Nodes(t)
          /\ w = IF g = p THEN Split(t, match, g, node)
                 ELSE set_link(db_node_set(Split(t, match, g, node), p), g, p)
      BY <1>1, <1>2, <1>4, <2>3
    <3>2. InTheWay(t, p, match, node)  BY <1>4, <2>3 DEF InTheWay
    <3> QED  BY <1>1, <3>1, <3>2, ForkEffect
  <2> QED  BY <2>1, <2>2, <2>3
<1>6. p \in Nodes(w)  BY <1>5 DEF Added
<1>7. Locks(w, p) \in Nat
  BY <1>5, <1>6, TableShape DEF Locks, Node
<1>8. PICK n \in Nat : n = Locks(w, p) + 1 /\ n > 0  BY <1>7
<1>9. u = [w EXCEPT !.node[p].lock = n]
  BY <1>3, <1>8 DEF db_lock_node, Locks
<1>10. /\ u \in Table(Data)
       /\ Nodes(u) = Nodes(w) /\ u.top = w.top /\ u.count = w.count
       /\ \A y \in Nodes(w) :
            /\ \A b \in 1..2 : Kid(u, y, b) = Kid(w, y, b)
            /\ Up(u, y) = Up(w, y) /\ Info(u, y) = Info(w, y) /\ Marks(u, y) = Marks(w, y)
            /\ Locks(u, y) = IF y = p THEN n ELSE Locks(w, y)
  BY <1>5, <1>6, <1>9, LockEffect
<1>11. Linked(u)  BY <1>5, <1>10, SameLinks
<1>12. (Counted(t) => Counted(u))  BY <1>5, <1>10 DEF Counted
<1>13. ASSUME NEW y \in Nodes(t)
       PROVE  /\ Info(u, y) = Info(t, y) /\ Marks(u, y) = Marks(t, y)
              /\ y # p => Locks(u, y) = Locks(t, y)
              /\ \A b \in 1..2 : Kid(t, y, b) # NULL => Kid(u, y, b) # NULL
  BY <1>5, <1>10 DEF Added
<1> QED  BY <1>5, <1>6, <1>8, <1>10, <1>11, <1>12, <1>13 DEF Added

\* The child that replaces x.
Child(t, x) == IF Kid(t, x, 1) # NULL THEN Kid(t, x, 1) ELSE Kid(t, x, 2)

\* x has two children.
Fork(t, x) == Kid(t, x, 1) # NULL /\ Kid(t, x, 2) # NULL

\* u is t with x replaced by its child.
Replaced(t, u, x) ==
    /\ Nodes(u) = Nodes(t) \ {x} /\ u.count = t.count - 1
    /\ u.top = IF Up(t, x) = NULL THEN Child(t, x) ELSE t.top
    /\ \A y \in Nodes(t) \ {x} :
          /\ \A b \in 1..2 : Kid(u, y, b) = IF y = Up(t, x) /\ b = Side(x, Len(Up(t, x)))
                                            THEN Child(t, x) ELSE Kid(t, y, b)
          /\ Up(u, y) = IF y = Child(t, x) THEN Up(t, x) ELSE Up(t, y)
          /\ Info(u, y) = Info(t, y) /\ Locks(u, y) = Locks(t, y)

\* What hangs below x.
LEMMA ChildIs ==
    ASSUME NEW t, Linked(t), NEW x \in Nodes(t), NEW c, c = Child(t, x), c # NULL
    PROVE  /\ c \in Nodes(t) /\ Up(t, c) = x /\ Len(x) < Len(c) /\ Includes(x, c)
<1>0. Nodes(t) \subseteq Prefix /\ NULL \notin Prefix
  BY DbTableAssumption, Zenon DEF Linked
<1>1. LinkedDown(t, x)  BY DEF Linked
<1>2. PICK b \in 1..2 : c = Kid(t, x, b)  BY DEF Child
<1>3. c \in Nodes(t) /\ Up(t, c) = x  BY <1>1, <1>2 DEF LinkedDown
<1>4. LinkedUp(t, c) /\ x # NULL  BY <1>0, <1>3 DEF Linked
<1> QED  BY <1>3, <1>4 DEF LinkedUp

\* The body of db_node_delete (db_table.c 494-516) does just that: the side of the
\* parent it writes to is the side of x.
LEMMA UnlinkEffect ==
    ASSUME NEW Data, NEW t \in Table(Data), Linked(t), NEW x \in Nodes(t),
           NEW u, u = db_node_unlink(t, x)
    PROVE  u \in Table(Data) /\ Replaced(t, u, x)
<1>0. /\ Nodes(t) \subseteq Prefix /\ NULL \notin Prefix
      /\ t.node \in [Nodes(t) -> Node(Data)]
  BY DbTableAssumption, TableShape, Zenon
<1> DEFINE child  == IF t.node[x].link[1] # NULL THEN t.node[x].link[1]
                     ELSE t.node[x].link[2]
           parent == t.node[x].parent
           side   == IF parent = NULL THEN 0
                     ELSE CHOOSE b \in 1..2 : t.node[parent].link[b] = x
           top    == IF parent = NULL THEN child ELSE t.top
           f      == [y \in Nodes(t) \ {x} |->
                        IF y = parent THEN [t.node[y] EXCEPT !.link[side] = child]
                        ELSE IF y = child THEN [t.node[y] EXCEPT !.parent = parent]
                        ELSE t.node[y]]
           count  == t.count - 1
<1>18. u = [t EXCEPT !.top = top, !.node = f, !.count = count]
  BY DEF db_node_unlink
<1> HIDE DEF f, count, top
<1>8. u = [top |-> top, node |-> f, count |-> count]
  <2>1. PICK a, b, c : a = top /\ b = f /\ c = count  OBVIOUS
  <2>2. u = [t EXCEPT !.top = a, !.node = b, !.count = c]  BY <1>18, <2>1
  <2>3. u = [top |-> a, node |-> b, count |-> c]  BY <2>2 DEF Table
  <2> QED  BY <2>1, <2>3
<1>1. child = Child(t, x) /\ parent = Up(t, x)  BY DEF Child, Up, Kid
<1> HIDE DEF child, parent
<1>2. side = IF parent = NULL THEN 0
             ELSE CHOOSE b \in 1..2 : t.node[parent].link[b] = x
  OBVIOUS
<1> HIDE DEF side
<1>3. child \in Pointer /\ parent \in Pointer
  <2>1. t.node[x] \in Node(Data)  BY <1>0
  <2>2. t.node[x].link \in [1..2 -> Pointer] /\ t.node[x].parent \in Pointer
    BY <2>1 DEF Node
  <2> QED  BY <1>1, <2>2 DEF Child, Up, Kid
<1>4. ASSUME parent # NULL
      PROVE  /\ parent \in Nodes(t) /\ parent # x /\ parent # child
             /\ side \in 1..2 /\ side = Side(x, Len(parent))
  <2>1. /\ parent \in Nodes(t) /\ Len(parent) < Len(x)
        /\ Kid(t, parent, Side(x, Len(parent))) = x
    BY <1>1, <1>4 DEF Linked, LinkedUp
  <2>2. Len(parent) \in Nat /\ Len(x) \in Nat /\ x # NULL  BY <1>0, <2>1, PrefixShape
  <2>3. Side(x, Len(parent)) \in 1..2  BY <1>0, <2>2, SideIs
  <2>4. \E b \in 1..2 : t.node[parent].link[b] = x  BY <2>1, <2>3 DEF Kid
  <2>5. side \in 1..2 /\ Kid(t, parent, side) = x
    <3>1. side = CHOOSE b \in 1..2 : t.node[parent].link[b] = x  BY <1>2, <1>4
    <3> QED  BY <2>4, <3>1 DEF Kid
  <2>6. LinkedDown(t, parent)  BY <2>1 DEF Linked
  <2>7. side = Side(x, Len(parent))  BY <2>2, <2>5, <2>6 DEF LinkedDown
  <2>8. parent # child
    <3>1. ASSUME parent = child  PROVE FALSE
      <4>1. Len(x) < Len(child)  BY <1>1, <1>4, <3>1, ChildIs
      <4> QED  BY <2>1, <2>2, <3>1, <4>1
    <3> QED  BY <3>1
  <2> QED  BY <2>1, <2>2, <2>5, <2>7, <2>8
<1>5. top = IF parent = NULL THEN child ELSE t.top  BY DEF top
<1>6. count = t.count - 1  BY DEF count
<1>7. f = [y \in Nodes(t) \ {x} |->
             IF y = parent THEN [t.node[y] EXCEPT !.link[side] = child]
             ELSE IF y = child THEN [t.node[y] EXCEPT !.parent = parent]
             ELSE t.node[y]]
  BY DEF f
<1>9. ASSUME NEW y \in Nodes(t) \ {x}
      PROVE  /\ f[y] \in Node(Data)
             /\ \A b \in 1..2 : f[y].link[b] = IF y = parent /\ b = side THEN child
                                               ELSE Kid(t, y, b)
             /\ f[y].parent = IF y = child THEN parent ELSE Up(t, y)
             /\ f[y].info = Info(t, y) /\ f[y].lock = Locks(t, y)
  <2>0. t.node[y] \in Node(Data) /\ y # NULL  BY <1>0
  <2>1. CASE y = parent
    <3>0. side \in 1..2 /\ y # child  BY <1>4, <2>0, <2>1
    <3>1. PICK link : link = [t.node[y].link EXCEPT ![side] = child]  OBVIOUS
    <3>2. t.node[y].link \in [1..2 -> Pointer]  BY <2>0 DEF Node
    <3>3. /\ link \in [1..2 -> Pointer]
          /\ \A b \in 1..2 : link[b] = IF b = side THEN child ELSE Kid(t, y, b)
      BY <1>3, <3>0, <3>1, <3>2 DEF Kid
    <3>4. f[y] = [t.node[y] EXCEPT !.link = link]  BY <1>7, <2>1, <3>1
    <3>5. /\ f[y] \in Node(Data) /\ f[y].link = link /\ f[y].parent = t.node[y].parent
          /\ f[y].info = t.node[y].info /\ f[y].lock = t.node[y].lock
      BY <2>0, <3>3, <3>4 DEF Node
    <3> QED  BY <2>1, <3>0, <3>3, <3>5 DEF Up, Info, Locks
  <2>2. CASE y # parent /\ y = child
    <3>1. f[y] = [t.node[y] EXCEPT !.parent = parent]  BY <1>7, <2>2
    <3>2. /\ f[y] \in Node(Data) /\ f[y].link = t.node[y].link /\ f[y].parent = parent
          /\ f[y].info = t.node[y].info /\ f[y].lock = t.node[y].lock
      BY <1>3, <2>0, <3>1 DEF Node
    <3> QED  BY <2>2, <3>2 DEF Up, Info, Locks, Kid
  <2>3. CASE y # parent /\ y # child
    <3>1. f[y] = t.node[y]  BY <1>7, <2>3
    <3> QED  BY <2>0, <2>3, <3>1 DEF Up, Info, Locks, Kid
  <2> QED  BY <2>1, <2>2, <2>3
<1>10. f \in [Nodes(t) \ {x} -> Node(Data)]  BY <1>7, <1>9
<1>11. top \in Pointer /\ count \in Int /\ Nodes(t) \ {x} \in SUBSET Prefix
  BY <1>0, <1>3, <1>5, <1>6, TableShape
<1>12. u \in Table(Data) /\ Nodes(u) = Nodes(t) \ {x}
  BY <1>8, <1>10, <1>11, TableIntro
<1>13. ASSUME NEW y \in Nodes(t) \ {x}
       PROVE  /\ \A b \in 1..2 : Kid(u, y, b) = IF y = parent /\ b = Side(x, Len(parent))
                                                THEN child ELSE Kid(t, y, b)
              /\ Up(u, y) = IF y = child THEN parent ELSE Up(t, y)
              /\ Info(u, y) = Info(t, y) /\ Locks(u, y) = Locks(t, y)
  <2>1. u.node[y] = f[y]  BY <1>8
  <2>2. y = parent => side = Side(x, Len(parent))  BY <1>0, <1>4
  <2> QED  BY <1>9, <2>1, <2>2 DEF Kid, Up, Info, Locks
<1> QED  BY <1>1, <1>5, <1>6, <1>8, <1>12, <1>13 DEF Replaced

\* Replacing a node by its only child keeps the table linked.
LEMMA ReplacedLinked ==
    ASSUME NEW t, Linked(t), NEW x \in Nodes(t), ~Fork(t, x), NEW u, Replaced(t, u, x)
    PROVE  Linked(u)
<1>0. /\ Nodes(t) \subseteq Prefix /\ NULL \notin Prefix /\ t.top \in Nodes(t) \cup {NULL}
  BY DbTableAssumption, Zenon DEF Linked
<1>1. PICK child, parent : child = Child(t, x) /\ parent = Up(t, x)  OBVIOUS
<1>2. /\ Nodes(u) = Nodes(t) \ {x}
      /\ u.top = IF parent = NULL THEN child ELSE t.top
      /\ \A y \in Nodes(t) \ {x} :
            /\ \A b \in 1..2 : Kid(u, y, b) = IF y = parent /\ b = Side(x, Len(parent))
                                              THEN child ELSE Kid(t, y, b)
            /\ Up(u, y) = IF y = child THEN parent ELSE Up(t, y)
  BY <1>1 DEF Replaced
<1>3. child # NULL => /\ child \in Nodes(t) /\ Up(t, child) = x /\ Len(x) < Len(child)
                      /\ Includes(x, child)
  BY <1>1, ChildIs
<1>4. x # NULL /\ x \in Prefix /\ Len(x) \in Nat  BY <1>0, PrefixShape
<1>5. child # x
  BY <1>3, <1>4
<1>6. LinkedUp(t, x)  BY DEF Linked
<1>7. /\ x = t.top <=> parent = NULL
      /\ parent # NULL => /\ parent \in Nodes(t) \ {x} /\ Len(parent) < Len(x)
                          /\ Includes(parent, x) /\ Kid(t, parent, Side(x, Len(parent))) = x
                          /\ Len(parent) \in Nat /\ Side(x, Len(parent)) \in 1..2
  BY <1>0, <1>1, <1>4, <1>6, PrefixShape, SideIs DEF LinkedUp
<1>8. ASSUME NEW y \in Nodes(t), Up(t, y) = x  PROVE y = child
  <2>1. LinkedUp(t, y)  BY DEF Linked
  <2>2. Kid(t, x, Side(y, Len(x))) = y  BY <1>4, <1>8, <2>1 DEF LinkedUp
  <2>3. Side(y, Len(x)) \in 1..2 /\ y # NULL  BY <1>0, <1>4, SideIs
  <2>4. Side(y, Len(x)) = 1 \/ Side(y, Len(x)) = 2  BY <2>3
  <2> QED  BY <1>1, <2>2, <2>3, <2>4 DEF Child, Fork
<1>9. ASSUME NEW y \in Nodes(u)  PROVE LinkedUp(u, y)
  <2>0. y \in Nodes(t) /\ y # x /\ y # NULL /\ LinkedUp(t, y)
    BY <1>0, <1>2 DEF Linked
  <2>1. CASE y = child
    <3>1. Up(u, y) = parent  BY <1>2, <2>0, <2>1
    <3>2. y = u.top <=> parent = NULL
      <4>1. y # t.top  BY <1>3, <1>4, <2>0, <2>1 DEF LinkedUp
      <4> QED  BY <1>2, <2>1, <4>1
    <3>3. CASE parent # NULL
      <4>1. Len(child) \in Nat /\ Len(parent) < Len(child)
        BY <1>0, <1>3, <1>4, <1>7, <2>0, <2>1, <3>3, PrefixShape
      <4>2. Includes(parent, child)
        BY <1>0, <1>3, <1>7, <2>0, <2>1, <3>3, IncludesOrder
      <4>3. Side(x, Len(parent)) = Side(child, Len(parent))
        BY <1>0, <1>3, <1>4, <1>7, <2>0, <2>1, <3>3, SameSide
      <4>4. Kid(u, parent, Side(child, Len(parent))) = child
        BY <1>2, <1>7, <3>3, <4>3
      <4> QED  BY <1>2, <1>7, <2>1, <3>1, <3>2, <3>3, <4>1, <4>2, <4>4 DEF LinkedUp
    <3> QED  BY <3>1, <3>2, <3>3 DEF LinkedUp
  <2>2. CASE y # child
    <3>1. Up(u, y) = Up(t, y) /\ Up(t, y) # x  BY <1>2, <1>8, <2>0, <2>2
    <3>2. y = u.top <=> Up(u, y) = NULL  BY <1>2, <1>7, <2>0, <2>2, <3>1 DEF LinkedUp
    <3>3. CASE Up(t, y) # NULL
      <4>1. PICK m \in Nodes(t) \ {x} :
               /\ m = Up(t, y) /\ Len(m) < Len(y) /\ Includes(m, y)
               /\ Kid(t, m, Side(y, Len(m))) = y
        BY <2>0, <3>1, <3>3 DEF LinkedUp
      <4>2. Side(y, Len(m)) \in 1..2  BY <1>0, <2>0, SideIs, PrefixShape
      <4>3. ~(m = parent /\ Side(y, Len(m)) = Side(x, Len(parent)))
        BY <1>0, <1>7, <2>0, <4>1
      <4>4. Kid(u, m, Side(y, Len(m))) = y  BY <1>2, <4>1, <4>2, <4>3
      <4> QED  BY <1>2, <3>1, <3>2, <4>1, <4>4 DEF LinkedUp
    <3> QED  BY <3>1, <3>2, <3>3 DEF LinkedUp
  <2> QED  BY <2>1, <2>2
<1>10. ASSUME NEW y \in Nodes(u)  PROVE LinkedDown(u, y)
  <2>0. y \in Nodes(t) /\ y # x /\ y # NULL /\ LinkedDown(t, y)
    BY <1>0, <1>2 DEF Linked
  <2>1. SUFFICES ASSUME NEW b \in 1..2, Kid(u, y, b) # NULL
                 PROVE  /\ Kid(u, y, b) \in Nodes(u) /\ Up(u, Kid(u, y, b)) = y
                        /\ Side(Kid(u, y, b), Len(y)) = b
    BY DEF LinkedDown
  <2>2. CASE y = parent /\ b = Side(x, Len(parent))
    <3>1. Kid(u, y, b) = child /\ child # NULL  BY <1>2, <2>0, <2>1, <2>2
    <3>2. child \in Nodes(t) \ {x} /\ Up(u, child) = parent  BY <1>2, <1>3, <1>5, <3>1
    <3>3. Side(x, Len(parent)) = Side(child, Len(parent))
      BY <1>0, <1>3, <1>4, <1>7, <2>0, <2>2, <3>1, SameSide
    <3> QED  BY <1>2, <2>2, <3>1, <3>2, <3>3
  <2>3. CASE ~(y = parent /\ b = Side(x, Len(parent)))
    <3>1. PICK k : k = Kid(t, y, b)  OBVIOUS
    <3>2. Kid(u, y, b) = k  BY <1>2, <2>0, <2>3, <3>1
    <3>3. k \in Nodes(t) /\ Up(t, k) = y /\ Side(k, Len(y)) = b
      BY <2>0, <2>1, <3>1, <3>2 DEF LinkedDown
    <3>4. k # x  BY <1>1, <2>3, <3>3
    <3>5. k # child  BY <1>0, <1>3, <2>0, <3>3
    <3> QED  BY <1>2, <3>2, <3>3, <3>4, <3>5
  <2> QED  BY <2>2, <2>3
<1>11. u.top \in Nodes(u) \cup {NULL}
  <2>1. CASE parent = NULL  BY <1>2, <1>3, <1>5, <2>1
  <2>2. CASE parent # NULL  BY <1>0, <1>2, <1>7, <2>2
  <2> QED  BY <2>1, <2>2
<1>12. Nodes(u) \subseteq Prefix  BY <1>0, <1>2
<1> QED  BY <1>9, <1>10, <1>11, <1>12 DEF Linked

\* A node nobody holds is a fork without data.
Settled(t, y) == Locks(t, y) = 0 => Info(t, y) = NULL /\ Fork(t, y)

\* r is what is left of t when nodes without data have been removed.
Pruned(t, r) ==
    /\ Nodes(r) \subseteq Nodes(t)
    /\ \A y \in Nodes(r) : Info(r, y) = Info(t, y)
    /\ \A y \in Nodes(t) \ Nodes(r) : Info(t, y) = NULL

\* The state of db_node_delete between two rounds: every node but the one it is
\* at is settled.
Deleting(Data, t, d) ==
    /\ d.t \in Table(Data) /\ Linked(d.t) /\ Counted(d.t) /\ Pruned(t, d.t)
    /\ d.x \in Nodes(d.t) \cup {NULL}
    /\ \A y \in Nodes(d.t) : y # d.x => Settled(d.t, y)
    /\ d.x # NULL => (Locks(d.t, d.x) = 0 => Info(d.t, d.x) = NULL)

\* One round.
Round(d) == IF \/ d.x = NULL
               \/ Locks(d.t, d.x) > 0
               \/ Fork(d.t, d.x)
            THEN [d EXCEPT !.x = NULL]
            ELSE [t |-> db_node_unlink(d.t, d.x), x |-> Up(d.t, d.x)]

\* A round keeps the state and climbs: the next node is shorter.
LEMMA RoundKeeps ==
    ASSUME NEW Data, NEW t0, NEW t, NEW x, NEW d, d = [t |-> t, x |-> x],
           Deleting(Data, t0, d), NEW e, e = Round(d)
    PROVE  /\ e = [t |-> e.t, x |-> e.x] /\ Deleting(Data, t0, e)
           /\ e.x # NULL => x # NULL /\ Len(e.x) < Len(x)
<1>0. /\ t \in Table(Data) /\ Linked(t) /\ Counted(t) /\ Pruned(t0, t)
      /\ x \in Nodes(t) \cup {NULL}
      /\ \A y \in Nodes(t) : y # x => Settled(t, y)
      /\ x # NULL => (Locks(t, x) = 0 => Info(t, x) = NULL)
  BY DEF Deleting
<1>1. Nodes(t) \subseteq Prefix /\ NULL \notin Prefix
  BY <1>0, DbTableAssumption, Zenon DEF Linked
<1>2. CASE x = NULL \/ Locks(t, x) > 0 \/ Fork(t, x)
  <2>1. e = [d EXCEPT !.x = NULL]  BY <1>2 DEF Round
  <2>2. e = [t |-> t, x |-> NULL]  BY <2>1
  <2>3. x # NULL => Settled(t, x)
    <3>1. ASSUME x # NULL  PROVE Settled(t, x)
      <4>1. CASE Locks(t, x) > 0  BY <4>1 DEF Settled
      <4>2. CASE Fork(t, x)  BY <1>0, <3>1, <4>2 DEF Settled
      <4> QED  BY <1>2, <3>1, <4>1, <4>2
    <3> QED  BY <3>1
  <2>4. \A y \in Nodes(t) : Settled(t, y)  BY <1>0, <1>1, <2>3
  <2> QED  BY <1>0, <2>2, <2>4 DEF Deleting
<1>3. CASE ~(x = NULL \/ Locks(t, x) > 0 \/ Fork(t, x))
  <2>1. PICK u : u = db_node_unlink(t, x)  OBVIOUS
  <2>2. e = [t |-> u, x |-> Up(t, x)]  BY <1>3, <2>1 DEF Round
  <2>3. x \in Nodes(t) /\ x # NULL /\ ~Fork(t, x)  BY <1>0, <1>3
  <2>4. u \in Table(Data) /\ Replaced(t, u, x)  BY <1>0, <2>1, <2>3, UnlinkEffect
  <2>5. Linked(u)  BY <1>0, <2>3, <2>4, ReplacedLinked
  <2>6. Locks(t, x) = 0
    <3>1. Locks(t, x) \in Nat  BY <1>0, <2>3, TableShape DEF Locks, Node
    <3> QED  BY <1>3, <3>1
  <2>7. Info(t, x) = NULL  BY <1>0, <2>3, <2>6
  <2>8. Counted(u)
    <3>1. IsFiniteSet(Nodes(t)) /\ t.count = Cardinality(Nodes(t))  BY <1>0 DEF Counted
    <3>2. /\ IsFiniteSet(Nodes(t) \ {x})
          /\ Cardinality(Nodes(t) \ {x}) = Cardinality(Nodes(t)) - 1
      BY <2>3, <3>1, FS_RemoveElement
    <3> QED  BY <2>4, <3>1, <3>2 DEF Counted, Replaced
  <2>9. Pruned(t0, u)
    <3>1. Nodes(u) = Nodes(t) \ {x} /\ \A y \in Nodes(u) : Info(u, y) = Info(t, y)
      BY <2>4 DEF Replaced
    <3> QED  BY <1>0, <2>3, <2>7, <3>1 DEF Pruned
  <2>10. LinkedUp(t, x)  BY <1>0, <2>3 DEF Linked
  <2>11. Up(t, x) # NULL => /\ Up(t, x) \in Nodes(u) /\ Len(Up(t, x)) < Len(x)
    <3>1. Up(t, x) # NULL => Up(t, x) \in Nodes(t) /\ Len(Up(t, x)) < Len(x)
      BY <2>10 DEF LinkedUp
    <3>2. Len(x) \in Nat  BY <1>1, <2>3, PrefixShape
    <3>3. Up(t, x) # NULL => Up(t, x) # x  BY <3>1, <3>2
    <3> QED  BY <2>4, <3>1, <3>3 DEF Replaced
  <2>12. ASSUME NEW y \in Nodes(u), y # Up(t, x)  PROVE Settled(u, y)
    <3>1. y \in Nodes(t) \ {x} /\ Settled(t, y)  BY <1>0, <2>4 DEF Replaced
    <3>2. /\ Kid(u, y, 1) = Kid(t, y, 1) /\ Kid(u, y, 2) = Kid(t, y, 2)
          /\ Info(u, y) = Info(t, y) /\ Locks(u, y) = Locks(t, y)
      BY <2>4, <2>12, <3>1 DEF Replaced
    <3> QED  BY <3>1, <3>2 DEF Settled, Fork
  <2>13. Up(t, x) # NULL => (Locks(u, Up(t, x)) = 0 => Info(u, Up(t, x)) = NULL)
    <3>1. ASSUME Up(t, x) # NULL  PROVE Locks(u, Up(t, x)) = 0 => Info(u, Up(t, x)) = NULL
      <4>1. PICK m \in Nodes(t) \ {x} : m = Up(t, x)
        BY <2>4, <2>11, <3>1 DEF Replaced
      <4>2. Settled(t, m)  BY <1>0
      <4>3. Info(u, m) = Info(t, m) /\ Locks(u, m) = Locks(t, m)
        BY <2>4 DEF Replaced
      <4> QED  BY <4>1, <4>2, <4>3 DEF Settled
    <3> QED  BY <3>1
  <2> QED  BY <2>2, <2>3, <2>4, <2>5, <2>8, <2>9, <2>11, <2>12, <2>13 DEF Deleting
<1> QED  BY <1>2, <1>3

\* db_node_delete removes x and the stubs above it, and nothing that has data.
LEMMA DeleteEffect ==
    ASSUME NEW Data, NEW t \in Table(Data), Linked(t), Counted(t), NEW x \in Nodes(t),
           \A y \in Nodes(t) \ {x} : Settled(t, y), Info(t, x) = NULL,
           NEW r, r = db_node_delete(t, x)
    PROVE  /\ r \in Table(Data) /\ Linked(r) /\ Counted(r) /\ Pruned(t, r)
           /\ \A y \in Nodes(r) : Settled(r, y)
<1>0. Nodes(t) \subseteq Prefix /\ NULL \notin Prefix /\ MaxLen \in Nat
  BY DbTableAssumption, Zenon DEF Linked
<1>1. PICK N \in Nat : N = MaxLen + 1  BY <1>0
<1> DEFINE round(d) == IF \/ d.x = NULL
                          \/ d.t.node[d.x].lock > 0
                          \/ d.t.node[d.x].link[1] # NULL /\ d.t.node[d.x].link[2] # NULL
                       THEN [d EXCEPT !.x = NULL]
                       ELSE [t |-> db_node_unlink(d.t, d.x), x |-> d.t.node[d.x].parent]
           Is(f) == f = [n \in 0..(MaxLen + 1) |-> IF n = 0 THEN [t |-> t, x |-> x]
                                                   ELSE round(f[n - 1])]
           Pair == {[t |-> p[1], x |-> p[2]] : p \in Table(Data) \X Pointer}
<1>2. \A d : round(d) = Round(d)
  BY DEF Round, Locks, Fork, Kid, Up
<1>3. r = (CHOOSE f : Is(f))[MaxLen + 1].t  BY DEF db_node_delete
<1> HIDE DEF round
<1>4. PICK S, step, d0 : /\ S = {d \in Pair : Deleting(Data, t, d)}
                         /\ step = [d \in S |-> Round(d)]
                         /\ d0 = [t |-> t, x |-> x]
  OBVIOUS
<1>5. d0 \in S
  <2>1. d0.t = t /\ d0.x = x  BY <1>4
  <2>2. Pruned(t, t)  BY DEF Pruned
  <2>3. Deleting(Data, t, d0)  BY <2>1, <2>2 DEF Deleting
  <2>4. x \in Pointer  BY <1>0 DEF Pointer
  <2>5. d0 \in Pair
    <3>1. PICK p : p = <<t, x>>  OBVIOUS
    <3>2. p \in Table(Data) \X Pointer /\ d0 = [t |-> p[1], x |-> p[2]]
      BY <1>4, <2>4, <3>1
    <3> QED  BY <3>2
  <2> QED  BY <1>4, <2>3, <2>5
<1>6. ASSUME NEW d \in S
      PROVE  /\ d.t \in Table(Data) /\ Deleting(Data, t, d)
             /\ Round(d) \in S /\ (Round(d).x # NULL => d.x # NULL /\ Len(Round(d).x) < Len(d.x))
  <2>1. PICK a \in Table(Data), b \in Pointer : d = [t |-> a, x |-> b]  BY <1>4
  <2>2. Deleting(Data, t, d) /\ d.x = b /\ d.t = a  BY <1>4, <2>1
  <2>3. PICK e : e = Round(d)  OBVIOUS
  <2>4. /\ e = [t |-> e.t, x |-> e.x] /\ Deleting(Data, t, e)
        /\ e.x # NULL => b # NULL /\ Len(e.x) < Len(b)
    BY <2>1, <2>2, <2>3, RoundKeeps
  <2>5. e.t \in Table(Data) /\ e.x \in Pointer
    BY <2>4, TableShape DEF Deleting, Pointer
  <2>6. e \in Pair
    <3>1. <<e.t, e.x>> \in Table(Data) \X Pointer  BY <2>5
    <3> QED  BY <2>4, <3>1
  <2>7. e \in S  BY <1>4, <2>4, <2>6
  <2> QED  BY <2>2, <2>3, <2>4, <2>7
<1> HIDE DEF Pair
<1>7. step \in [S -> S]  BY <1>4, <1>6
<1>8. PICK g : IsRun(g, S, d0, step, N)  BY <1>1, <1>5, <1>7, Iterates
<1>9. g \in [0..N -> S] /\ g[0] = d0 /\ \A n \in 1..N : g[n] = step[g[n - 1]]
  BY <1>8 DEF IsRun
<1>10. \A n \in 1..N : g[n - 1] \in S /\ g[n] = round(g[n - 1])
  <2>1. \A n \in 1..N : g[n - 1] \in S  BY <1>1, <1>9
  <2> QED  BY <1>2, <1>4, <1>9, <2>1
<1>11. Is(g)  BY <1>1, <1>4, <1>9, <1>10
<1>12. PICK f : f = CHOOSE h : Is(h)  OBVIOUS
<1>13. Is(f)  BY <1>11, <1>12
<1>14. f[0] = d0 /\ \A n \in 1..N : f[n] = Round(f[n - 1])
  <2>1. f = [n \in 0..N |-> IF n = 0 THEN d0 ELSE round(f[n - 1])]
    BY <1>1, <1>4, <1>13, Zenon
  <2>2. f[0] = d0 /\ \A n \in 1..N : f[n] = round(f[n - 1])  BY <1>1, <2>1
  <2> QED  BY <1>2, <2>2
<1> DEFINE T == {n \in Nat : n <= N => /\ f[n] \in S
                                       /\ f[n].x # NULL => Len(f[n].x) + n <= MaxLen}
<1>15. 0 \in T
  <2>1. Len(x) \in 0..MaxLen /\ Len(x) \in Nat  BY <1>0, PrefixShape
  <2>2. Len(x) + 0 <= MaxLen  BY <1>0, <2>1
  <2>3. f[0].x = x  BY <1>4, <1>14
  <2> QED  BY <1>5, <1>14, <2>2, <2>3
<1>16. ASSUME NEW n \in T  PROVE n + 1 \in T
  <2>1. n \in Nat  BY <1>16
  <2>2. CASE n + 1 <= N
    <3>1. n + 1 \in 1..N /\ (n + 1) - 1 = n /\ n <= N  BY <1>1, <2>1, <2>2
    <3>2. PICK d \in S : d = f[n] /\ (d.x # NULL => Len(d.x) + n <= MaxLen)  BY <1>16, <3>1
    <3>3. f[n + 1] = Round(d)  BY <1>14, <3>1, <3>2
    <3>4. PICK e \in S : e = f[n + 1] /\ (e.x # NULL => d.x # NULL /\ Len(e.x) < Len(d.x))
      BY <1>6, <3>3
    <3>5. e.x # NULL => Len(e.x) + (n + 1) <= MaxLen
      <4>1. ASSUME e.x # NULL  PROVE Len(e.x) + (n + 1) <= MaxLen
        <5>1. Linked(e.t) /\ e.x \in Nodes(e.t)  BY <1>6, <4>1 DEF Deleting
        <5>2. Linked(d.t) /\ d.x \in Nodes(d.t)  BY <1>6, <3>4, <4>1 DEF Deleting
        <5>3. Len(e.x) \in Nat /\ Len(d.x) \in Nat
          BY <5>1, <5>2, PrefixShape DEF Linked
        <5>4. PICK i \in Nat, j \in Nat : i = Len(e.x) /\ j = Len(d.x)  BY <5>3
        <5>5. i < j /\ j + n <= MaxLen  BY <3>2, <3>4, <4>1, <5>4
        <5>6. i + (n + 1) <= MaxLen  BY <1>0, <2>1, <5>5
        <5> QED  BY <5>4, <5>6
      <4> QED  BY <4>1
    <3>6. n + 1 \in Nat  BY <2>1
    <3> QED  BY <3>4, <3>5, <3>6
  <2> QED  BY <1>1, <2>1, <2>2
<1>17. T = Nat
  <2>1. T \subseteq Nat  OBVIOUS
  <2> HIDE DEF T
  <2> QED  BY <1>15, <1>16, <2>1, Induction
<1>18. PICK d \in S : d = f[N] /\ (d.x # NULL => Len(d.x) + N <= MaxLen)
  BY <1>1, <1>17
<1>19. Deleting(Data, t, d)  BY <1>6
<1>20. d.x = NULL
  <2>1. ASSUME d.x # NULL  PROVE FALSE
    <3>1. Linked(d.t) /\ d.x \in Nodes(d.t)  BY <1>19, <2>1 DEF Deleting
    <3>2. Len(d.x) \in Nat  BY <3>1, PrefixShape DEF Linked
    <3>3. PICK i \in Nat : i = Len(d.x)  BY <3>2
    <3>4. i + N <= MaxLen  BY <1>18, <2>1, <3>3
    <3> QED  BY <1>0, <1>1, <3>4
  <2> QED  BY <2>1
<1>21. r = d.t  BY <1>1, <1>3, <1>12, <1>18
<1>22. \A y \in Nodes(r) : y # NULL
  BY <1>0, <1>19, <1>21 DEF Deleting, Linked
<1> QED  BY <1>19, <1>20, <1>21, <1>22 DEF Deleting
============================================================================
