------------------------- MODULE SortingLoop_proofs -------------------------
(***************************************************************************)
(* The loop of flex_sort (sorting.c:51-121) computes longest-prefix match, *)
(* for every width, every byte size, every table and every EID.  Three     *)
(* arguments meet: comparing bytes and masked leftovers is comparing bits  *)
(* (SameBitsIsAgree), cutting the length of the EID on the way changes no  *)
(* answer (Cut), and the running maximum is the last of the longest        *)
(* matches seen so far (ScanInvariant).                                    *)
(***************************************************************************)
EXTENDS SortingLoop, WellFoundedInduction, TLAPS

\* Every non-empty set of naturals has a least element.
LEMMA LeastNatural ==
    ASSUME NEW T, T \subseteq Nat, T # {}
    PROVE  \E m \in T : \A k \in T : m <= k
<1>1. PICK m \in T : \A k \in T : <<k, m>> \notin OpToRel(<, Nat)
  BY NatLessThanWellFounded, WFMin
<1>2. ASSUME NEW k \in T PROVE m <= k
  <2>1. <<k, m>> \notin {ss \in Nat \X Nat : ss[1] < ss[2]}
    BY <1>1 DEF OpToRel
  <2> QED  BY <2>1
<1> QED  BY <1>2

\* A set of naturals with 0 and the successors of its members is all of them.
LEMMA Induction ==
    ASSUME NEW T, T \subseteq Nat, 0 \in T, \A n \in T : n + 1 \in T
    PROVE  T = Nat
<1>1. SUFFICES ASSUME Nat \ T # {}  PROVE FALSE
  OBVIOUS
<1>2. PICK m \in Nat \ T : \A k \in Nat \ T : m <= k
  BY <1>1, LeastNatural
<1>3. m - 1 \in T /\ (m - 1) + 1 = m
  BY <1>2
<1> QED  BY <1>2, <1>3

----------------------------------------------------------------------------
(***************************************************************************)
(* Bits, bytes and masks.                                                  *)
(***************************************************************************)
\* A position of an address is a place in a byte.
LEMMA Place ==
    ASSUME NEW B \in Nat \ {0}, NEW p \in Nat \ {0}
    PROVE  \E k \in Nat, b \in 1..B : p = k * B + b
<1>1. PICK q \in Nat : q = p - 1  OBVIOUS
<1>2. /\ q \div B \in Nat /\ q % B \in 0..(B - 1)
      /\ q = B * (q \div B) + (q % B)
  OBVIOUS
<1>3. PICK k \in Nat, r \in 0..(B - 1) : k = q \div B /\ r = q % B
  BY <1>2
<1>4. q = k * B + r  BY <1>2, <1>3
<1>5. r + 1 \in 1..B /\ p = k * B + (r + 1)  BY <1>1, <1>3, <1>4
<1> QED  BY <1>1, <1>3, <1>5

\* Bytes below the n-th hold the positions up to n * ByteBits.
LEMMA Before ==
    ASSUME NEW B \in Nat \ {0}, NEW k \in Nat, NEW n \in Nat, NEW b \in 1..B
    PROVE  /\ k < n => k * B + b <= n * B
           /\ k * B + b <= n * B => k < n
           /\ k * B + b \in Nat \ {0}
<1>0. PICK x \in Nat, y \in Nat : x = k * B /\ y = n * B
  OBVIOUS
<1>1. ASSUME NEW i \in Nat, NEW j \in Nat, i <= j  PROVE i * B <= j * B
  <2>1. PICK d \in Nat : j = i + d
    <3>1. j - i \in Nat /\ j = i + (j - i)  BY <1>1
    <3> QED  BY <3>1
  <2>2. j * B = i * B + d * B  BY <2>1
  <2>3. d * B \in Nat /\ i * B \in Nat  OBVIOUS
  <2> QED  BY <2>2, <2>3
<1>2. (k + 1) * B = x + B  BY <1>0
<1>3. k < n => x + B <= y
  <2>1. k < n => k + 1 <= n  OBVIOUS
  <2> QED  BY <1>0, <1>1, <1>2, <2>1
<1>4. n <= k => y <= x  BY <1>0, <1>1
<1> QED  BY <1>0, <1>3, <1>4

\* Two bytes are the same when their bits are.
LEMMA SameByte ==
    ASSUME NEW a, NEW c, NEW k
    PROVE  Byte(a, k) = Byte(c, k)
             <=> \A b \in 1..ByteBits : a[k * ByteBits + b] = c[k * ByteBits + b]
<1>1. \A b \in 1..ByteBits : /\ Byte(a, k)[b] = a[k * ByteBits + b]
                             /\ Byte(c, k)[b] = c[k * ByteBits + b]
  BY DEF Byte
<1> QED  BY <1>1 DEF Byte

\* Comparing whole bytes and masked leftover bits (sorting.c:89-105) is
\* comparing the first prefix_length bits.
LEMMA SameBitsIsAgree ==
    ASSUME NEW a \in Address, NEW stored \in AssignedEid
    PROVE  SameBits(a, stored) <=> Agree(a, stored.prefix, stored.prefix_length)
<1> PICK B \in Nat \ {0} : B = ByteBits  BY BytesAssumption
<1>0. PICK L \in Nat, c \in Address :
        L = stored.prefix_length /\ c = stored.prefix /\ L <= Width
  BY WidthAssumption DEF AssignedEid
<1>1. PICK w \in Nat, r \in 0..(B - 1) :
        w = L \div B /\ r = L % B /\ L = w * B + r
  <2>1. L \div B \in Nat /\ L % B \in 0..(B - 1)
    OBVIOUS
  <2>2. L = B * (L \div B) + (L % B)
    OBVIOUS
  <2>3. PICK w \in Nat, r \in 0..(B - 1) : w = L \div B /\ r = L % B
    BY <2>1
  <2> QED  BY <2>2, <2>3
<1> DEFINE mask == precomputed_masks[r]
<1>2. \A b \in 1..B : mask[b] = IF b <= r THEN 1 ELSE 0
  BY <1>1 DEF precomputed_masks
<1> HIDE DEF mask
<1>3. SameBits(a, stored) <=>
        /\ \A k \in 0..(w - 1) : Byte(a, k) = Byte(c, k)
        /\ r = 0 \/ BitAnd(Byte(a, w), mask) = BitAnd(Byte(c, w), mask)
  BY <1>0, <1>1 DEF SameBits, memcmp, mask
<1>4. \A i \in 1..Width : a[i] \in {0, 1} /\ c[i] \in {0, 1}
  BY <1>0 DEF Address
<1>5. ASSUME \A k \in 0..(w - 1) : Byte(a, k) = Byte(c, k),
             r = 0 \/ BitAnd(Byte(a, w), mask) = BitAnd(Byte(c, w), mask)
      PROVE  \A p \in 1..L : a[p] = c[p]
  <2> SUFFICES ASSUME NEW p \in 1..L  PROVE a[p] = c[p]
    OBVIOUS
  <2>0. p \in Nat \ {0}  BY <1>0
  <2>1. PICK k \in Nat, b \in 1..B : p = k * B + b
    BY <2>0, Place
  <2>2. CASE k < w
    <3>1. Byte(a, k) = Byte(c, k)  BY <1>5, <2>2
    <3> QED  BY <2>1, <3>1, SameByte
  <2>3. CASE ~(k < w)
    <3>1. (w + 1) * B = w * B + B /\ w * B \in Nat
      OBVIOUS
    <3>2. p <= (w + 1) * B
      BY <1>1, <3>1
    <3>3. k = w
      BY <2>1, <2>3, <3>2, Before
    <3>4. b <= r /\ r # 0
      BY <1>1, <2>1, <3>1, <3>3
    <3>5. BitAnd(Byte(a, w), mask)[b] = BitAnd(Byte(c, w), mask)[b]
      BY <1>5, <3>4
    <3>6. Byte(a, w)[b] = a[p] /\ Byte(c, w)[b] = c[p] /\ mask[b] = 1
      BY <1>2, <2>1, <3>3, <3>4 DEF Byte
    <3>7. a[p] = 1 <=> c[p] = 1
      BY <3>5, <3>6 DEF BitAnd
    <3>8. p \in 1..Width
      BY <1>0, WidthAssumption
    <3> QED  BY <1>4, <3>7, <3>8
  <2> QED  BY <2>2, <2>3
<1>6. ASSUME \A p \in 1..L : a[p] = c[p]
      PROVE  /\ \A k \in 0..(w - 1) : Byte(a, k) = Byte(c, k)
             /\ r = 0 \/ BitAnd(Byte(a, w), mask) = BitAnd(Byte(c, w), mask)
  <2>1. ASSUME NEW k \in 0..(w - 1)  PROVE Byte(a, k) = Byte(c, k)
    <3>1. ASSUME NEW b \in 1..B  PROVE a[k * B + b] = c[k * B + b]
      <4>1. k \in Nat /\ k < w  BY <2>1
      <4>2. k * B + b <= w * B /\ k * B + b \in Nat \ {0} /\ w * B \in Nat
        BY <4>1, Before
      <4>3. k * B + b \in 1..L  BY <1>1, <4>2
      <4> QED  BY <1>6, <4>3
    <3> QED  BY <3>1, SameByte
  <2>2. ASSUME NEW b \in 1..B
        PROVE  (Byte(a, w)[b] = 1 /\ mask[b] = 1) <=> (Byte(c, w)[b] = 1 /\ mask[b] = 1)
    <3>1. CASE b <= r
      <4>1. w * B + b \in 1..L
        <5>1. w * B \in Nat  OBVIOUS
        <5> QED  BY <1>1, <3>1, <5>1
      <4>2. a[w * B + b] = c[w * B + b]  BY <1>6, <4>1
      <4> QED  BY <4>2 DEF Byte
    <3>2. CASE ~(b <= r)
      <4>1. mask[b] = 0  BY <1>2, <3>2
      <4> QED  BY <4>1
    <3> QED  BY <3>1, <3>2
  <2>3. BitAnd(Byte(a, w), mask) = BitAnd(Byte(c, w), mask)
    BY <2>2 DEF BitAnd
  <2> QED  BY <2>1, <2>3
<1>7. Agree(a, c, L) <=> \A p \in 1..L : a[p] = c[p]
  BY DEF Agree
<1> QED  BY <1>0, <1>3, <1>5, <1>6, <1>7

\* An address whose bytes are all 0x00 (sorting.c:58-62) is the zero address.
LEMMA ZeroBytes ==
    ASSUME NEW a \in Address
    PROVE  (\A n \in Bytes : Byte(a, n) = ZeroByte) <=> a = ZeroAddress
<1> PICK B \in Nat \ {0} : B = ByteBits  BY BytesAssumption
<1> PICK W \in Nat \ {0} : W = Width  BY WidthAssumption
<1>1. PICK w \in Nat : w = W \div B /\ W = w * B
  <2>1. W \div B \in Nat  OBVIOUS
  <2>2. W = B * (W \div B) + (W % B)  OBVIOUS
  <2>3. PICK w \in Nat : w = W \div B  BY <2>1
  <2>4. W % B = 0  BY BytesAssumption
  <2>5. W = B * w  BY <2>2, <2>3, <2>4
  <2> QED  BY <2>3, <2>5
<1>2. Bytes = 0..(w - 1)  BY <1>1 DEF Bytes
<1>3. ASSUME \A n \in 0..(w - 1) : Byte(a, n) = ZeroByte
      PROVE  a = ZeroAddress
  <2>1. ASSUME NEW p \in 1..W  PROVE a[p] = 0
    <3>0. p \in Nat \ {0}  OBVIOUS
    <3>1. PICK k \in Nat, b \in 1..B : p = k * B + b
      BY <3>0, Place
    <3>2. k < w  BY <1>1, <3>1, Before
    <3>3. Byte(a, k)[b] = a[p]  BY <3>1 DEF Byte
    <3>4. ZeroByte[b] = 0  BY DEF ZeroByte
    <3> QED  BY <1>3, <3>2, <3>3, <3>4
  <2> QED  BY <2>1 DEF ZeroAddress, Address
<1>4. ASSUME a = ZeroAddress, NEW n \in 0..(w - 1)
      PROVE  Byte(a, n) = ZeroByte
  <2>1. ASSUME NEW b \in 1..B  PROVE a[n * B + b] = 0
    <3>1. n \in Nat /\ n < w  OBVIOUS
    <3>2. n * B + b \in 1..W  BY <1>1, <3>1, Before
    <3> QED  BY <1>4, <3>2 DEF ZeroAddress
  <2> QED  BY <2>1 DEF Byte, ZeroByte
<1> QED  BY <1>2, <1>3, <1>4

----------------------------------------------------------------------------
(***************************************************************************)
(* The loop.                                                               *)
(***************************************************************************)
\* A table of n assignments with well-formed EIDs.
LoopTable(table, n) ==
    /\ DOMAIN table = 0..(n - 1)
    /\ \A i \in 0..(n - 1) : table[i].eid \in AssignedEid

Start(eid) == [max |-> -1, index |-> Unwritten, length |-> eid.prefix_length]

\* g holds the values of the loop for k rounds.
Runs(g, k, table, eid, exact) ==
    /\ g[0] = Start(eid)
    /\ \A i \in 1..k : g[i] = Round(g[i - 1], table[i - 1], eid.prefix, exact)

\* The loop is defined: its values follow one from the other.
LEMMA ScanRuns ==
    ASSUME NEW n \in Nat, NEW table, NEW eid, NEW exact
    PROVE  Runs(Scan(table, eid, exact, n), n, table, eid, exact)
<1> DEFINE step(v, i) == Round(v, table[i - 1], eid.prefix, exact)
           Good(g, k) == g[0] = Start(eid) /\ \A i \in 1..k : g[i] = step(g[i - 1], i)
           T == {k \in Nat : \E g : Good(g, k)}
<1>1. 0 \in T
  <2>1. Good([i \in 0..0 |-> Start(eid)], 0)  OBVIOUS
  <2> QED  BY <2>1
<1>2. ASSUME NEW k \in T  PROVE k + 1 \in T
  <2>1. k \in Nat  BY <1>2
  <2>2. PICK g : Good(g, k)  BY <1>2
  <2> HIDE DEF step
  <2>3. PICK h : h = [i \in 0..(k + 1) |-> IF i = k + 1 THEN step(g[k], k + 1) ELSE g[i]]
    OBVIOUS
  <2>4. h[0] = Start(eid) /\ h[k + 1] = step(h[k], k + 1)
    BY <2>1, <2>2, <2>3
  <2>5. ASSUME NEW i \in 1..k  PROVE h[i] = step(h[i - 1], i)
    <3>1. /\ i \in 0..(k + 1) /\ i - 1 \in 0..(k + 1)
          /\ i # k + 1 /\ i - 1 # k + 1
      BY <2>1
    <3>2. h[i] = g[i] /\ h[i - 1] = g[i - 1]  BY <2>3, <3>1
    <3> QED  BY <2>2, <3>2
  <2>6. 1..(k + 1) = 1..k \cup {k + 1}  BY <2>1
  <2>7. Good(h, k + 1)  BY <2>4, <2>5, <2>6
  <2> QED  BY <2>1, <2>7
<1>3. T = Nat
  <2>1. T \subseteq Nat  OBVIOUS
  <2> HIDE DEF T
  <2> QED  BY <1>1, <1>2, <2>1, Induction
<1>4. PICK g : Good(g, n)  BY <1>3
<1> DEFINE Is(f) == f = [i \in 0..n |-> IF i = 0 THEN Start(eid)
                                        ELSE Round(f[i - 1], table[i - 1], eid.prefix, exact)]
<1>5. PICK f : f = [i \in 0..n |-> g[i]]  OBVIOUS
<1>6. Is(f)
  <2>1. ASSUME NEW i \in 0..n, i # 0
        PROVE  g[i] = Round(f[i - 1], table[i - 1], eid.prefix, exact)
    <3>1. i \in 1..n /\ i - 1 \in 0..n  BY <2>1
    <3>2. f[i - 1] = g[i - 1]  BY <1>5, <3>1
    <3> QED  BY <1>4, <3>1, <3>2
  <2>2. g[0] = Start(eid)  BY <1>4
  <2> QED  BY <1>5, <2>1, <2>2
<1>7. Scan(table, eid, exact, n) = CHOOSE f1 : Is(f1)
  BY DEF Scan, Start
<1>8. Is(Scan(table, eid, exact, n))
  BY <1>6, <1>7
<1>9. PICK s : s = Scan(table, eid, exact, n)  OBVIOUS
<1>10. s[0] = Start(eid)
  BY <1>8, <1>9
<1>11. ASSUME NEW i \in 1..n
       PROVE  s[i] = Round(s[i - 1], table[i - 1], eid.prefix, exact)
  BY <1>8, <1>9
<1> QED  BY <1>9, <1>10, <1>11 DEF Runs

\* The length of the EID may have been cut to Width; an exact search never cuts.
CutLength(length, eid, exact) ==
    \/ length = eid.prefix_length
    \/ ~exact /\ length = Sanitized(eid.prefix_length)

\* That (sorting.c:85-87) changes none of the comparisons that follow, since no
\* assigned prefix is longer.
LEMMA Cut ==
    ASSUME NEW eid \in Eid, NEW exact \in BOOLEAN, NEW stored \in AssignedEid,
           NEW length, CutLength(length, eid, exact)
    PROVE  /\ Compared(length, stored, exact) <=>
                /\ exact => eid.prefix_length = stored.prefix_length
                /\ eid.prefix_length >= stored.prefix_length
           /\ Compared(length, stored, exact) =>
                CutLength(Sanitized(length), eid, exact)
<1>1. PICK L \in Nat, S \in Nat, W \in Nat :
        /\ L = eid.prefix_length /\ S = stored.prefix_length /\ W = Width
        /\ S <= W
  BY WidthAssumption DEF Eid, AssignedEid
<1>2. /\ length \in Nat
      /\ \/ length = L
         \/ ~exact /\ length = (IF L > W THEN W ELSE L)
  BY <1>1 DEF CutLength, Sanitized
<1>3. Compared(length, stored, exact) <=> (exact => L = S) /\ L >= S
  BY <1>1, <1>2 DEF Compared
<1>4. ASSUME Compared(length, stored, exact)
      PROVE  CutLength(Sanitized(length), eid, exact)
  <2>1. CASE exact
    <3>1. length = L /\ L = S  BY <1>2, <1>3, <1>4, <2>1
    <3> QED  BY <1>1, <3>1 DEF Sanitized, CutLength
  <2>2. CASE ~exact
    BY <1>1, <1>2, <2>2 DEF Sanitized, CutLength
  <2> QED  BY <2>1, <2>2
<1> QED  BY <1>1, <1>3, <1>4

\* The entries among the first i that cover the EID.
Seen(table, eid, exact, i) ==
    {j \in 0..(i - 1) : Matches(eid, table[j].eid, exact)}

\* What the loop knows after i rounds: the last of the longest matches so far.
BestSoFar(s, table, eid, exact, i) ==
    /\ CutLength(s.length, eid, exact)
    /\ Seen(table, eid, exact, i) = {} => s.max = -1
    /\ Seen(table, eid, exact, i) # {} =>
         \E c \in Seen(table, eid, exact, i) :
            /\ s.max = table[c].eid.prefix_length
            /\ s.index = table[c].assignee_index
            /\ \A j \in Seen(table, eid, exact, i) : LaterOrLonger(table, c, j)

\* One round keeps it (sorting.c:76-112).
LEMMA RoundKeeps ==
    ASSUME NEW n \in Nat, NEW table, LoopTable(table, n), NEW eid \in Eid,
           NEW exact \in BOOLEAN, NEW i \in 0..(n - 1),
           NEW s, BestSoFar(s, table, eid, exact, i),
           NEW t, t = Round(s, table[i], eid.prefix, exact)
    PROVE  BestSoFar(t, table, eid, exact, i + 1)
<1> DEFINE length(j) == table[j].eid.prefix_length
           seen == Seen(table, eid, exact, i)
           more == Seen(table, eid, exact, i + 1)
<1>0. /\ table[i].eid \in AssignedEid /\ eid.prefix \in Address
      /\ \A j \in 0..i : length(j) \in Nat
  BY WidthAssumption DEF LoopTable, AssignedEid, Eid
<1>1. CutLength(s.length, eid, exact)  BY DEF BestSoFar
<1>2. Matches(eid, table[i].eid, exact) <=>
        /\ Compared(s.length, table[i].eid, exact)
        /\ SameBits(eid.prefix, table[i].eid)
  BY <1>0, <1>1, Cut, SameBitsIsAgree DEF Matches
<1>3. more = IF Matches(eid, table[i].eid, exact) THEN seen \cup {i} ELSE seen
  <2>1. 0..((i + 1) - 1) = 0..(i - 1) \cup {i} /\ i \notin 0..(i - 1)
    OBVIOUS
  <2> QED  BY <2>1 DEF Seen
<1>4. seen \subseteq 0..(i - 1)  BY DEF Seen
<1>5. CASE ~Matches(eid, table[i].eid, exact)
  <2>1. more = seen  BY <1>3, <1>5
  <2>2. CutLength(t.length, eid, exact) /\ t.max = s.max /\ t.index = s.index
    <3>1. CASE ~Compared(s.length, table[i].eid, exact)
      <4>1. t = s  BY <3>1 DEF Round
      <4> QED  BY <1>1, <4>1
    <3>2. CASE Compared(s.length, table[i].eid, exact)
      <4>1. t = [s EXCEPT !.length = Sanitized(s.length)]
        BY <1>2, <1>5, <3>2 DEF Round
      <4>2. CutLength(Sanitized(s.length), eid, exact)
        BY <1>0, <1>1, <3>2, Cut
      <4> QED  BY <4>1, <4>2
    <3> QED  BY <3>1, <3>2
  <2> QED  BY <2>1, <2>2 DEF BestSoFar
<1>6. CASE Matches(eid, table[i].eid, exact)
  <2>1. more = seen \cup {i}  BY <1>3, <1>6
  <2>2. CutLength(Sanitized(s.length), eid, exact)
    BY <1>0, <1>1, <1>2, <1>6, Cut
  <2>3. CASE length(i) >= s.max
    <3>1. t = [max |-> length(i), index |-> table[i].assignee_index,
               length |-> Sanitized(s.length)]
      BY <1>2, <1>6, <2>3 DEF Round, Improves
    <3>2. ASSUME NEW j \in more PROVE LaterOrLonger(table, i, j)
      <4>1. CASE j = i
        BY <1>0, <4>1 DEF LaterOrLonger
      <4>2. CASE j # i
        <5>1. j \in seen  BY <2>1, <4>2
        <5>2. PICK c \in seen : s.max = length(c) /\ LaterOrLonger(table, c, j)
          BY <5>1 DEF BestSoFar
        <5>3. /\ j <= i /\ c \in 0..i /\ j \in 0..i
          BY <1>4, <5>1
        <5>4. PICK x \in Nat, y \in Nat, z \in Nat :
                x = length(i) /\ y = length(j) /\ z = length(c)
          BY <1>0, <5>3
        <5>5. x >= z /\ z >= y
          BY <2>3, <5>2, <5>4 DEF LaterOrLonger
        <5> QED  BY <5>3, <5>4, <5>5 DEF LaterOrLonger
      <4> QED  BY <4>1, <4>2
    <3>3. /\ t.max = length(i) /\ t.index = table[i].assignee_index
          /\ t.length = Sanitized(s.length)
      BY <3>1
    <3> QED  BY <2>1, <2>2, <3>2, <3>3 DEF BestSoFar
  <2>4. CASE ~(length(i) >= s.max)
    <3>1. t = [s EXCEPT !.length = Sanitized(s.length)]
      BY <1>2, <1>6, <2>4 DEF Round, Improves
    <3>2. seen # {}
      <4>1. length(i) >= -1  BY <1>0
      <4> QED  BY <2>4, <4>1 DEF BestSoFar
    <3>3. PICK c \in seen : /\ s.max = length(c) /\ s.index = table[c].assignee_index
                            /\ \A j \in seen : LaterOrLonger(table, c, j)
      BY <3>2 DEF BestSoFar
    <3>4. LaterOrLonger(table, c, i)
      <4>1. c \in 0..i  BY <1>4
      <4>2. length(c) \in Nat /\ length(i) \in Nat  BY <1>0, <4>1
      <4>3. length(i) < length(c)  BY <2>4, <3>3, <4>2
      <4> QED  BY <4>3 DEF LaterOrLonger
    <3>5. t.max = s.max /\ t.index = s.index /\ t.length = Sanitized(s.length)
      BY <3>1
    <3> QED  BY <2>1, <2>2, <3>3, <3>4, <3>5 DEF BestSoFar
  <2> QED  BY <2>3, <2>4
<1> QED  BY <1>5, <1>6

\* So it holds at every round.
LEMMA ScanInvariant ==
    ASSUME NEW n \in Nat, NEW table, LoopTable(table, n), NEW eid \in Eid,
           NEW exact \in BOOLEAN
    PROVE  BestSoFar(Scan(table, eid, exact, n)[n], table, eid, exact, n)
<1>1. PICK s : s = Scan(table, eid, exact, n)  OBVIOUS
<1>2. /\ s[0] = Start(eid)
      /\ \A i \in 1..n : s[i] = Round(s[i - 1], table[i - 1], eid.prefix, exact)
  BY <1>1, ScanRuns DEF Runs
<1> DEFINE T == {k \in Nat : k <= n => BestSoFar(s[k], table, eid, exact, k)}
<1>3. 0 \in T
  <2>1. Seen(table, eid, exact, 0) = {}  BY DEF Seen
  <2>2. s[0].max = -1 /\ s[0].length = eid.prefix_length  BY <1>2 DEF Start
  <2> QED  BY <2>1, <2>2 DEF BestSoFar, CutLength
<1>4. ASSUME NEW k \in T  PROVE k + 1 \in T
  <2>1. k \in Nat  BY <1>4
  <2> SUFFICES ASSUME k + 1 <= n PROVE BestSoFar(s[k + 1], table, eid, exact, k + 1)
    BY <2>1
  <2>2. k \in 0..(n - 1) /\ k + 1 \in 1..n /\ (k + 1) - 1 = k  BY <2>1
  <2>3. BestSoFar(s[k], table, eid, exact, k)  BY <1>4, <2>1
  <2>4. s[k + 1] = Round(s[k], table[k], eid.prefix, exact)  BY <1>2, <2>2
  <2> QED  BY <2>2, <2>3, <2>4, RoundKeeps
<1>5. T = Nat
  <2>1. T \subseteq Nat  OBVIOUS
  <2> HIDE DEF T
  <2> QED  BY <1>3, <1>4, <2>1, Induction
<1> QED  BY <1>1, <1>5

\* For every table, EID and default the loop of flex_sort (sorting.c:51-121)
\* answers what the closed form of Sorting answers: longest-prefix match, the
\* later of two equally long entries, the default without a match.
THEOREM LoopIsFlexSort ==
    ASSUME NEW n \in Nat, NEW table, LoopTable(table, n), NEW eid \in Eid,
           NEW exact \in BOOLEAN, NEW planes, NEW default
    PROVE  SortingLoopResult(table, planes, default, eid, exact, n)
             = flex_sort(table, planes, default, eid, exact)
<1> DEFINE zeroes == \A k \in Bytes : Byte(eid.prefix, k) = ZeroByte
           s == Scan(table, eid, exact, n)[n]
           all == Candidates(table, eid, exact)
<1>1. Seen(table, eid, exact, n) = all
  BY DEF Seen, Candidates, LoopTable
<1>2. zeroes <=> eid.prefix = ZeroAddress
  <2>1. eid.prefix \in Address  BY DEF Eid
  <2> QED  BY <2>1, ZeroBytes
<1>3. /\ eid = get_undefined_eid <=> zeroes /\ eid.prefix_length = Width
      /\ eid = get_broadcast_eid <=> zeroes /\ eid.prefix_length = 0
  <2>1. eid = [prefix |-> eid.prefix, prefix_length |-> eid.prefix_length]
    BY DEF Eid
  <2> HIDE DEF zeroes
  <2>2. eid = get_undefined_eid <=> zeroes /\ eid.prefix_length = Width
    BY <1>2, <2>1 DEF get_undefined_eid
  <2>3. eid = get_broadcast_eid <=> zeroes /\ eid.prefix_length = 0
    BY <1>2, <2>1 DEF get_broadcast_eid
  <2> QED  BY <2>2, <2>3
<1>4. BestSoFar(s, table, eid, exact, n)
  BY ScanInvariant
<1>5. ASSUME all = {}  PROVE s.max = -1
  BY <1>1, <1>4, <1>5 DEF BestSoFar
<1>6. ASSUME all # {}
      PROVE  s.max > -1 /\ s.index = table[Chosen(table, eid, exact)].assignee_index
  <2>1. PICK c \in all : /\ s.max = table[c].eid.prefix_length
                         /\ s.index = table[c].assignee_index
                         /\ \A j \in all : LaterOrLonger(table, c, j)
    BY <1>1, <1>4, <1>6 DEF BestSoFar
  <2>2. \A j \in all : table[j].eid.prefix_length \in Nat /\ j \in Nat
    BY WidthAssumption DEF Candidates, LoopTable, AssignedEid
  <2>3. PICK d : d = Chosen(table, eid, exact)  OBVIOUS
  <2> HIDE DEF all
  <2>4. d \in all /\ \A j \in all : LaterOrLonger(table, d, j)
    BY <2>1, <2>3 DEF Chosen, all
  <2>5. d = c
    <3>1. LaterOrLonger(table, c, d) /\ LaterOrLonger(table, d, c)
      BY <2>1, <2>4
    <3>2. PICK x \in Nat, y \in Nat :
            x = table[c].eid.prefix_length /\ y = table[d].eid.prefix_length
      BY <2>1, <2>2, <2>4
    <3>3. c \in Nat /\ d \in Nat  BY <2>1, <2>2, <2>4
    <3> QED  BY <3>1, <3>2, <3>3 DEF LaterOrLonger
  <2> QED  BY <2>1, <2>2, <2>3, <2>5
<1>7. SortingLoopResult(table, planes, default, eid, exact, n) =
        IF planes = 0 THEN Verdict("ERR", Unwritten)
        ELSE IF zeroes /\ eid.prefix_length = 0 THEN Verdict("ALL", Unwritten)
        ELSE IF zeroes /\ eid.prefix_length = Width THEN Verdict("ERR", Unwritten)
        ELSE IF s.max > -1 THEN Verdict("ONE", s.index)
        ELSE Verdict("NON", default)
  BY DEF SortingLoopResult
<1>8. 0 # Width  BY WidthAssumption
<1>9. s.max = -1 => ~(s.max > -1)  OBVIOUS
<1> HIDE DEF zeroes, s, all
<1>10. flex_sort(table, planes, default, eid, exact) =
        IF planes = 0 \/ eid = get_undefined_eid THEN Verdict("ERR", Unwritten)
        ELSE IF eid = get_broadcast_eid THEN Verdict("ALL", Unwritten)
        ELSE IF all # {}
        THEN Verdict("ONE", table[Chosen(table, eid, exact)].assignee_index)
        ELSE Verdict("NON", default)
  BY DEF flex_sort, all
<1> QED  BY <1>3, <1>5, <1>6, <1>7, <1>8, <1>9, <1>10

----------------------------------------------------------------------------
\* The tables the specification grows.
Grown == \E n \in 0..MaxEntries : LoopTable(assignments, n)

\* The number of entries is read off the domain.
LEMMA Counted ==
    ASSUME NEW n \in 0..MaxEntries, LoopTable(assignments, n)
    PROVE  EntryCount = n
<1>1. \A m \in Nat : 0..(m - 1) = 0..(n - 1) => m = n
  <2> SUFFICES ASSUME NEW m \in Nat, 0..(m - 1) = 0..(n - 1), m # n  PROVE FALSE
    OBVIOUS
  <2>1. n \in Nat  BY BytesAssumption
  <2>2. CASE m < n
    <3>1. m \in 0..(n - 1) /\ m \notin 0..(m - 1)  BY <2>1, <2>2
    <3> QED  BY <3>1
  <2>3. CASE n < m
    <3>1. n \in 0..(m - 1) /\ n \notin 0..(n - 1)  BY <2>1, <2>3
    <3> QED  BY <3>1
  <2> QED  BY <2>1, <2>2, <2>3
<1>2. DOMAIN assignments = 0..(n - 1)  BY DEF LoopTable
<1>3. 0..MaxEntries \subseteq Nat  BY BytesAssumption
<1> QED  BY <1>1, <1>2, <1>3 DEF EntryCount

\* Every table the specification reaches is one, entry by entry.
LEMMA TablesGrow == Spec => []Grown
<1>1. Init => Grown
  <2> SUFFICES ASSUME Init PROVE Grown  OBVIOUS
  <2>1. 0 \in 0..MaxEntries  BY BytesAssumption
  <2>2. LoopTable(assignments, 0)  BY DEF Init, LoopTable
  <2> QED  BY <2>1, <2>2 DEF Grown
<1>2. Grown /\ [Next]_assignments => Grown'
  <2> SUFFICES ASSUME Grown, [Next]_assignments PROVE Grown'  OBVIOUS
  <2>1. CASE UNCHANGED assignments
    BY <2>1 DEF Grown, LoopTable
  <2>2. CASE Next
    <3>1. PICK n \in 0..MaxEntries : LoopTable(assignments, n)  BY DEF Grown
    <3>2. PICK eid \in TriedEids : Append(eid)  BY <2>2 DEF Next
    <3>3. EntryCount = n /\ n < MaxEntries /\ n \in Nat
      BY <3>1, <3>2, Counted, BytesAssumption DEF Append
    <3>4. n + 1 \in 0..MaxEntries /\ (n + 1) - 1 = n  BY <3>3, BytesAssumption
    <3>5. assignments' = [i \in 0..n |->
                            IF i = n THEN [eid |-> eid, assignee_index |-> i]
                            ELSE assignments[i]]
      BY <3>2, <3>3 DEF Append
    <3>6. ASSUME NEW i \in 0..n PROVE assignments'[i].eid \in AssignedEid
      <4>1. eid \in AssignedEid  BY <3>2 DEF TriedEids
      <4>2. CASE i = n  BY <3>5, <4>1, <4>2
      <4>3. CASE i # n
        <5>1. i \in 0..(n - 1)  BY <3>3, <4>3
        <5> QED  BY <3>1, <3>5, <4>3, <5>1 DEF LoopTable
      <4> QED  BY <4>2, <4>3
    <3>7. LoopTable(assignments', n + 1)  BY <3>4, <3>5, <3>6 DEF LoopTable
    <3> QED  BY <3>4, <3>7 DEF Grown
  <2> QED  BY <2>1, <2>2
<1> QED  BY <1>1, <1>2, PTL DEF Spec

\* The loop of flex_sort answers what longest-prefix match answers, in every
\* reachable state (sorting.c:51-121): what its run checks on four bits.
THEOREM SortingLoopCorrect == Spec => []LoopIsLongestPrefixMatch
<1>1. Grown => LoopIsLongestPrefixMatch
  <2> SUFFICES ASSUME Grown, NEW eid \in Eid, NEW exact \in BOOLEAN, NEW planes \in {0, 1}
               PROVE  SortingLoopResult(assignments, planes, 0, eid, exact, EntryCount)
                        = flex_sort(assignments, planes, 0, eid, exact)
    BY DEF LoopIsLongestPrefixMatch
  <2>1. PICK n \in 0..MaxEntries : LoopTable(assignments, n)  BY DEF Grown
  <2>2. EntryCount = n /\ n \in Nat  BY <2>1, Counted, BytesAssumption
  <2> QED  BY <2>1, <2>2, LoopIsFlexSort
<1> QED  BY <1>1, TablesGrow, PTL
=============================================================================
