------------------------------ MODULE DataProofs ------------------------------
(***************************************************************************)
(* Proofs about what is done to the data that pipes carry: block buffers   *)
(* and RTP packets.                                                        *)
(*                                                                         *)
(* Block buffers, for any handles, buffers and bounds.  All is about the   *)
(* sums of the sizes along a chain, which say in which segment each octet  *)
(* is.  A function of the code is a change of one chain or two: lemmas     *)
(* (...Right) say what octets the changed chain has, and that its head is  *)
(* sound, with a cache that is true of it.  The invariant BlockInv joins   *)
(* to that the counts of the shared buffers, and each action (...Step)     *)
(* keeps it and has an effect on the octets of the handles; that this      *)
(* effect is the one of OctetStrings (...Promised) is the refinement.      *)
(*                                                                         *)
(* RTP with retransmissions, for any even modulus, network and number of   *)
(* losses: what does not depend on the latency being enough.  The program  *)
(* compares sequence numbers, which wrap; the invariant is about the       *)
(* packets themselves.  The two agree as long as no packet is older than   *)
(* half of the numbers: the distance of two numbers is that of the packets,*)
(* on one side of zero or the other, and the numbers between two of them   *)
(* are those of the packets between (Distance, BetweenNumbers).  The queue *)
(* is then kept sorted by packet and by time at once, behind what was      *)
(* output, and everything missing in it has a mark that is not 0, as the   *)
(* clock is past a round trip.                                             *)
(***************************************************************************)
EXTENDS UbufBlock, RtpRetransmission, SequenceTheorems, FiniteSetTheorems, WellFoundedInduction, TLAPS

-----------------------------------------------------------------------------
(* A non-empty set of naturals has a least element.                        *)
LEMMA LeastElement ==
    ASSUME NEW T, T \subseteq Nat, T # {}
    PROVE  \E x \in T : \A y \in T : x <= y
<1> DEFINE R == {ss \in Nat \X Nat : ss[1] < ss[2]}
<1>1. IsWellFoundedOn(R, Nat)
  BY NatLessThanWellFounded DEF OpToRel
<1>2. PICK x \in T : \A y \in T : ~ (<<y, x>> \in R)
  <2> HIDE DEF R
  <2> QED BY <1>1, WFMin
<1>3. ASSUME NEW y \in T PROVE x <= y
  <2>1. x \in Nat /\ y \in Nat
    OBVIOUS
  <2>2. <<y, x>> \in Nat \X Nat /\ <<y, x>>[1] = y /\ <<y, x>>[2] = x
    BY <2>1
  <2>3. ~(y < x)
    BY <1>2, <2>2
  <2> QED BY <2>1, <2>3
<1> QED BY <1>3

(* Min and Max of the folds of sets, of naturals.                          *)
LEMMA MinFound ==
    ASSUME NEW T, T \subseteq Nat, T # {}
    PROVE  Min(T) \in T /\ \A y \in T : Min(T) <= y
BY LeastElement DEF Min

LEMMA MaxFound ==
    ASSUME NEW n \in Nat, NEW T, T \subseteq 0..n, T # {}
    PROVE  Max(T) \in T /\ \A y \in T : Max(T) >= y
<1> DEFINE U == {k \in 0..n : \A y \in T : y <= k}
<1>1. n \in U /\ U \subseteq Nat
  OBVIOUS
<1>2. PICK k \in U : \A y \in U : k <= y
  <2> HIDE DEF U
  <2> QED BY <1>1, LeastElement
<1>3. k \in T
  <2> SUFFICES ASSUME k \notin T PROVE FALSE
    OBVIOUS
  <2>1. \A y \in T : y <= k - 1 /\ y \in 0..n
    BY <1>2
  <2>2. PICK z \in T : z <= k - 1 /\ z \in 0..n
    BY <2>1
  <2>3. k - 1 \in U
    BY <2>1, <2>2, <1>2
  <2> QED BY <1>2, <2>3
<1> QED BY <1>2, <1>3 DEF Max

-----------------------------------------------------------------------------
(* The sums of a chain.  The definition is by recursion; that there is such*)
(* a function, and only one, is shown for the shortest prefix without one. *)

IsSums(f, c, n) ==
    /\ f \in [0..n -> Nat]
    /\ f[0] = 0
    /\ \A k \in 1..n : f[k] = f[k - 1] + c[k].size

(* What the segments of a chain have.                                      *)
LEMMA SizesInNat ==
    ASSUME NEW c \in Seq(Views)
    PROVE  /\ Len(c) \in Nat /\ DOMAIN c = 1..Len(c)
           /\ \A k \in 1..Len(c) : c[k] \in Views /\ c[k].size \in Nat /\ c[k].offset \in Nat
                                    /\ c[k].shared \in Buffers
<1>1. Len(c) \in Nat /\ DOMAIN c = 1..Len(c)
  BY LenProperties
<1>2. \A k \in 1..Len(c) : c[k] \in Views
  BY ElementOfSeq
<1> QED BY <1>1, <1>2 DEF Views

(* There is a function of the sums.                                        *)
LEMMA SumsExist ==
    ASSUME NEW c \in Seq(Views), NEW n \in 0..Len(c)
    PROVE  \E f : IsSums(f, c, n)
<1> DEFINE T == {m \in 0..Len(c) : ~ \E f : IsSums(f, c, m)}
<1>0. Len(c) \in Nat
  BY SizesInNat
<1> SUFFICES ASSUME T # {} PROVE FALSE
  OBVIOUS
<1>1. PICK m \in T : \A y \in T : m <= y
  <2>1. T \subseteq Nat
    BY <1>0
  <2> HIDE DEF T
  <2> QED BY <2>1, LeastElement
<1>2. CASE m = 0
  <2>1. IsSums([k \in 0..0 |-> 0], c, 0)
    BY DEF IsSums
  <2> QED BY <1>1, <1>2, <2>1
<1>3. CASE m # 0
  <2>1. m \in Nat /\ m - 1 \in 0..Len(c) /\ m \in 1..Len(c)
    BY <1>0, <1>3
  <2>2. PICK f : IsSums(f, c, m - 1)
    BY <1>1, <2>1
  <2>3. c[m].size \in Nat
    BY <2>1, SizesInNat
  <2> DEFINE g == [k \in 0..m |-> IF k = m THEN f[m - 1] + c[m].size ELSE f[k]]
  <2>4. \A k \in 0..m - 1 : g[k] = f[k] /\ f[k] \in Nat
    BY <2>1, <2>2 DEF IsSums
  <2>5. g[m] = f[m - 1] + c[m].size /\ f[m - 1] \in Nat
    <3>1. m \in 0..m /\ m - 1 \in 0..m - 1
      BY <2>1
    <3> QED BY <3>1, <2>4
  <2>6. g \in [0..m -> Nat]
    <3> SUFFICES ASSUME NEW k \in 0..m PROVE (IF k = m THEN f[m - 1] + c[m].size ELSE f[k]) \in Nat
      OBVIOUS
    <3>1. CASE k = m
      <4>1. f[m - 1] + c[m].size \in Nat
        BY <2>3, <2>5, SMTT(60)
      <4> QED BY <4>1, <3>1
    <3>2. CASE k # m
      <4>1. k \in 0..m - 1
        BY <3>2, <2>1
      <4> QED BY <4>1, <3>2, <2>4
    <3> QED BY <3>1, <3>2
  <2>7. \A k \in 1..m : g[k] = g[k - 1] + c[k].size
    <3> TAKE k \in 1..m
    <3>1. CASE k = m
      BY <3>1, <2>1, <2>4, <2>5
    <3>2. CASE k # m
      <4>1. k \in 1..m - 1 /\ k \in 0..m - 1 /\ k - 1 \in 0..m - 1
        BY <3>2, <2>1
      <4>2. f[k] = f[k - 1] + c[k].size
        BY <4>1, <2>2 DEF IsSums
      <4> QED BY <4>1, <4>2, <2>4
    <3> QED BY <3>1, <3>2
  <2>8. g[0] = 0
    BY <2>1, <2>2, <2>4 DEF IsSums
  <2>9. IsSums(g, c, m)
    <3> HIDE DEF g
    <3> QED BY <2>6, <2>7, <2>8 DEF IsSums
  <2> QED BY <2>9, <1>1
<1> QED BY <1>2, <1>3

(* The function chosen in Sums has the steps of the sums.                  *)
LEMMA SumsDef ==
    ASSUME NEW c \in Seq(Views)
    PROVE  IsSums(Sums(c), c, Len(c))
<1>0. Len(c) \in Nat
  BY SizesInNat
<1> DEFINE F(sum) == [k \in 0..Len(c) |-> IF k = 0 THEN 0 ELSE sum[k - 1] + c[k].size]
<1>1. PICK f : IsSums(f, c, Len(c))
  BY <1>0, SumsExist
<1>2. f = F(f)
  <2>1. f = [k \in 0..Len(c) |-> f[k]]
    BY <1>1 DEF IsSums
  <2>2. \A k \in 0..Len(c) : f[k] = IF k = 0 THEN 0 ELSE f[k - 1] + c[k].size
    BY <1>0, <1>1 DEF IsSums
  <2> QED BY <2>1, <2>2
<1>3. Sums(c) = CHOOSE sum : sum = F(sum)
  BY DEF Sums
<1>4. Sums(c) = F(Sums(c))
  <2> HIDE DEF F
  <2> QED BY <1>2, <1>3
<1> DEFINE g == Sums(c)
<1>5. /\ DOMAIN g = 0..Len(c) /\ g = [k \in 0..Len(c) |-> g[k]]
      /\ g[0] = 0
      /\ \A k \in 1..Len(c) : g[k] = g[k - 1] + c[k].size
  <2> HIDE DEF g
  <2>1. g = F(g)
    BY <1>4 DEF g
  <2> QED BY <1>0, <2>1
<1>6. \A k \in 0..Len(c) : g[k] = f[k]
  <2> HIDE DEF g
  <2> DEFINE T == {k \in 0..Len(c) : g[k] # f[k]}
  <2> SUFFICES ASSUME T # {} PROVE FALSE
    OBVIOUS
  <2>1. PICK m \in T : \A y \in T : m <= y
    <3>1. T \subseteq Nat
      BY <1>0
    <3> HIDE DEF T
    <3> QED BY <3>1, LeastElement
  <2>2. m # 0
    BY <2>1, <1>1, <1>5 DEF IsSums
  <2>3. m \in 1..Len(c) /\ m - 1 \in 0..Len(c) /\ m - 1 \notin T
    BY <1>0, <2>1, <2>2
  <2>4. g[m - 1] = f[m - 1]
    BY <2>3
  <2>5. f[m] = f[m - 1] + c[m].size
    BY <2>3, <1>1 DEF IsSums
  <2> QED BY <2>1, <2>3, <2>4, <2>5, <1>5
<1>7. \A k \in 0..Len(c) : g[k] \in Nat
  BY <1>6, <1>1 DEF IsSums
<1>8. g \in [0..Len(c) -> Nat]
  <2> HIDE DEF g
  <2> QED BY <1>7, <1>5
<1> HIDE DEF g
<1>9. IsSums(g, c, Len(c))
  BY <1>5, <1>8 DEF IsSums
<1> QED BY <1>9 DEF g

(* Only one function has the steps of the sums of a chain, up to n.        *)
LEMMA SumsUnique ==
    ASSUME NEW c \in Seq(Views), NEW f, f[0] = 0,
           \A k \in 1..Len(c) : f[k] = f[k - 1] + c[k].size
    PROVE  \A k \in 0..Len(c) : Sums(c)[k] = f[k]
<1>0. Len(c) \in Nat
  BY SizesInNat
<1> DEFINE g == Sums(c)
<1>1. IsSums(g, c, Len(c))
  BY SumsDef
<1> HIDE DEF g
<1> DEFINE T == {k \in 0..Len(c) : g[k] # f[k]}
<1>2. ASSUME T # {} PROVE FALSE
  <2>1. PICK m \in T : \A y \in T : m <= y
    <3>1. T \subseteq Nat
      BY <1>0
    <3> HIDE DEF T
    <3> QED BY <3>1, <1>2, LeastElement
  <2>2. m # 0
    BY <2>1, <1>1 DEF IsSums
  <2>3. m \in 1..Len(c) /\ m - 1 \in 0..Len(c) /\ m - 1 \notin T
    BY <1>0, <2>1, <2>2
  <2>4. g[m - 1] = f[m - 1]
    BY <2>3
  <2>5. g[m] = g[m - 1] + c[m].size
    BY <2>3, <1>1 DEF IsSums
  <2>6. f[m] = f[m - 1] + c[m].size
    BY <2>3
  <2> QED BY <2>1, <2>4, <2>5, <2>6
<1> QED BY <1>2 DEF g

Total(c) == Sums(c)[Len(c)]

(* What the proofs use of the sums.                                        *)
LEMMA SumsFacts ==
    ASSUME NEW c \in Seq(Views)
    PROVE  /\ Sums(c)[0] = 0
           /\ \A k \in 0..Len(c) : Sums(c)[k] \in Nat
           /\ \A k \in 1..Len(c) : Sums(c)[k] = Sums(c)[k - 1] + c[k].size
BY SumsDef DEF IsSums

(* The sums never decrease along a chain.                                  *)
LEMMA SumsGrow ==
    ASSUME NEW c \in Seq(Views), NEW i \in 0..Len(c), NEW j \in i..Len(c)
    PROVE  Sums(c)[i] <= Sums(c)[j]
<1>0. Len(c) \in Nat
  BY SizesInNat
<1> DEFINE g == Sums(c)
           T == {k \in i..Len(c) : ~(g[i] <= g[k])}
<1>1. /\ \A k \in 0..Len(c) : g[k] \in Nat
      /\ \A k \in 1..Len(c) : g[k] = g[k - 1] + c[k].size /\ c[k].size \in Nat
  BY SumsFacts, SizesInNat
<1> HIDE DEF g
<1>2. ASSUME T # {} PROVE FALSE
  <2>1. PICK m \in T : \A y \in T : m <= y
    <3>1. T \subseteq Nat
      BY <1>0
    <3> HIDE DEF T
    <3> QED BY <3>1, <1>2, LeastElement
  <2>2. m # i
    BY <2>1, <1>1
  <2>3. m \in 1..Len(c) /\ m - 1 \in i..Len(c) /\ m - 1 \notin T /\ m - 1 \in 0..Len(c)
    BY <1>0, <2>1, <2>2
  <2>4. g[i] <= g[m - 1]
    BY <2>3
  <2>5. g[m] = g[m - 1] + c[m].size /\ c[m].size \in Nat
    BY <2>3, <1>1
  <2>6. g[i] \in Nat /\ g[m - 1] \in Nat
    BY <2>3, <1>1
  <2>7. g[i] <= g[m]
    <3> HIDE DEF T
    <3> QED BY <2>4, <2>5, <2>6
  <2> QED BY <2>1, <2>7
<1>3. j \notin T
  BY <1>2
<1>4. g[i] <= g[j]
  BY <1>3
<1> QED BY <1>4 DEF g

(* Each octet is in one segment.                                           *)
LEMMA SegmentFound ==
    ASSUME NEW c \in Seq(Views), NEW a \in Nat, a < Total(c)
    PROVE  \E k \in 1..Len(c) : Sums(c)[k - 1] <= a /\ a < Sums(c)[k]
<1>0. Len(c) \in Nat
  BY SizesInNat
<1> DEFINE g == Sums(c)
           T == {k \in 0..Len(c) : a < g[k]}
<1>1. /\ \A k \in 0..Len(c) : g[k] \in Nat
      /\ g[0] = 0
  BY SumsFacts
<1>2. T # {} /\ T \subseteq Nat
  BY <1>0 DEF Total
<1> HIDE DEF g
<1>3. PICK m \in T : \A y \in T : m <= y
  <2> HIDE DEF T
  <2> QED BY <1>2, LeastElement
<1>4. m \in 1..Len(c)
  BY <1>3, <1>1, <1>0
<1>5. m - 1 \in 0..Len(c) /\ m - 1 \notin T
  BY <1>4, <1>3, <1>0
<1>6. g[m - 1] <= a /\ a < g[m]
  BY <1>5, <1>3, <1>1
<1> QED BY <1>4, <1>6 DEF g

(* And in no other.                                                        *)
LEMMA SegmentUnique ==
    ASSUME NEW c \in Seq(Views), NEW a \in Nat,
           NEW k \in 1..Len(c), NEW j \in 1..Len(c),
           Sums(c)[k - 1] <= a, a < Sums(c)[k],
           Sums(c)[j - 1] <= a, a < Sums(c)[j]
    PROVE  k = j
<1>0. Len(c) \in Nat
  BY SizesInNat
<1>1. \A x \in 0..Len(c) : Sums(c)[x] \in Nat
  BY SumsFacts
<1>2. CASE k < j
  <2>1. k \in 0..Len(c) /\ j - 1 \in k..Len(c) /\ j - 1 \in 0..Len(c)
    BY <1>0, <1>2
  <2>2. Sums(c)[k] <= Sums(c)[j - 1]
    BY <2>1, SumsGrow
  <2> QED BY <2>1, <2>2, <1>1
<1>3. CASE j < k
  <2>1. j \in 0..Len(c) /\ k - 1 \in j..Len(c) /\ k - 1 \in 0..Len(c)
    BY <1>0, <1>3
  <2>2. Sums(c)[j] <= Sums(c)[k - 1]
    BY <2>1, SumsGrow
  <2> QED BY <2>1, <2>2, <1>1
<1> QED BY <1>0, <1>2, <1>3

(* The sums of two chains, one after the other.                            *)
LEMMA SumsOfConcat ==
    ASSUME NEW c \in Seq(Views), NEW d \in Seq(Views)
    PROVE  /\ c \o d \in Seq(Views) /\ Len(c \o d) = Len(c) + Len(d)
           /\ \A k \in 0..Len(c) : Sums(c \o d)[k] = Sums(c)[k]
           /\ \A k \in 0..Len(d) : Sums(c \o d)[Len(c) + k] = Total(c) + Sums(d)[k]
           /\ Total(c \o d) = Total(c) + Total(d)
<1>0. Len(c) \in Nat /\ Len(d) \in Nat
  BY SizesInNat
<1> DEFINE e == c \o d
           f == [k \in 0..Len(c) + Len(d) |->
                   IF k <= Len(c) THEN Sums(c)[k] ELSE Total(c) + Sums(d)[k - Len(c)]]
<1>1. /\ e \in Seq(Views) /\ Len(e) = Len(c) + Len(d)
      /\ \A i \in 1..Len(c) + Len(d) : e[i] = IF i <= Len(c) THEN c[i] ELSE d[i - Len(c)]
  BY ConcatProperties
<1>2. f[0] = 0
  <2>1. 0 \in 0..Len(c) + Len(d) /\ 0 <= Len(c)
    BY <1>0
  <2> QED BY <2>1, SumsFacts
<1>3. ASSUME NEW k \in 1..Len(e) PROVE f[k] = f[k - 1] + e[k].size
  <2>0. k \in 0..Len(c) + Len(d) /\ k - 1 \in 0..Len(c) + Len(d) /\ k \in 1..Len(c) + Len(d)
    BY <1>0, <1>1
  <2>1. CASE k <= Len(c)
    <3>1. k \in 1..Len(c) /\ k - 1 <= Len(c)
      BY <2>0, <2>1, <1>0
    <3>2. Sums(c)[k] = Sums(c)[k - 1] + c[k].size
      BY <3>1, SumsFacts
    <3> QED BY <2>0, <2>1, <3>1, <3>2, <1>1
  <2>2. CASE k = Len(c) + 1
    <3>1. k - Len(c) = 1 /\ 1 \in 1..Len(d) /\ k - 1 = Len(c) /\ ~(k <= Len(c))
      BY <2>0, <2>2, <1>0
    <3>2. Sums(d)[1] = Sums(d)[1 - 1] + d[1].size /\ Sums(d)[0] = 0 /\ d[1].size \in Nat
      BY <3>1, SumsFacts, SizesInNat
    <3>3. e[k] = d[1]
      BY <1>1, <2>0, <3>1
    <3>4. f[k] = Total(c) + Sums(d)[1]
      BY <2>0, <3>1
    <3>5. f[k - 1] = Total(c)
      BY <2>0, <3>1, <1>0 DEF Total
    <3>6. Sums(d)[1] = d[1].size
      BY <3>2
    <3> HIDE DEF f
    <3> QED BY <3>6, <3>3, <3>4, <3>5
  <2>3. CASE k > Len(c) + 1
    <3>1. /\ k - Len(c) \in 1..Len(d) /\ ~(k <= Len(c)) /\ ~(k - 1 <= Len(c))
          /\ (k - 1) - Len(c) = (k - Len(c)) - 1
      BY <2>0, <2>3, <1>0
    <3>2. PICK n \in 1..Len(d) : n = k - Len(c)
      BY <3>1
    <3>3. Sums(d)[n] = Sums(d)[n - 1] + d[n].size /\ d[n].size \in Nat
          /\ Sums(d)[n - 1] \in Nat /\ Total(c) \in Nat
      <4>1. n - 1 \in 0..Len(d) /\ Len(c) \in 0..Len(c)
        BY <1>0
      <4> QED BY <4>1, SumsFacts, SizesInNat DEF Total
    <3>4. e[k] = d[n]
      BY <1>1, <2>0, <3>1, <3>2
    <3>5. f[k] = Total(c) + Sums(d)[n]
      BY <2>0, <3>1, <3>2
    <3>6. f[k - 1] = Total(c) + Sums(d)[n - 1]
      BY <2>0, <3>1, <3>2
    <3> HIDE DEF f
    <3> QED BY <3>3, <3>4, <3>5, <3>6, SMTT(60)
  <2> QED BY <2>1, <2>2, <2>3, <2>0, <1>0
<1>4. \A k \in 0..Len(e) : Sums(e)[k] = f[k]
  <2> HIDE DEF e, f
  <2> QED BY <1>1, <1>2, <1>3, SumsUnique
<1>5. ASSUME NEW k \in 0..Len(c) PROVE Sums(e)[k] = Sums(c)[k]
  <2>1. k \in 0..Len(c) + Len(d) /\ k <= Len(c)
    BY <1>0
  <2> QED BY <2>1, <1>4, <1>1
<1>6. ASSUME NEW k \in 0..Len(d) PROVE Sums(e)[Len(c) + k] = Total(c) + Sums(d)[k]
  <2>1. Len(c) + k \in 0..Len(c) + Len(d)
    BY <1>0
  <2>2. CASE k = 0
    <3>1. Len(c) + k = Len(c) /\ Len(c) \in 0..Len(c)
      BY <2>2, <1>0
    <3>2. Sums(d)[k] = 0 /\ Total(c) \in Nat
      BY <2>2, <3>1, SumsFacts DEF Total
    <3>3. Sums(e)[Len(c) + k] = Total(c)
      BY <3>1, <1>5 DEF Total
    <3> QED BY <3>2, <3>3
  <2>3. CASE k # 0
    <3>1. ~(Len(c) + k <= Len(c)) /\ (Len(c) + k) - Len(c) = k
      BY <2>3, <1>0
    <3> QED BY <2>1, <3>1, <1>4, <1>1
  <2> QED BY <2>2, <2>3
<1>7. Total(e) = Total(c) + Total(d)
  <2>1. Len(d) \in 0..Len(d)
    BY <1>0
  <2> QED BY <2>1, <1>1, <1>6 DEF Total
<1> QED BY <1>1, <1>5, <1>6, <1>7

(* The sums of a part of a chain.                                          *)
LEMMA SumsOfSubSeq ==
    ASSUME NEW c \in Seq(Views), NEW i \in 1..Len(c) + 1, NEW j \in i - 1..Len(c)
    PROVE  /\ SubSeq(c, i, j) \in Seq(Views) /\ Len(SubSeq(c, i, j)) = j - i + 1
           /\ \A k \in 1..j - i + 1 : SubSeq(c, i, j)[k] = c[i + k - 1] /\ i + k - 1 \in 1..Len(c)
           /\ \A k \in 0..j - i + 1 :
                Sums(SubSeq(c, i, j))[k] = Sums(c)[i + k - 1] - Sums(c)[i - 1]
           /\ Total(SubSeq(c, i, j)) = Sums(c)[j] - Sums(c)[i - 1]
<1>0. Len(c) \in Nat /\ i \in Int /\ j \in Int /\ j - i + 1 \in Nat
  BY SizesInNat
<1> DEFINE e == SubSeq(c, i, j)
           f == [k \in 0..j - i + 1 |-> Sums(c)[i + k - 1] - Sums(c)[i - 1]]
<1>1. /\ e \in Seq(Views) /\ Len(e) = j - i + 1
      /\ \A k \in 1..j - i + 1 : e[k] = c[i + k - 1]
  <2>1. \A k \in i..j : c[k] \in Views
    BY <1>0, SizesInNat
  <2>2. Len(e) = IF i <= j THEN j - i + 1 ELSE 0
    BY <2>1, <1>0, SubSeqProperties
  <2> QED BY <2>1, <2>2, <1>0, SubSeqProperties
<1>2. f[0] = 0
  <2>1. 0 \in 0..j - i + 1 /\ i + 0 - 1 = i - 1 /\ i - 1 \in 0..Len(c)
    BY <1>0
  <2>2. Sums(c)[i - 1] \in Nat
    BY <2>1, SumsFacts
  <2>3. f[0] = Sums(c)[i - 1] - Sums(c)[i - 1]
    BY <2>1
  <2> HIDE DEF f
  <2> QED BY <2>2, <2>3
<1>3. ASSUME NEW k \in 1..Len(e) PROVE f[k] = f[k - 1] + e[k].size
  <2>1. /\ k \in 0..j - i + 1 /\ k - 1 \in 0..j - i + 1 /\ k \in 1..j - i + 1
        /\ i + k - 1 \in 1..Len(c) /\ i + (k - 1) - 1 = (i + k - 1) - 1
        /\ i + k - 1 \in 0..Len(c) /\ (i + k - 1) - 1 \in 0..Len(c) /\ i - 1 \in 0..Len(c)
    BY <1>0, <1>1
  <2>2. PICK n \in 1..Len(c) : n = i + k - 1
    BY <2>1
  <2>3. /\ Sums(c)[n] = Sums(c)[n - 1] + c[n].size
        /\ c[n].size \in Nat /\ Sums(c)[n - 1] \in Nat /\ Sums(c)[i - 1] \in Nat
    BY <2>1, <2>2, SumsFacts, SizesInNat
  <2>4. f[k] = Sums(c)[n] - Sums(c)[i - 1]
    BY <2>1, <2>2
  <2>5. f[k - 1] = Sums(c)[n - 1] - Sums(c)[i - 1]
    BY <2>1, <2>2
  <2>6. e[k] = c[n]
    BY <1>1, <2>1, <2>2
  <2> HIDE DEF f, e
  <2> QED BY <2>3, <2>4, <2>5, <2>6, SMTT(60)
<1>4. \A k \in 0..Len(e) : Sums(e)[k] = f[k]
  <2> HIDE DEF e, f
  <2> QED BY <1>1, <1>2, <1>3, SumsUnique
<1>5. \A k \in 0..j - i + 1 : Sums(e)[k] = Sums(c)[i + k - 1] - Sums(c)[i - 1]
  BY <1>4, <1>1
<1>6. Total(e) = Sums(c)[j] - Sums(c)[i - 1]
  <2>1. j - i + 1 \in 0..j - i + 1 /\ i + (j - i + 1) - 1 = j
    BY <1>0
  <2> QED BY <2>1, <1>1, <1>5 DEF Total
<1>7. \A k \in 1..j - i + 1 : i + k - 1 \in 1..Len(c)
  BY <1>0
<1> QED BY <1>1, <1>5, <1>6, <1>7

(* The sums of a chain of one segment.                                     *)
LEMMA SumsOfOne ==
    ASSUME NEW s \in Views
    PROVE  /\ <<s>> \in Seq(Views) /\ Len(<<s>>) = 1 /\ <<s>>[1] = s
           /\ Total(<<s>>) = s.size
<1>1. <<s>> \in Seq(Views) /\ Len(<<s>>) = 1 /\ <<s>>[1] = s
  OBVIOUS
<1>2. 1 \in 1..Len(<<s>>) /\ s.size \in Nat
  BY <1>1 DEF Views
<1>3. Sums(<<s>>)[1] = Sums(<<s>>)[1 - 1] + <<s>>[1].size /\ Sums(<<s>>)[0] = 0
  BY <1>1, <1>2, SumsFacts
<1>4. Sums(<<s>>)[1] = s.size
  BY <1>1, <1>2, <1>3
<1> QED BY <1>1, <1>4 DEF Total

(* A chain is what comes before a segment, the segment and what follows.   *)
LEMMA ChainParts ==
    ASSUME NEW c \in Seq(Views), NEW i \in 1..Len(c)
    PROVE  /\ SubSeq(c, 1, i - 1) \in Seq(Views) /\ SubSeq(c, i + 1, Len(c)) \in Seq(Views)
           /\ <<c[i]>> \in Seq(Views)
           /\ c = SubSeq(c, 1, i - 1) \o <<c[i]>> \o SubSeq(c, i + 1, Len(c))
<1>0. Len(c) \in Nat /\ c[i] \in Views
  BY SizesInNat
<1>1. SubSeq(c, 1, i - 1) \in Seq(Views) /\ SubSeq(c, i + 1, Len(c)) \in Seq(Views)
  <2>1. 1 \in 1..Len(c) + 1 /\ i - 1 \in 1 - 1..Len(c)
        /\ i + 1 \in 1..Len(c) + 1 /\ Len(c) \in i + 1 - 1..Len(c)
    BY <1>0
  <2> QED BY <2>1, SumsOfSubSeq
<1>2. SubSeq(c, 1, i) = SubSeq(c, 1, i - 1) \o <<c[i]>>
  <2>1. 1 \in 1..Len(c) /\ i \in 1..Len(c)
    BY <1>0
  <2> QED BY <2>1, SubSeqRecursiveSecond
<1>3. SubSeq(c, 1, i) \o SubSeq(c, i + 1, Len(c)) = SubSeq(c, 1, Len(c))
  <2>1. 1 \in 1..Len(c) + 1 /\ i \in 1 - 1..Len(c) /\ Len(c) \in i..Len(c)
    BY <1>0
  <2> QED BY <2>1, ConcatAdjacentSubSeq
<1>4. SubSeq(c, 1, Len(c)) = c
  BY SubSeqFull
<1>5. <<c[i]>> \in Seq(Views)
  BY <1>0
<1>6. c = SubSeq(c, 1, i - 1) \o <<c[i]>> \o SubSeq(c, i + 1, Len(c))
  BY <1>2, <1>3, <1>4, Zenon
<1> QED BY <1>1, <1>5, <1>6

(* The octets of a chain in a memory m.                                    *)
View(m, s) == SubSeq(m[s.shared], s.offset + 1, s.offset + s.size)
Octets(m, c) == FlattenSeq([k \in DOMAIN c |-> View(m, c[k])])

Within(m, c) == \A k \in 1..Len(c) : c[k].offset + c[k].size <= Len(m[c[k].shared])
Memories == [Buffers -> Seq(Nat)]

(* A segment within the memory of its buffer shows octets of it.           *)
LEMMA ViewRight ==
    ASSUME NEW m \in Memories, NEW s \in Views, s.offset + s.size <= Len(m[s.shared])
    PROVE  /\ View(m, s) \in Seq(Nat) /\ Len(View(m, s)) = s.size
           /\ \A j \in 1..s.size : View(m, s)[j] = m[s.shared][s.offset + j]
<1>0. s.offset \in Nat /\ s.size \in Nat /\ m[s.shared] \in Seq(Nat)
  BY DEF Views, Memories
<1> DEFINE q == m[s.shared]
           x == s.offset
           n == s.size
<1>1. x \in Nat /\ n \in Nat /\ q \in Seq(Nat) /\ x + n <= Len(q)
  BY <1>0
<1> HIDE DEF q, x, n
<1>2. \A i \in x + 1..x + n : q[i] \in Nat
  <2> TAKE i \in x + 1..x + n
  <2>1. i \in 1..Len(q)
    BY <1>1, LenProperties
  <2> QED BY <2>1, <1>1, ElementOfSeq
<1>3. PICK a \in Int, b \in Int : a = x + 1 /\ b = x + n
  BY <1>1
<1>4. \A i \in a..b : q[i] \in Nat
  BY <1>2, <1>3
<1>5. /\ SubSeq(q, a, b) \in Seq(Nat)
      /\ Len(SubSeq(q, a, b)) = IF a <= b THEN b - a + 1 ELSE 0
      /\ \A i \in 1..b - a + 1 : SubSeq(q, a, b)[i] = q[a + i - 1]
  BY <1>4, SubSeqProperties
<1>6. SubSeq(q, x + 1, x + n) = SubSeq(q, a, b)
  BY <1>3
<1>7. Len(SubSeq(q, a, b)) = n
  BY <1>1, <1>3, <1>5
<1>8. ASSUME NEW j \in 1..n PROVE SubSeq(q, a, b)[j] = q[x + j]
  <2>1. j \in 1..b - a + 1 /\ a + j - 1 = x + j
    BY <1>1, <1>3
  <2> QED BY <2>1, <1>5
<1> QED BY <1>5, <1>6, <1>7, <1>8 DEF q, x, n, View

(* The concatenation of a sequence of sequences, by its prefixes.          *)
Joins(f, w, n) ==
    \A k \in 1..n : f[k] = IF k = 1 THEN w[k] ELSE f[k - 1] \o w[k]
IsFlat(f, w, n) == f \in [1..n -> Seq(Nat)] /\ Joins(f, w, n)

LEMMA FlatExists ==
    ASSUME NEW w \in Seq(Seq(Nat)), NEW n \in 0..Len(w)
    PROVE  \E f : IsFlat(f, w, n)
<1> DEFINE T == {m \in 0..Len(w) : ~ \E f : IsFlat(f, w, m)}
<1>0. Len(w) \in Nat
  BY LenProperties
<1> SUFFICES ASSUME T # {} PROVE FALSE
  OBVIOUS
<1>1. PICK m \in T : \A y \in T : m <= y
  <2>1. T \subseteq Nat
    BY <1>0
  <2> HIDE DEF T
  <2> QED BY <2>1, LeastElement
<1>2. CASE m = 0
  <2>1. IsFlat([k \in 1..0 |-> <<>>], w, 0)
    BY DEF IsFlat, Joins
  <2> QED BY <1>1, <1>2, <2>1
<1>3. CASE m # 0
  <2>1. m \in Nat /\ m - 1 \in 0..Len(w) /\ m \in 1..Len(w) /\ m \in 1..m
    BY <1>0, <1>3
  <2>2. PICK f : IsFlat(f, w, m - 1)
    <3>1. m - 1 \notin T
      <4>1. ~(m <= m - 1)
        BY <2>1
      <4> HIDE DEF T
      <4> QED BY <1>1, <4>1
    <3> QED BY <2>1, <3>1
  <2>3. w[m] \in Seq(Nat)
    BY <2>1, ElementOfSeq
  <2> DEFINE last == IF m = 1 THEN w[m] ELSE f[m - 1] \o w[m]
             g == [k \in 1..m |-> IF k = m THEN last ELSE f[k]]
  <2>4. \A k \in 1..m - 1 : g[k] = f[k] /\ f[k] \in Seq(Nat)
    <3> HIDE DEF last
    <3>1. \A k \in 1..m - 1 : f[k] \in Seq(Nat)
      BY <2>2 DEF IsFlat, Joins
    <3>2. \A k \in 1..m - 1 : k \in 1..m /\ k # m
      BY <2>1
    <3> QED BY <3>1, <3>2
  <2>5. last \in Seq(Nat)
    <3>1. CASE m = 1
      BY <3>1, <2>3
    <3>2. CASE m # 1
      <4>1. m - 1 \in 1..m - 1
        BY <3>2, <2>1
      <4>2. f[m - 1] \in Seq(Nat)
        BY <4>1, <2>4
      <4> QED BY <3>2, <4>2, <2>3, ConcatProperties
    <3> QED BY <3>1, <3>2
  <2>6. g[m] = last
    BY <2>1
  <2>7. g \in [1..m -> Seq(Nat)]
    <3> HIDE DEF last
    <3> SUFFICES ASSUME NEW k \in 1..m PROVE (IF k = m THEN last ELSE f[k]) \in Seq(Nat)
      OBVIOUS
    <3>1. CASE k = m
      BY <3>1, <2>5
    <3>2. CASE k # m
      <4>1. k \in 1..m - 1
        BY <3>2, <2>1
      <4> QED BY <4>1, <3>2, <2>4
    <3> QED BY <3>1, <3>2
  <2>8. \A k \in 1..m : g[k] = IF k = 1 THEN w[k] ELSE g[k - 1] \o w[k]
    <3> TAKE k \in 1..m
    <3>1. CASE k = m
      <4>1. CASE m = 1
        BY <3>1, <4>1, <2>6
      <4>2. CASE m # 1
        <5>1. m - 1 \in 1..m - 1
          BY <4>2, <2>1
        <5>2. g[m - 1] = f[m - 1]
          BY <5>1, <2>4
        <5> HIDE DEF g
        <5> QED BY <3>1, <4>2, <5>2, <2>6
      <4> QED BY <4>1, <4>2
    <3>2. CASE k # m
      <4>1. k \in 1..m - 1
        BY <3>2, <2>1
      <4>2. f[k] = IF k = 1 THEN w[k] ELSE f[k - 1] \o w[k]
        BY <4>1, <2>2 DEF IsFlat, Joins
      <4>3. CASE k = 1
        <5> HIDE DEF g
        <5> QED BY <4>1, <4>2, <4>3, <2>4
      <4>4. CASE k # 1
        <5>1. k - 1 \in 1..m - 1
          BY <4>1, <4>4, <2>1
        <5> HIDE DEF g
        <5> QED BY <4>1, <4>2, <4>4, <5>1, <2>4
      <4> QED BY <4>3, <4>4
    <3> QED BY <3>1, <3>2
  <2>9. IsFlat(g, w, m)
    <3> HIDE DEF g
    <3> QED BY <2>7, <2>8 DEF IsFlat, Joins
  <2> QED BY <2>9, <1>1
<1> QED BY <1>2, <1>3

(* Arithmetic of positions: those of a segment follow those before it.     *)
LEMMA Follows ==
    ASSUME NEW x \in Nat, NEW y \in Nat, NEW s \in Nat, s = x + y, NEW j \in 1..y
    PROVE  x + j \in 1..s /\ ~(x + j <= x) /\ (x + j) - x = j
OBVIOUS

(* There is no other concatenation.                                        *)
LEMMA FlatUnique ==
    ASSUME NEW w, NEW n \in Nat, NEW f, NEW g, IsFlat(f, w, n), Joins(g, w, n)
    PROVE  \A k \in 1..n : g[k] = f[k]
<1> DEFINE T == {k \in 1..n : g[k] # f[k]}
<1> SUFFICES ASSUME T # {} PROVE FALSE
  OBVIOUS
<1>1. PICK m \in T : \A y \in T : m <= y
  <2>1. T \subseteq Nat
    OBVIOUS
  <2> HIDE DEF T
  <2> QED BY <2>1, LeastElement
<1>2. f[m] = IF m = 1 THEN w[m] ELSE f[m - 1] \o w[m]
  BY DEF IsFlat, Joins
<1>3. g[m] = IF m = 1 THEN w[m] ELSE g[m - 1] \o w[m]
  BY DEF Joins
<1>4. CASE m = 1
  BY <1>1, <1>2, <1>3, <1>4
<1>5. CASE m # 1
  <2>1. m - 1 \in 1..n /\ m - 1 \notin T
    BY <1>1, <1>5
  <2>2. g[m - 1] = f[m - 1]
    BY <2>1
  <2>3. g[m] = f[m]
    <3> HIDE DEF T
    <3> QED BY <1>2, <1>3, <1>5, <2>2
  <2> QED BY <2>3, <1>1
<1> QED BY <1>4, <1>5

(* FlattenSeq of the library is that concatenation.                        *)
LEMMA FlattenSeqRight ==
    ASSUME NEW w \in Seq(Seq(Nat)), Len(w) > 0
    PROVE  \E f : IsFlat(f, w, Len(w)) /\ FlattenSeq(w) = f[Len(w)]
<1>0. Len(w) \in Nat
  BY LenProperties
<1> DEFINE n == Len(w)
           F(h) == [i \in 1..n |-> IF i = 1 THEN w[i] ELSE h[i - 1] \o w[i]]
<1>1. PICK f : IsFlat(f, w, n)
  BY <1>0, FlatExists
<1>2. f = F(f)
  <2>1. f = [k \in 1..n |-> f[k]]
    BY <1>1 DEF IsFlat, Joins
  <2>2. \A k \in 1..n : f[k] = IF k = 1 THEN w[k] ELSE f[k - 1] \o w[k]
    BY <1>1 DEF IsFlat, Joins
  <2> QED BY <2>1, <2>2
<1> DEFINE g == CHOOSE h : h = F(h)
<1>3. g = F(g)
  <2> HIDE DEF F
  <2> QED BY <1>2
<1>4. FlattenSeq(w) = g[n]
  BY <1>0 DEF FlattenSeq
<1> HIDE DEF g
<1>5. Joins(g, w, n)
  BY <1>3 DEF Joins
<1>6. \A k \in 1..n : g[k] = f[k]
  <2> HIDE DEF n
  <2>1. n \in Nat
    BY <1>0 DEF n
  <2> QED BY <2>1, <1>1, <1>5, FlatUnique
<1>7. n \in 1..n
  BY <1>0
<1> QED BY <1>1, <1>4, <1>6, <1>7

(* q is the octets of the segments of c, one after the other.              *)
HasOctets(m, c, q) ==
    /\ q \in Seq(Nat) /\ Len(q) = Total(c)
    /\ \A k \in 1..Len(c) : \A j \in 1..c[k].size :
         q[Sums(c)[k - 1] + j] = m[c[k].shared][c[k].offset + j]

(* Arithmetic of positions: an octet of a segment is within those of the   *)
(* chain,                                                                  *)
LEMMA Reach ==
    ASSUME NEW a \in Nat, NEW n \in Nat, NEW j \in 1..n, NEW b \in Nat, NEW t \in Nat, a + n <= b
    PROVE  a + j \in 1..b + t /\ a + j <= b
OBVIOUS

(* The octets of a chain are as many as its segments say, in their order.  *)
LEMMA OctetsRight ==
    ASSUME NEW m \in Memories, NEW c \in Seq(Views), Within(m, c)
    PROVE  HasOctets(m, c, Octets(m, c))
<1> SUFFICES /\ Octets(m, c) \in Seq(Nat) /\ Len(Octets(m, c)) = Total(c)
             /\ \A k \in 1..Len(c) : \A j \in 1..c[k].size :
                  Octets(m, c)[Sums(c)[k - 1] + j] = m[c[k].shared][c[k].offset + j]
  BY DEF HasOctets
<1>0. Len(c) \in Nat /\ DOMAIN c = 1..Len(c)
  BY SizesInNat
<1> DEFINE w == [k \in DOMAIN c |-> View(m, c[k])]
<1>1. \A k \in 1..Len(c) :
        /\ View(m, c[k]) \in Seq(Nat) /\ Len(View(m, c[k])) = c[k].size
        /\ \A j \in 1..c[k].size : View(m, c[k])[j] = m[c[k].shared][c[k].offset + j]
  BY SizesInNat, ViewRight DEF Within
<1>2. w = [k \in 1..Len(c) |-> View(m, c[k])]
  BY <1>0
<1>3. w \in Seq(Seq(Nat)) /\ Len(w) = Len(c)
  <2>1. w \in [1..Len(c) -> Seq(Nat)]
    BY <1>0, <1>1
  <2> HIDE DEF w
  <2>2. w \in Seq(Seq(Nat))
    BY <2>1, <1>0
  <2>3. Len(w) = Len(c)
    BY <2>1, <1>0
  <2> QED BY <2>2, <2>3
<1>4. \A k \in 1..Len(c) :
        /\ w[k] \in Seq(Nat) /\ Len(w[k]) = c[k].size
        /\ \A j \in 1..c[k].size : w[k][j] = m[c[k].shared][c[k].offset + j]
  BY <1>0, <1>1
<1>5. Octets(m, c) = FlattenSeq(w)
  BY DEF Octets
<1> HIDE DEF w
<1>6. CASE Len(c) = 0
  <2>1. w = <<>> /\ FlattenSeq(w) = w
    BY <1>3, <1>6 DEF FlattenSeq
  <2>2. Total(c) = 0
    BY <1>6, SumsFacts DEF Total
  <2>3. <<>> \in Seq(Nat) /\ Len(<<>>) = 0
    OBVIOUS
  <2>4. Octets(m, c) = <<>>
    BY <2>1, <1>5
  <2> QED BY <2>2, <2>3, <2>4, <1>6
<1>7. CASE Len(c) # 0
  <2>1. PICK f : IsFlat(f, w, Len(c)) /\ FlattenSeq(w) = f[Len(c)]
    <3>1. Len(w) > 0
      BY <1>0, <1>3, <1>7
    <3>2. \E f : IsFlat(f, w, Len(w)) /\ FlattenSeq(w) = f[Len(w)]
      BY <3>1, <1>3, FlattenSeqRight
    <3> QED BY <3>2, <1>3
  <2> DEFINE S == Sums(c)
             Good(n) == /\ f[n] \in Seq(Nat) /\ Len(f[n]) = S[n]
                        /\ \A k \in 1..n : \A j \in 1..c[k].size :
                             f[n][S[k - 1] + j] = w[k][j]
             T == {n \in 1..Len(c) : ~ Good(n)}
  <2>2. /\ S[0] = 0 /\ \A k \in 0..Len(c) : S[k] \in Nat
        /\ \A k \in 1..Len(c) : S[k] = S[k - 1] + c[k].size /\ c[k].size \in Nat
    BY SumsFacts, SizesInNat
  <2>3. \A k \in 1..Len(c) : f[k] \in Seq(Nat) /\ f[k] = IF k = 1 THEN w[k] ELSE f[k - 1] \o w[k]
    BY <2>1 DEF IsFlat, Joins
  <2>4. ASSUME T # {} PROVE FALSE
    <3>1. PICK n \in T : \A y \in T : n <= y
      <4>1. T \subseteq Nat
        BY <1>0
      <4> HIDE DEF T
      <4> QED BY <4>1, <2>4, LeastElement
    <3>2. n \in 1..Len(c)
      OBVIOUS
    <3> SUFFICES Good(n)
      BY <3>1
    <3> HIDE DEF S
    <3>3. CASE n = 1
      <4>1. f[n] = w[1] /\ S[1] = c[1].size /\ S[0] = 0
        BY <3>2, <3>3, <2>2, <2>3
      <4>2. \A k \in 1..n : k = 1
        BY <3>3
      <4>3. \A j \in 1..c[1].size : f[1][S[1 - 1] + j] = w[1][j]
        <5> TAKE j \in 1..c[1].size
        <5>1. S[1 - 1] + j = j
          BY <2>2
        <5> QED BY <5>1, <4>1, <3>3
      <4> QED BY <3>2, <3>3, <4>1, <4>2, <4>3, <1>4, <2>3
    <3>4. CASE n # 1
      <4>1. n - 1 \in 1..Len(c) /\ n - 1 \notin T
        BY <3>1, <3>2, <3>4, <1>0
      <4>2. Good(n - 1)
        BY <4>1
      <4>3. f[n] = f[n - 1] \o w[n] /\ w[n] \in Seq(Nat) /\ Len(w[n]) = c[n].size
        BY <3>2, <3>4, <2>3, <1>4
      <4>4. /\ Len(f[n - 1]) = S[n - 1] /\ S[n] = S[n - 1] + c[n].size
            /\ c[n].size \in Nat /\ S[n - 1] \in Nat
        BY <3>2, <4>1, <4>2, <2>2
      <4>5. /\ Len(f[n]) = S[n]
            /\ \A i \in 1..S[n] : f[n][i] = IF i <= S[n - 1] THEN f[n - 1][i] ELSE w[n][i - S[n - 1]]
        <5>1. f[n - 1] \in Seq(Nat)
          BY <4>2
        <5>2. /\ Len(f[n - 1] \o w[n]) = Len(f[n - 1]) + Len(w[n])
              /\ \A i \in 1..Len(f[n - 1]) + Len(w[n]) : (f[n - 1] \o w[n])[i] =
                    IF i <= Len(f[n - 1]) THEN f[n - 1][i] ELSE w[n][i - Len(f[n - 1])]
          BY <5>1, <4>3, ConcatProperties
        <5> QED BY <5>2, <4>3, <4>4
      <4>6. ASSUME NEW k \in 1..n, NEW j \in 1..c[k].size PROVE f[n][S[k - 1] + j] = w[k][j]
        <5>1. CASE k = n
          <6>1. /\ S[n - 1] + j \in 1..S[n] /\ ~(S[n - 1] + j <= S[n - 1])
                /\ (S[n - 1] + j) - S[n - 1] = j
            <7>1. j \in 1..c[n].size
              BY <5>1
            <7>2. PICK x \in Nat, y \in Nat : x = S[n - 1] /\ y = c[n].size
              BY <4>4
            <7>3. j \in 1..y
              BY <7>1, <7>2
            <7>4. PICK s \in Nat : s = x + y
              OBVIOUS
            <7>5. x + j \in 1..s /\ ~(x + j <= x) /\ (x + j) - x = j
              BY <7>3, <7>4, Follows
            <7>6. S[n] = s
              BY <4>4, <7>2, <7>4
            <7> QED BY <7>2, <7>5, <7>6
          <6> QED BY <6>1, <4>5, <5>1
        <5>2. CASE k # n
          <6>1. k \in 1..n - 1 /\ k \in 1..Len(c) /\ k - 1 \in 0..Len(c)
            BY <5>2, <3>2, <1>0
          <6>2. S[k] <= S[n - 1] /\ S[k] = S[k - 1] + c[k].size /\ S[k - 1] \in Nat /\ c[k].size \in Nat
            <7>1. k \in 0..Len(c) /\ n - 1 \in k..Len(c)
              BY <6>1, <4>1
            <7>2. S[k] <= S[n - 1]
              BY <7>1, SumsGrow DEF S
            <7> QED BY <7>2, <6>1, <2>2
          <6>3. S[k - 1] + j \in 1..S[n] /\ S[k - 1] + j <= S[n - 1]
            <7>1. S[k - 1] + c[k].size <= S[n - 1]
              BY <6>2
            <7>2. S[k - 1] + j \in 1..S[n - 1] + c[n].size /\ S[k - 1] + j <= S[n - 1]
              <8> HIDE DEF T, Good
              <8> QED BY <7>1, <6>2, <4>4, Reach, SMTT(60)
            <7> QED BY <7>2, <4>4
          <6>4. f[n][S[k - 1] + j] = f[n - 1][S[k - 1] + j]
            BY <6>3, <4>5
          <6>5. f[n - 1][S[k - 1] + j] = w[k][j]
            BY <6>1, <4>2
          <6> QED BY <6>4, <6>5
        <5> QED BY <5>1, <5>2
      <4> QED BY <4>5, <4>6, <3>2, <2>3
    <3> QED BY <3>3, <3>4
  <2>5. Good(Len(c))
    <3>1. Len(c) \in 1..Len(c) /\ Len(c) \notin T
      BY <1>0, <1>7, <2>4
    <3> QED BY <3>1
  <2>6. Octets(m, c) = f[Len(c)]
    BY <2>1, <1>5
  <2> QED BY <2>5, <2>6, <1>4 DEF Total
<1> QED BY <1>6, <1>7

(* and one between two sums is in the segment that follows the first.      *)
LEMMA Place ==
    ASSUME NEW p \in Nat, NEW x \in Nat, NEW y \in Nat, p >= 1, x <= p - 1, p - 1 < x + y
    PROVE  p - x \in 1..y /\ p = x + (p - x)
OBVIOUS

(* There is no other such sequence.                                        *)
LEMMA OctetsAre ==
    ASSUME NEW m \in Memories, NEW c \in Seq(Views), Within(m, c), NEW q, HasOctets(m, c, q)
    PROVE  Octets(m, c) = q
<1> DEFINE r == Octets(m, c)
<1>1. HasOctets(m, c, r)
  BY OctetsRight
<1> HIDE DEF r
<1>2. /\ Len(c) \in Nat /\ \A k \in 0..Len(c) : Sums(c)[k] \in Nat
      /\ q \in Seq(Nat) /\ r \in Seq(Nat) /\ Len(r) = Total(c) /\ Len(q) = Total(c)
  BY <1>1, SumsFacts, SizesInNat DEF HasOctets
<1>3. ASSUME NEW p \in 1..Len(r) PROVE r[p] = q[p]
  <2>1. p - 1 \in Nat /\ p - 1 < Total(c) /\ p \in Nat /\ p >= 1
    BY <1>2 DEF Total
  <2>2. PICK k \in 1..Len(c) : Sums(c)[k - 1] <= p - 1 /\ p - 1 < Sums(c)[k]
    BY <2>1, SegmentFound
  <2>3. Sums(c)[k] = Sums(c)[k - 1] + c[k].size /\ Sums(c)[k - 1] \in Nat /\ c[k].size \in Nat
    BY <1>2, SumsFacts, SizesInNat
  <2>4. PICK j \in 1..c[k].size : p = Sums(c)[k - 1] + j
    <3>1. p - Sums(c)[k - 1] \in 1..c[k].size /\ p = Sums(c)[k - 1] + (p - Sums(c)[k - 1])
      BY <2>1, <2>2, <2>3, Place, SMTT(60)
    <3> QED BY <3>1
  <2> QED BY <2>4, <1>1 DEF HasOctets
<1>4. r = q
  BY <1>2, <1>3, SeqEqual
<1> QED BY <1>4 DEF r

(* More arithmetic of positions.                                           *)
LEMMA Beyond ==
    ASSUME NEW x \in Nat, NEW y \in Nat, NEW k \in 1..x + y, ~(k <= x)
    PROVE  k - x \in 1..y
OBVIOUS

LEMMA Shifted ==
    ASSUME NEW a \in Nat, NEW b \in Nat, NEW z \in Nat, NEW y \in Nat, z + y \in 1..b, a <= z, y >= 1
    PROVE  (z - a) + y \in 1..b - a /\ a + ((z - a) + y) = z + y
OBVIOUS

(* Where the octets of a segment are.                                      *)
LEMMA Positions ==
    ASSUME NEW c \in Seq(Views), NEW k \in 1..Len(c), NEW j \in 1..c[k].size, NEW x \in k..Len(c)
    PROVE  /\ Sums(c)[k - 1] + j \in 1..Sums(c)[x] /\ Sums(c)[k - 1] \in Nat /\ Sums(c)[x] \in Nat
           /\ Sums(c)[x] <= Total(c) /\ Total(c) \in Nat
<1>0. Len(c) \in Nat /\ k \in 0..Len(c) /\ k - 1 \in 0..Len(c) /\ x \in 0..Len(c) /\ Len(c) \in x..Len(c) /\ Len(c) \in 0..Len(c)
  BY SizesInNat
<1>1. /\ Sums(c)[k - 1] \in Nat /\ Sums(c)[x] \in Nat /\ Sums(c)[k] \in Nat /\ Total(c) \in Nat
      /\ Sums(c)[k] = Sums(c)[k - 1] + c[k].size
      /\ c[k].size \in Nat
  BY <1>0, SumsFacts, SizesInNat DEF Total
<1>2. Sums(c)[k] <= Sums(c)[x] /\ Sums(c)[x] <= Total(c)
  BY <1>0, SumsGrow DEF Total
<1>3. Sums(c)[k - 1] + c[k].size <= Sums(c)[x]
  BY <1>1, <1>2
<1>4. Sums(c)[k - 1] + j \in 1..Sums(c)[x] + 0
  BY <1>1, <1>3, Reach
<1> QED BY <1>1, <1>2, <1>4

(* The octets of two chains, one after the other.                          *)
LEMMA OctetsOfConcat ==
    ASSUME NEW m \in Memories, NEW c \in Seq(Views), NEW d \in Seq(Views),
           Within(m, c), Within(m, d)
    PROVE  /\ c \o d \in Seq(Views) /\ Within(m, c \o d)
           /\ Octets(m, c \o d) = Octets(m, c) \o Octets(m, d)
<1> DEFINE e == c \o d
           q == Octets(m, c)
           r == Octets(m, d)
<1>0. Len(c) \in Nat /\ Len(d) \in Nat
  BY SizesInNat
<1>1. /\ e \in Seq(Views) /\ Len(e) = Len(c) + Len(d)
      /\ \A i \in 1..Len(c) + Len(d) : e[i] = IF i <= Len(c) THEN c[i] ELSE d[i - Len(c)]
  BY ConcatProperties
<1>2. /\ \A k \in 0..Len(c) : Sums(e)[k] = Sums(c)[k]
      /\ \A k \in 0..Len(d) : Sums(e)[Len(c) + k] = Total(c) + Sums(d)[k]
      /\ Total(e) = Total(c) + Total(d)
  BY SumsOfConcat
<1>3. HasOctets(m, c, q) /\ HasOctets(m, d, r)
  BY OctetsRight
<1> HIDE DEF e, q, r
<1>4. /\ q \in Seq(Nat) /\ r \in Seq(Nat) /\ Len(q) = Total(c) /\ Len(r) = Total(d)
      /\ q \o r \in Seq(Nat) /\ Len(q \o r) = Len(q) + Len(r)
      /\ \A i \in 1..Len(q) + Len(r) : (q \o r)[i] = IF i <= Len(q) THEN q[i] ELSE r[i - Len(q)]
  BY <1>3, ConcatProperties DEF HasOctets
<1>5. Total(c) \in Nat /\ Total(d) \in Nat
  BY <1>4, LenProperties
<1>6. ASSUME NEW k \in 1..Len(e)
      PROVE  \/ k \in 1..Len(c) /\ e[k] = c[k] /\ Sums(e)[k - 1] = Sums(c)[k - 1]
             \/ \E n \in 1..Len(d) : e[k] = d[n] /\ Sums(e)[k - 1] = Total(c) + Sums(d)[n - 1]
  <2>0. k \in 1..Len(c) + Len(d)
    BY <1>1
  <2>1. CASE k <= Len(c)
    <3>1. k \in 1..Len(c) /\ k - 1 \in 0..Len(c)
      BY <2>0, <2>1, <1>0
    <3> QED BY <3>1, <2>0, <2>1, <1>1, <1>2
  <2>2. CASE ~(k <= Len(c))
    <3>1. PICK n \in 1..Len(d) : n = k - Len(c)
      <4>1. k - Len(c) \in 1..Len(d)
        BY <2>0, <2>2, <1>0, Beyond
      <4> QED BY <4>1
    <3>2. e[k] = d[n]
      BY <2>0, <2>2, <1>1, <3>1
    <3>3. n - 1 \in 0..Len(d) /\ Len(c) + (n - 1) = k - 1
      BY <3>1, <1>0, <2>0
    <3>4. Sums(e)[k - 1] = Total(c) + Sums(d)[n - 1]
      BY <3>3, <1>2
    <3> QED BY <3>2, <3>4
  <2> QED BY <2>1, <2>2
<1>7. Within(m, e)
  BY <1>6 DEF Within
<1>8. HasOctets(m, e, q \o r)
  <2>1. ASSUME NEW k \in 1..Len(e), NEW j \in 1..e[k].size
        PROVE  (q \o r)[Sums(e)[k - 1] + j] = m[e[k].shared][e[k].offset + j]
    <3>1. CASE k \in 1..Len(c) /\ e[k] = c[k] /\ Sums(e)[k - 1] = Sums(c)[k - 1]
      <4>1. k \in 1..Len(c) /\ j \in 1..c[k].size /\ Len(c) \in k..Len(c)
        BY <3>1, <1>0
      <4>2. Sums(c)[k - 1] + j \in 1..Total(c)
        BY <4>1, Positions DEF Total
      <4>3. (q \o r)[Sums(c)[k - 1] + j] = q[Sums(c)[k - 1] + j]
        <5> DEFINE i == Sums(c)[k - 1] + j
        <5>1. i \in 1..Len(q) + Len(r) /\ i <= Len(q)
          BY <4>2, <1>4, <1>5
        <5> HIDE DEF i
        <5>2. (q \o r)[i] = q[i]
          BY <5>1, <1>4
        <5> QED BY <5>2 DEF i
      <4>4. q[Sums(c)[k - 1] + j] = m[c[k].shared][c[k].offset + j]
        BY <4>1, <1>3 DEF HasOctets
      <4> QED BY <4>3, <4>4, <3>1
    <3>2. CASE \E n \in 1..Len(d) : e[k] = d[n] /\ Sums(e)[k - 1] = Total(c) + Sums(d)[n - 1]
      <4>1. PICK n \in 1..Len(d) : e[k] = d[n] /\ Sums(e)[k - 1] = Total(c) + Sums(d)[n - 1]
        BY <3>2
      <4>2. j \in 1..d[n].size /\ Len(d) \in n..Len(d)
        BY <4>1, <1>0
      <4>3. Sums(d)[n - 1] + j \in 1..Total(d) /\ Sums(d)[n - 1] \in Nat
        BY <4>2, Positions DEF Total
      <4>4. PICK x \in 1..Total(d) : x = Sums(d)[n - 1] + j
        BY <4>3
      <4>5. (q \o r)[Total(c) + x] = r[x]
        <5>1. /\ Total(c) + x \in 1..Len(q) + Len(r) /\ ~(Total(c) + x <= Len(q))
              /\ (Total(c) + x) - Len(q) = x
          <6>1. PICK a \in Nat, b \in Nat : a = Total(c) /\ b = Total(d)
            BY <1>5
          <6>2. x \in 1..b /\ Len(q) = a /\ Len(r) = b
            BY <6>1, <4>4, <1>4
          <6>3. a + x \in 1..a + b /\ ~(a + x <= a) /\ (a + x) - a = x
            BY <6>2
          <6> QED BY <6>1, <6>2, <6>3
        <5> QED BY <5>1, <1>4
      <4>6. Total(c) + x = Sums(e)[k - 1] + j
        BY <4>1, <4>3, <4>4, <1>5, SMTT(60)
      <4>7. r[x] = m[d[n].shared][d[n].offset + j]
        BY <4>2, <4>4, <1>3 DEF HasOctets
      <4> QED BY <4>5, <4>6, <4>7, <4>1
    <3> QED BY <3>1, <3>2, <1>6
  <2> QED BY <2>1, <1>2, <1>4 DEF HasOctets
<1>9. Octets(m, e) = q \o r
  BY <1>1, <1>7, <1>8, OctetsAre
<1> QED BY <1>1, <1>7, <1>9 DEF e, q, r

(* The octets of a part of a chain.                                        *)
LEMMA OctetsOfSubSeq ==
    ASSUME NEW m \in Memories, NEW c \in Seq(Views), Within(m, c),
           NEW i \in 1..Len(c) + 1, NEW j \in i - 1..Len(c)
    PROVE  /\ Within(m, SubSeq(c, i, j))
           /\ Octets(m, SubSeq(c, i, j)) = SubSeq(Octets(m, c), Sums(c)[i - 1] + 1, Sums(c)[j])
<1> DEFINE e == SubSeq(c, i, j)
           q == Octets(m, c)
<1>0. Len(c) \in Nat /\ i \in Int /\ j \in Int /\ j - i + 1 \in Nat
  BY SizesInNat
<1>1. /\ e \in Seq(Views) /\ Len(e) = j - i + 1
      /\ \A k \in 1..j - i + 1 : e[k] = c[i + k - 1] /\ i + k - 1 \in 1..Len(c)
      /\ \A k \in 0..j - i + 1 : Sums(e)[k] = Sums(c)[i + k - 1] - Sums(c)[i - 1]
      /\ Total(e) = Sums(c)[j] - Sums(c)[i - 1]
  BY SumsOfSubSeq
<1>2. HasOctets(m, c, q)
  BY OctetsRight
<1> HIDE DEF e, q
<1>3. i - 1 \in 0..Len(c) /\ j \in 0..Len(c) /\ j \in i - 1..Len(c) /\ Len(c) \in j..Len(c) /\ Len(c) \in 0..Len(c)
  BY <1>0
<1>4. PICK a \in Nat, b \in Nat : a = Sums(c)[i - 1] /\ b = Sums(c)[j]
  BY <1>3, SumsFacts
<1>5. a <= b /\ b <= Total(c) /\ Total(c) \in Nat
  BY <1>3, <1>4, SumsGrow, SumsFacts DEF Total
<1>6. PICK x \in Int : x = a + 1
  OBVIOUS
<1> DEFINE r == SubSeq(q, x, b)
<1>7. /\ r \in Seq(Nat) /\ Len(r) = b - a
      /\ \A k \in 1..b - a : r[k] = q[a + k]
  <2>1. \A k \in x..b : q[k] \in Nat
    <3> TAKE k \in x..b
    <3>1. k \in 1..Len(q) /\ q \in Seq(Nat)
      BY <1>2, <1>5, <1>6 DEF HasOctets
    <3> QED BY <3>1, ElementOfSeq
  <2>2. /\ r \in Seq(Nat) /\ Len(r) = IF x <= b THEN b - x + 1 ELSE 0
        /\ \A k \in 1..b - x + 1 : r[k] = q[x + k - 1]
    BY <2>1, SubSeqProperties
  <2>3. Len(r) = b - a
    BY <2>2, <1>5, <1>6
  <2>4. ASSUME NEW k \in 1..b - a PROVE r[k] = q[a + k]
    <3>1. k \in 1..b - x + 1 /\ x + k - 1 = a + k
      BY <1>6
    <3> HIDE DEF r
    <3> QED BY <3>1, <2>2
  <2> QED BY <2>2, <2>3, <2>4
<1> HIDE DEF r
<1>8. Within(m, e)
  BY <1>1 DEF Within
<1>9. HasOctets(m, e, r)
  <2>1. Len(r) = Total(e)
    BY <1>7, <1>1, <1>4
  <2>2. ASSUME NEW k \in 1..Len(e), NEW y \in 1..e[k].size
        PROVE  r[Sums(e)[k - 1] + y] = m[e[k].shared][e[k].offset + y]
    <3>1. k \in 1..j - i + 1 /\ k - 1 \in 0..j - i + 1
      BY <1>1, <1>0
    <3>2. PICK n \in 1..Len(c) : n = i + k - 1
      BY <3>1, <1>1
    <3>3. e[k] = c[n] /\ y \in 1..c[n].size
      BY <3>1, <3>2, <1>1
    <3>4. j \in n..Len(c) /\ i + (k - 1) - 1 = n - 1 /\ i - 1 \in 0..Len(c) /\ n - 1 \in i - 1..Len(c) /\ n - 1 \in 0..Len(c)
      BY <3>1, <3>2, <1>0
    <3>5. Sums(e)[k - 1] = Sums(c)[n - 1] - a
      BY <3>1, <3>4, <1>1, <1>4
    <3>6. Sums(c)[n - 1] + y \in 1..b /\ Sums(c)[n - 1] \in Nat
      BY <3>3, <3>4, <1>4, Positions
    <3>7. a <= Sums(c)[n - 1]
      BY <3>4, <1>4, SumsGrow
    <3>8. PICK z \in Nat : z = Sums(c)[n - 1]
      BY <3>6
    <3>9. Sums(e)[k - 1] + y \in 1..b - a /\ a + (Sums(e)[k - 1] + y) = z + y
      <4>1. y \in Nat /\ y >= 1
        BY <3>3, SizesInNat
      <4>2. (z - a) + y \in 1..b - a /\ a + ((z - a) + y) = z + y
        <5>1. z + y \in 1..b /\ a <= z
          BY <3>6, <3>7, <3>8
        <5> QED BY <4>1, <5>1, Shifted
      <4> QED BY <4>2, <3>5, <3>8
    <3>10. r[Sums(e)[k - 1] + y] = q[z + y]
      BY <3>9, <1>7
    <3>11. q[z + y] = m[c[n].shared][c[n].offset + y]
      BY <3>3, <3>8, <1>2 DEF HasOctets
    <3> QED BY <3>3, <3>10, <3>11
  <2> QED BY <2>1, <2>2, <1>7 DEF HasOctets
<1>10. Octets(m, e) = r
  BY <1>1, <1>8, <1>9, OctetsAre
<1> QED BY <1>4, <1>6, <1>8, <1>10 DEF e, q, r

(* The octets of a chain of one segment.                                   *)
LEMMA OctetsOfOne ==
    ASSUME NEW m \in Memories, NEW s \in Views, s.offset + s.size <= Len(m[s.shared])
    PROVE  Within(m, <<s>>) /\ Octets(m, <<s>>) = View(m, s)
<1>1. <<s>> \in Seq(Views) /\ Len(<<s>>) = 1 /\ <<s>>[1] = s /\ Total(<<s>>) = s.size
  BY SumsOfOne
<1>2. Within(m, <<s>>)
  BY <1>1 DEF Within
<1>3. View(m, s) \in Seq(Nat) /\ Len(View(m, s)) = s.size
  BY ViewRight
<1>4. ASSUME NEW k \in 1..Len(<<s>>), NEW j \in 1..<<s>>[k].size
      PROVE  View(m, s)[Sums(<<s>>)[k - 1] + j] = m[<<s>>[k].shared][<<s>>[k].offset + j]
  <2>1. k = 1 /\ k - 1 = 0
    BY <1>1
  <2>2. <<s>>[k] = s /\ j \in 1..s.size /\ Sums(<<s>>)[k - 1] = 0
    BY <1>1, <2>1, SumsFacts
  <2>3. Sums(<<s>>)[k - 1] + j = j
    BY <2>2
  <2> QED BY <2>2, <2>3, ViewRight
<1>5. HasOctets(m, <<s>>, View(m, s))
  BY <1>1, <1>3, <1>4 DEF HasOctets
<1> QED BY <1>1, <1>2, <1>5, OctetsAre

(* Memory that no segment looks at does not matter.                        *)
LEMMA OctetsElsewhere ==
    ASSUME NEW m \in Memories, NEW n \in Memories, NEW c \in Seq(Views), Within(m, c),
           \A k \in 1..Len(c) : n[c[k].shared] = m[c[k].shared]
    PROVE  Within(n, c) /\ Octets(n, c) = Octets(m, c)
<1>1. Within(n, c)
  BY DEF Within
<1>2. HasOctets(m, c, Octets(m, c))
  BY OctetsRight
<1>3. HasOctets(n, c, Octets(m, c))
  <2> DEFINE q == Octets(m, c)
  <2>1. HasOctets(m, c, q)
    BY <1>2
  <2> HIDE DEF q
  <2>2. HasOctets(n, c, q)
    BY <2>1 DEF HasOctets
  <2> QED BY <2>2 DEF q
<1> QED BY <1>1, <1>3, OctetsAre

(* The segments of a chain that look at a buffer.                          *)
Lookers(c, s) == {k \in DOMAIN c : c[k].shared = s}

(* They are counted by Looking.                                            *)
LEMMA LookersFinite ==
    ASSUME NEW c \in Seq(Views), NEW s
    PROVE  IsFiniteSet(Lookers(c, s)) /\ Looking(c, s) = Cardinality(Lookers(c, s)) /\ Looking(c, s) \in Nat
<1>1. DOMAIN c = 1..Len(c) /\ Len(c) \in Nat
  BY SizesInNat
<1>2. IsFiniteSet(1..Len(c))
  BY <1>1, FS_Interval
<1>3. Lookers(c, s) \in SUBSET (1..Len(c))
  BY <1>1 DEF Lookers
<1>4. IsFiniteSet(Lookers(c, s))
  BY <1>2, <1>3, FS_Subset
<1> QED BY <1>4, FS_CardinalityType DEF Lookers, Looking

(* A chain looks at a buffer if one of its segments does.                  *)
LEMMA LookingNone ==
    ASSUME NEW c \in Seq(Views), NEW s
    PROVE  Looking(c, s) = 0 <=> \A k \in 1..Len(c) : c[k].shared # s
<1>1. Looking(c, s) = 0 <=> Lookers(c, s) = {}
  BY LookersFinite, FS_EmptySet
<1>2. DOMAIN c = 1..Len(c)
  BY SizesInNat
<1> QED BY <1>1, <1>2 DEF Lookers

(* Only the buffers of the segments matter.                                *)
LEMMA LookingSame ==
    ASSUME NEW c \in Seq(Views), NEW d \in Seq(Views), Len(c) = Len(d),
           \A k \in 1..Len(c) : c[k].shared = d[k].shared
    PROVE  \A s : Looking(c, s) = Looking(d, s)
<1>1. DOMAIN c = 1..Len(c) /\ DOMAIN d = 1..Len(c)
  BY SizesInNat
<1>2. \A s : {k \in DOMAIN c : c[k].shared = s} = {k \in DOMAIN d : d[k].shared = s}
  BY <1>1
<1> QED BY <1>2 DEF Looking

(* A chain of one segment looks at its buffer once.                        *)
LEMMA LookingOne ==
    ASSUME NEW x \in Views, NEW s
    PROVE  Looking(<<x>>, s) = IF x.shared = s THEN 1 ELSE 0
<1>1. DOMAIN <<x>> = {1} /\ <<x>>[1] = x
  OBVIOUS
<1>2. {k \in DOMAIN <<x>> : <<x>>[k].shared = s} = IF x.shared = s THEN {1} ELSE {}
  BY <1>1
<1>3. CASE x.shared = s
  <2>1. {k \in DOMAIN <<x>> : <<x>>[k].shared = s} = {1}
    BY <1>2, <1>3
  <2>2. Cardinality({1}) = 1
    BY FS_Singleton
  <2> QED BY <1>3, <2>1, <2>2 DEF Looking
<1>4. CASE x.shared # s
  <2>1. {k \in DOMAIN <<x>> : <<x>>[k].shared = s} = {}
    BY <1>2, <1>4
  <2> QED BY <1>4, <2>1, FS_EmptySet DEF Looking
<1> QED BY <1>3, <1>4

(* The counts of two chains add up,                                        *)
LEMMA LookingConcat ==
    ASSUME NEW c \in Seq(Views), NEW d \in Seq(Views), NEW s
    PROVE  Looking(c \o d, s) = Looking(c, s) + Looking(d, s)
<1> DEFINE e == c \o d
           n == Len(c)
           A == Lookers(c, s)
           B == Lookers(d, s)
           C == {k \in n + 1..n + Len(d) : d[k - n].shared = s}
<1>0. /\ n \in Nat /\ Len(d) \in Nat
      /\ DOMAIN c = 1..n /\ DOMAIN d = 1..Len(d) /\ e \in Seq(Views) /\ Len(e) = n + Len(d)
      /\ \A i \in 1..n + Len(d) : e[i] = IF i <= n THEN c[i] ELSE d[i - n]
  BY SizesInNat, ConcatProperties
<1>1. DOMAIN e = 1..n + Len(d)
  BY <1>0, SizesInNat
<1> HIDE DEF e
<1>2. IsFiniteSet(A) /\ IsFiniteSet(B) /\ Looking(c, s) = Cardinality(A) /\ Looking(d, s) = Cardinality(B)
  BY LookersFinite
<1>3. A \subseteq 1..n /\ \A k \in 1..n : k \in A <=> c[k].shared = s
  BY <1>0 DEF Lookers
<1>4. B \subseteq 1..Len(d) /\ \A k \in 1..Len(d) : k \in B <=> d[k].shared = s
  BY <1>0 DEF Lookers
<1>5. Lookers(e, s) = A \cup C
  <2>1. ASSUME NEW k \in 1..n + Len(d)
        PROVE  e[k].shared = s <=> k \in A \cup C
    <3>1. CASE k <= n
      <4>1. k \in 1..n /\ k \notin C /\ e[k] = c[k]
        BY <3>1, <1>0
      <4> HIDE DEF A, C
      <4> QED BY <4>1, <1>3
    <3>2. CASE ~(k <= n)
      <4>1. k \in n + 1..n + Len(d) /\ k \notin 1..n /\ e[k] = d[k - n]
        BY <3>2, <1>0
      <4>2. k \notin A
        BY <4>1, <1>3
      <4> HIDE DEF A
      <4> QED BY <4>1, <4>2
    <3> QED BY <3>1, <3>2
  <2>2. A \cup C \subseteq 1..n + Len(d)
    <3>1. 1..n \subseteq 1..n + Len(d) /\ C \subseteq 1..n + Len(d)
      BY <1>0
    <3> HIDE DEF A, C
    <3> QED BY <1>3, <3>1
  <2> HIDE DEF A, C
  <2> QED BY <2>1, <2>2, <1>1 DEF Lookers
<1>6. A \cap C = {}
  <2>1. \A k \in C : k \notin 1..n
    BY <1>0
  <2> HIDE DEF A, C
  <2> QED BY <2>1, <1>3
<1>7. ExistsBijection(B, C)
  <2> DEFINE f == [k \in B |-> k + n]
  <2>1. ASSUME NEW k \in B PROVE k + n \in C
    <3>1. k \in 1..Len(d) /\ d[k].shared = s
      <4> HIDE DEF B
      <4> QED BY <1>4
    <3>2. k + n \in n + 1..n + Len(d) /\ (k + n) - n = k
      BY <3>1, <1>0
    <3> QED BY <3>1, <3>2
  <2>2. ASSUME NEW k \in C PROVE \E i \in B : i + n = k
    <3>1. k - n \in 1..Len(d) /\ (k - n) + n = k
      BY <1>0
    <3>2. d[k - n].shared = s
      OBVIOUS
    <3>3. k - n \in B
      <4> HIDE DEF B, C
      <4> QED BY <3>1, <3>2, <1>4
    <3> QED BY <3>1, <3>3
  <2>3. ASSUME NEW i \in B, NEW k \in B, i + n = k + n PROVE i = k
    <3>1. i \in 1..Len(d) /\ k \in 1..Len(d)
      <4> HIDE DEF B
      <4> QED BY <1>4
    <3> QED BY <3>1, <2>3, <1>0
  <2> HIDE DEF B, C
  <2>4. f \in Bijection(B, C)
    <3>1. f \in [B -> C]
      BY <2>1
    <3>2. \A i, k \in B : f[i] = f[k] => i = k
      BY <2>3
    <3>3. \A k \in C : \E i \in B : f[i] = k
      BY <2>2
    <3> HIDE DEF f
    <3>4. f \in Injection(B, C)
      BY <3>1, <3>2 DEF Injection, IsInjective
    <3>5. f \in Surjection(B, C)
      BY <3>1, <3>3 DEF Surjection
    <3> QED BY <3>4, <3>5 DEF Bijection
  <2> QED BY <2>4 DEF ExistsBijection
<1>8. IsFiniteSet(C) /\ Cardinality(C) = Cardinality(B)
  <2> HIDE DEF B, C
  <2> QED BY <1>2, <1>7, FS_Bijection
<1>9. Cardinality(A \cup C) = Cardinality(A) + Cardinality(C)
  <2> HIDE DEF A, C
  <2>1. Cardinality(A \cup C) = Cardinality(A) + Cardinality(C) - Cardinality(A \cap C)
    BY <1>2, <1>8, FS_Union
  <2>2. Cardinality(A \cap C) = 0
    BY <1>6, FS_EmptySet
  <2>3. Cardinality(A) \in Nat /\ Cardinality(C) \in Nat
    BY <1>2, <1>8, FS_CardinalityType
  <2> QED BY <2>1, <2>2, <2>3
<1>10. Looking(e, s) = Cardinality(Lookers(e, s))
  BY <1>0, LookersFinite
<1> QED BY <1>2, <1>5, <1>8, <1>9, <1>10 DEF e

(* so that those of the two parts of a chain make up its own.              *)
LEMMA LookingSplit ==
    ASSUME NEW c \in Seq(Views), NEW i \in 0..Len(c), NEW s
    PROVE  Looking(c, s) = Looking(SubSeq(c, 1, i), s) + Looking(SubSeq(c, i + 1, Len(c)), s)
<1>0. Len(c) \in Nat
  BY SizesInNat
<1>1. SubSeq(c, 1, i) \o SubSeq(c, i + 1, Len(c)) = c
  <2>1. 1 \in 1..Len(c) + 1 /\ i \in 1 - 1..Len(c) /\ Len(c) \in i..Len(c)
    BY <1>0
  <2>2. SubSeq(c, 1, i) \o SubSeq(c, i + 1, Len(c)) = SubSeq(c, 1, Len(c))
    BY <2>1, ConcatAdjacentSubSeq
  <2> QED BY <2>2, SubSeqFull
<1>2. SubSeq(c, 1, i) \in Seq(Views) /\ SubSeq(c, i + 1, Len(c)) \in Seq(Views)
  <2>1. 1 \in 1..Len(c) + 1 /\ i \in 1 - 1..Len(c)
        /\ i + 1 \in 1..Len(c) + 1 /\ Len(c) \in i + 1 - 1..Len(c)
    BY <1>0
  <2> QED BY <2>1, SumsOfSubSeq
<1>3. Looking(SubSeq(c, 1, i) \o SubSeq(c, i + 1, Len(c)), s)
        = Looking(SubSeq(c, 1, i), s) + Looking(SubSeq(c, i + 1, Len(c)), s)
  BY <1>2, LookingConcat
<1> QED BY <1>1, <1>3

-----------------------------------------------------------------------------
(* All segments that look at a buffer, in whatever handle.                 *)

Pointers == [Handles -> Heads \cup {NULL}]
InUse(bl) == {h \in Handles : bl[h] # NULL}
Seen(bl, s) ==
    {v \in UNION {{h} \X DOMAIN bl[h].chain : h \in InUse(bl)} : bl[v[1]].chain[v[2]].shared = s}
Share(head, s) == IF head = NULL THEN 0 ELSE Looking(head.chain, s)

(* They are those of the chains of the handles.                            *)
LEMMA SeenIs ==
    ASSUME NEW bl \in Pointers, NEW s, NEW v
    PROVE  v \in Seen(bl, s) <=>
             \E h \in InUse(bl) : \E k \in Lookers(bl[h].chain, s) : v = <<h, k>>
<1>1. ASSUME v \in Seen(bl, s)
      PROVE  \E h \in InUse(bl) : \E k \in Lookers(bl[h].chain, s) : v = <<h, k>>
  <2>1. PICK h \in InUse(bl) : v \in {h} \X DOMAIN bl[h].chain
    BY <1>1 DEF Seen
  <2>2. PICK k \in DOMAIN bl[h].chain : v = <<h, k>>
    BY <2>1
  <2>3. bl[h].chain[k].shared = s
    BY <1>1, <2>2 DEF Seen
  <2>4. k \in Lookers(bl[h].chain, s)
    BY <2>2, <2>3 DEF Lookers
  <2> QED BY <2>2, <2>4
<1>2. ASSUME NEW h \in InUse(bl), NEW k \in Lookers(bl[h].chain, s), v = <<h, k>>
      PROVE  v \in Seen(bl, s)
  <2>1. k \in DOMAIN bl[h].chain /\ bl[h].chain[k].shared = s
    BY DEF Lookers
  <2>2. v \in {h} \X DOMAIN bl[h].chain
    BY <1>2, <2>1
  <2>3. v \in UNION {{i} \X DOMAIN bl[i].chain : i \in InUse(bl)}
    BY <2>2
  <2>4. v[1] = h /\ v[2] = k
    BY <1>2
  <2> QED BY <2>1, <2>3, <2>4 DEF Seen
<1> QED BY <1>1, <1>2

(* There are finitely many, and those of one handle are its share.         *)
LEMMA SeenFinite ==
    ASSUME NEW bl \in Pointers, NEW s
    PROVE  IsFiniteSet(Seen(bl, s))
<1> DEFINE H == InUse(bl)
           P(h) == {h} \X DOMAIN bl[h].chain
           T == {P(h) : h \in H}
           f == [h \in H |-> P(h)]
<1>1. IsFiniteSet(H)
  <2>1. H \in SUBSET Handles
    BY DEF InUse
  <2> HIDE DEF H
  <2> QED BY <2>1, BlockAssumption, FS_Subset
<1>2. ASSUME NEW h \in H PROVE IsFiniteSet(P(h))
  <2>1. bl[h].chain \in Seq(Views)
    BY DEF InUse, Pointers, Heads
  <2>2. IsFiniteSet(DOMAIN bl[h].chain)
    <3>1. DOMAIN bl[h].chain = 1..Len(bl[h].chain) /\ Len(bl[h].chain) \in Nat
      BY <2>1, SizesInNat
    <3> QED BY <3>1, FS_Interval
  <2>3. IsFiniteSet({h})
    BY FS_Singleton
  <2> QED BY <2>2, <2>3, FS_Product
<1>3. f \in Surjection(H, T)
  <2> HIDE DEF H, P
  <2> QED BY DEF Surjection
<1>4. IsFiniteSet(T)
  <2> HIDE DEF H, T, f
  <2> QED BY <1>1, <1>3, FS_Surjection
<1>5. \A t \in T : IsFiniteSet(t)
  <2> HIDE DEF H, P
  <2> QED BY <1>2
<1>6. IsFiniteSet(UNION T)
  <2> HIDE DEF T
  <2> QED BY <1>4, <1>5, FS_UNION
<1>7. Seen(bl, s) \in SUBSET UNION T
  BY DEF Seen
<1> QED BY <1>6, <1>7, FS_Subset

(* The share of one handle, and the others.                                *)
LEMMA SeenApart ==
    ASSUME NEW bl \in Pointers, NEW h \in Handles, NEW s
    PROVE  LET rest == {v \in Seen(bl, s) : v[1] # h}
           IN  /\ IsFiniteSet(rest)
               /\ Cardinality(Seen(bl, s)) = Share(bl[h], s) + Cardinality(rest)
               /\ Share(bl[h], s) \in Nat /\ Cardinality(rest) \in Nat
<1> DEFINE A == {v \in Seen(bl, s) : v[1] = h}
           R == {v \in Seen(bl, s) : v[1] # h}
<1>0. Seen(bl, s) = A \cup R /\ A \cap R = {}
  OBVIOUS
<1>1. IsFiniteSet(A) /\ IsFiniteSet(R)
  <2>1. A \in SUBSET Seen(bl, s) /\ R \in SUBSET Seen(bl, s)
    OBVIOUS
  <2> HIDE DEF A, R
  <2> QED BY <2>1, SeenFinite, FS_Subset
<1>2. Cardinality(Seen(bl, s)) = Cardinality(A) + Cardinality(R) /\ Cardinality(R) \in Nat
  <2> HIDE DEF A, R
  <2>1. Cardinality(A \cup R) = Cardinality(A) + Cardinality(R) - Cardinality(A \cap R)
    BY <1>1, FS_Union
  <2>2. Cardinality(A \cap R) = 0
    BY <1>0, FS_EmptySet
  <2>3. Cardinality(A) \in Nat /\ Cardinality(R) \in Nat
    BY <1>1, FS_CardinalityType
  <2> QED BY <1>0, <2>1, <2>2, <2>3
<1>3. Cardinality(A) = Share(bl[h], s) /\ Share(bl[h], s) \in Nat
  <2>1. CASE bl[h] = NULL
    <3>1. A = {}
      <4> SUFFICES ASSUME NEW v \in A PROVE FALSE
        OBVIOUS
      <4>1. PICK i \in InUse(bl) : \E k \in Lookers(bl[i].chain, s) : v = <<i, k>>
        BY SeenIs
      <4>2. i = h
        BY <4>1
      <4> QED BY <4>2, <2>1 DEF InUse
    <3> HIDE DEF A
    <3> QED BY <2>1, <3>1, FS_EmptySet DEF Share
  <2>2. CASE bl[h] # NULL
    <3> DEFINE K == Lookers(bl[h].chain, s)
               f == [k \in K |-> <<h, k>>]
    <3>1. h \in InUse(bl) /\ bl[h].chain \in Seq(Views)
      BY <2>2 DEF InUse, Pointers, Heads
    <3>2. IsFiniteSet(K) /\ Looking(bl[h].chain, s) = Cardinality(K) /\ Looking(bl[h].chain, s) \in Nat
      BY <3>1, LookersFinite
    <3>3. ASSUME NEW k \in K PROVE <<h, k>> \in A
      <4>1. <<h, k>> \in Seen(bl, s)
        <5> HIDE DEF K
        <5>1. \E i \in InUse(bl) : \E j \in Lookers(bl[i].chain, s) : <<h, k>> = <<i, j>>
          BY <3>1 DEF K
        <5> QED BY <5>1, SeenIs
      <4> QED BY <4>1
    <3>4. ASSUME NEW v \in A PROVE \E k \in K : <<h, k>> = v
      <4>0. PICK i \in InUse(bl) : \E k \in Lookers(bl[i].chain, s) : v = <<i, k>>
        BY SeenIs DEF A
      <4>1. PICK k \in Lookers(bl[i].chain, s) : v = <<i, k>>
        BY <4>0
      <4>2. i = h
        BY <4>1
      <4> QED BY <4>1, <4>2
    <3> HIDE DEF K, A
    <3>5. f \in Bijection(K, A)
      <4>1. f \in [K -> A]
        BY <3>3
      <4>2. \A i, k \in K : f[i] = f[k] => i = k
        OBVIOUS
      <4>3. \A v \in A : \E k \in K : f[k] = v
        BY <3>4
      <4> HIDE DEF f
      <4>4. f \in Injection(K, A)
        BY <4>1, <4>2 DEF Injection, IsInjective
      <4>5. f \in Surjection(K, A)
        BY <4>1, <4>3 DEF Surjection
      <4> QED BY <4>4, <4>5 DEF Bijection
    <3>6. ExistsBijection(K, A)
      BY <3>5 DEF ExistsBijection
    <3>7. Cardinality(A) = Cardinality(K)
      BY <3>2, <3>6, FS_Bijection
    <3> QED BY <2>2, <3>2, <3>7 DEF Share
  <2> QED BY <2>1, <2>2
<1> HIDE DEF A
<1> QED BY <1>1, <1>2, <1>3

(* What a change of one handle does to the count.                          *)
LEMMA RecountedOne ==
    ASSUME NEW bl \in Pointers, NEW b2 \in Pointers, NEW h \in Handles, NEW s,
           \A i \in Handles \ {h} : b2[i] = bl[i]
    PROVE  /\ Cardinality(Seen(b2, s)) = Cardinality(Seen(bl, s)) - Share(bl[h], s) + Share(b2[h], s)
           /\ Cardinality(Seen(bl, s)) \in Nat /\ Share(bl[h], s) \in Nat /\ Share(b2[h], s) \in Nat
           /\ Share(bl[h], s) <= Cardinality(Seen(bl, s))
<1> DEFINE R(b) == {v \in Seen(b, s) : v[1] # h}
<1>1. ASSUME NEW b \in Pointers, NEW d \in Pointers, \A i \in Handles \ {h} : b[i] = d[i]
      PROVE  R(b) \subseteq R(d)
  <2> SUFFICES ASSUME NEW v \in R(b) PROVE v \in Seen(d, s)
    OBVIOUS
  <2>0. PICK i \in InUse(b) : \E k \in Lookers(b[i].chain, s) : v = <<i, k>>
    BY SeenIs
  <2>1. PICK k \in Lookers(b[i].chain, s) : v = <<i, k>>
    BY <2>0
  <2>2. i # h /\ i \in Handles
    BY <2>1 DEF InUse
  <2>3. d[i] = b[i] /\ i \in InUse(d)
    BY <2>2, <1>1 DEF InUse
  <2>4. k \in Lookers(d[i].chain, s)
    BY <2>3
  <2> QED BY <2>1, <2>3, <2>4, SeenIs
<1>2. R(bl) = R(b2)
  <2>1. R(bl) \subseteq R(b2)
    BY <1>1
  <2>2. R(b2) \subseteq R(bl)
    BY <1>1
  <2> QED BY <2>1, <2>2
<1>3. /\ Cardinality(Seen(bl, s)) = Share(bl[h], s) + Cardinality(R(bl))
      /\ Share(bl[h], s) \in Nat /\ Cardinality(R(bl)) \in Nat
  BY SeenApart
<1>4. /\ Cardinality(Seen(b2, s)) = Share(b2[h], s) + Cardinality(R(b2))
      /\ Share(b2[h], s) \in Nat
  BY SeenApart
<1> HIDE DEF R
<1> QED BY <1>2, <1>3, <1>4

(* And of two.                                                             *)
LEMMA RecountedTwo ==
    ASSUME NEW bl \in Pointers, NEW b2 \in Pointers, NEW h \in Handles, NEW j \in Handles, NEW s,
           h # j, \A i \in Handles \ {h, j} : b2[i] = bl[i]
    PROVE  /\ Cardinality(Seen(b2, s)) =
                Cardinality(Seen(bl, s)) - Share(bl[h], s) - Share(bl[j], s)
                  + Share(b2[h], s) + Share(b2[j], s)
           /\ Cardinality(Seen(bl, s)) \in Nat
           /\ Share(bl[h], s) \in Nat /\ Share(bl[j], s) \in Nat
           /\ Share(b2[h], s) \in Nat /\ Share(b2[j], s) \in Nat
<1> DEFINE b1 == [bl EXCEPT ![h] = b2[h]]
<1>1. /\ b1 \in Pointers /\ b1[h] = b2[h] /\ b1[j] = bl[j]
      /\ \A i \in Handles \ {h} : b1[i] = bl[i]
      /\ \A i \in Handles \ {j} : b2[i] = b1[i]
  BY DEF Pointers
<1> HIDE DEF b1
<1>2. /\ Cardinality(Seen(b1, s)) = Cardinality(Seen(bl, s)) - Share(bl[h], s) + Share(b1[h], s)
      /\ Cardinality(Seen(bl, s)) \in Nat /\ Share(bl[h], s) \in Nat /\ Share(b1[h], s) \in Nat
  BY <1>1, RecountedOne
<1>3. /\ Cardinality(Seen(b2, s)) = Cardinality(Seen(b1, s)) - Share(b1[j], s) + Share(b2[j], s)
      /\ Share(b1[j], s) \in Nat /\ Share(b2[j], s) \in Nat
  BY <1>1, RecountedOne
<1> QED BY <1>1, <1>2, <1>3

(* The cached segment begins where the head says, unless it is the head    *)
(* itself and there was a prepend.                                         *)
Cached(b) ==
    b.cached_offset >= 0 =>
      \/ b.cached_offset = Sums(b.chain)[b.cached_ubuf - 1]
      \/ b.cached_ubuf = 1 /\ b.cached_offset > 0

(* What is true of the head of a block, whatever memory has.               *)
Sound(b) ==
    /\ b \in Heads /\ Len(b.chain) > 0
    /\ b.total_size = Total(b.chain)
    /\ b.cached_ubuf \in 1..Len(b.chain) /\ b.cached_end_ubuf \in 1..Len(b.chain)
    /\ Cached(b)

(* g is the segment that has the octet at offset a, and its offset there.  *)
Found(c, a, g) ==
    /\ g \in Finds /\ g # NULL
    /\ g.seg \in 1..Len(c) /\ g.offset \in 0..c[g.seg].size - 1
    /\ Sums(c)[g.seg - 1] + g.offset = a

(* Arithmetic: an octet is in a segment if it is after its beginning and   *)
(* before its end.                                                         *)
LEMMA InSegment ==
    ASSUME NEW a \in Nat, NEW y \in Nat, NEW n \in Nat, NEW z \in Int, z = a - y
    PROVE  z \in 0..n - 1 <=> y <= a /\ a < y + n
<1>1. z \in 0..n - 1 => y <= a /\ a < y + n
  OBVIOUS
<1>2. y <= a /\ a < y + n => z \in 0..n - 1
  OBVIOUS
<1> QED BY <1>1, <1>2

(* The search from a segment on finds the segment of the octet.            *)
LEMMA SearchRight ==
    ASSUME NEW c \in Seq(Views), NEW i \in 1..Len(c), NEW o \in Nat, NEW a \in Nat,
           a = o + Sums(c)[i - 1]
    PROVE  IF a < Total(c) THEN Found(c, a, Search(c, i, o)) ELSE Search(c, i, o) = NULL
<1>0. /\ Len(c) \in Nat /\ \A k \in 1..Len(c) : c[k].size \in Nat
      /\ \A k \in 0..Len(c) : Sums(c)[k] \in Nat
      /\ \A k \in 1..Len(c) : Sums(c)[k] = Sums(c)[k - 1] + c[k].size
  BY SizesInNat, SumsFacts
<1> DEFINE left(k) == o - Sized(c, i, k - 1)
           hits == {k \in i..Len(c) : left(k) \in 0..c[k].size - 1}
<1>1. ASSUME NEW k \in 1..Len(c) PROVE left(k) = a - Sums(c)[k - 1] /\ left(k) \in Int
  <2>1. i - 1 \in 0..Len(c) /\ k - 1 \in 0..Len(c)
    BY <1>0
  <2>2. PICK x \in Nat, y \in Nat : x = Sums(c)[i - 1] /\ y = Sums(c)[k - 1]
    BY <2>1, <1>0
  <2>3. left(k) = o - (y - x) /\ a = o + x
    BY <2>2 DEF Sized
  <2> HIDE DEF left
  <2> QED BY <2>2, <2>3, SMTT(60)
<1>2. ASSUME NEW k \in 1..Len(c)
      PROVE  left(k) \in 0..c[k].size - 1 <=> Sums(c)[k - 1] <= a /\ a < Sums(c)[k]
  <2>1. k - 1 \in 0..Len(c)
    BY <1>0
  <2>2. PICK y \in Nat, n \in Nat : y = Sums(c)[k - 1] /\ n = c[k].size
    BY <2>1, <1>0
  <2>3. left(k) = a - y /\ Sums(c)[k] = y + n
    BY <2>2, <1>0, <1>1
  <2>4. PICK z \in Int : z = left(k)
    BY <1>1
  <2> HIDE DEF left
  <2>5. z = a - y
    BY <2>3, <2>4
  <2>6. z \in 0..n - 1 <=> y <= a /\ a < y + n
    BY <2>2, <2>4, <2>5, InSegment
  <2> QED BY <2>2, <2>3, <2>4, <2>6
<1> HIDE DEF left
<1>3. Search(c, i, o) = IF hits = {} THEN NULL ELSE [seg |-> Min(hits), offset |-> left(Min(hits))]
  BY DEF Search, left
<1>4. CASE a < Total(c)
  <2>1. PICK k \in 1..Len(c) : Sums(c)[k - 1] <= a /\ a < Sums(c)[k]
    BY <1>4, SegmentFound
  <2>2. i <= k
    <3> SUFFICES ASSUME k < i PROVE FALSE
      BY <1>0
    <3>1. k \in 0..Len(c) /\ i - 1 \in k..Len(c) /\ i - 1 \in 0..Len(c)
      BY <1>0
    <3>2. Sums(c)[k] <= Sums(c)[i - 1]
      BY <3>1, SumsGrow
    <3>3. Sums(c)[i - 1] \in Nat /\ Sums(c)[k] \in Nat
      BY <3>1, <1>0
    <3> QED BY <3>2, <3>3, <2>1
  <2>3. k \in hits
    BY <2>1, <2>2, <1>0, <1>2
  <2>4. hits # {} /\ hits \subseteq Nat
    BY <2>3, <1>0
  <2>5. Min(hits) \in hits
    <3> HIDE DEF hits
    <3> QED BY <2>4, MinFound
  <2>6. PICK n \in 1..Len(c) : n = Min(hits) /\ left(n) \in 0..c[n].size - 1
    <3>1. \A n \in hits : n \in 1..Len(c) /\ left(n) \in 0..c[n].size - 1
      BY <1>0
    <3> HIDE DEF hits
    <3> QED BY <2>5, <3>1
  <2> DEFINE g == [seg |-> n, offset |-> left(n)]
  <2>7. Search(c, i, o) = g
    BY <1>3, <2>4, <2>6
  <2>8. g \in Finds /\ g.seg = n /\ g.offset = left(n)
    <3>1. left(n) \in Nat /\ n \in Nat
      BY <2>6, <1>0
    <3> QED BY <3>1 DEF Finds
  <2>9. g # NULL
    BY <2>8, BlockAssumption
  <2>10. Sums(c)[n - 1] + left(n) = a
    <3>1. n - 1 \in 0..Len(c)
      BY <1>0
    <3>2. PICK y \in Nat : y = Sums(c)[n - 1]
      BY <3>1, <1>0
    <3>3. left(n) = a - y
      BY <3>2, <1>1
    <3> QED BY <3>2, <3>3
  <2>11. Found(c, a, g)
    <3> HIDE DEF g
    <3> QED BY <2>6, <2>8, <2>9, <2>10 DEF Found
  <2> QED BY <1>4, <2>7, <2>11
<1>5. CASE ~(a < Total(c))
  <2>1. hits = {}
    <3> SUFFICES ASSUME NEW k \in hits PROVE FALSE
      OBVIOUS
    <3>1. k \in 1..Len(c) /\ k \in 0..Len(c) /\ Len(c) \in k..Len(c)
      BY <1>0
    <3>2. a < Sums(c)[k]
      BY <3>1, <1>2
    <3>3. Sums(c)[k] <= Total(c) /\ Sums(c)[k] \in Nat /\ Total(c) \in Nat
      BY <3>1, <1>0, SumsGrow DEF Total
    <3> QED BY <3>2, <3>3, <1>5
  <2> QED BY <2>1, <1>3, <1>5
<1> QED BY <1>4, <1>5

(* What a sound head has.                                                  *)
LEMMA SoundFacts ==
    ASSUME NEW b, Sound(b)
    PROVE  /\ b \in Heads /\ b.chain \in Seq(Views) /\ Len(b.chain) \in Nat /\ Len(b.chain) > 0
           /\ b.total_size \in Nat /\ b.total_size = Total(b.chain)
           /\ b.cached_offset \in Int
           /\ b.cached_ubuf \in 1..Len(b.chain) /\ b.cached_end_ubuf \in 1..Len(b.chain)
           /\ 1 \in 1..Len(b.chain) /\ Sums(b.chain)[0] = 0
<1>1. b \in Heads /\ b.chain \in Seq(Views) /\ b.total_size \in Nat /\ b.cached_offset \in Int
  BY DEF Sound, Heads
<1>2. Len(b.chain) \in Nat /\ Sums(b.chain)[0] = 0
  BY <1>1, SizesInNat, SumsFacts
<1>3. 1 \in 1..Len(b.chain)
  BY <1>2 DEF Sound
<1> QED BY <1>1, <1>2, <1>3 DEF Sound

(* A look-up at the beginning never goes astray.                           *)
LEMMA FromStart ==
    ASSUME NEW b, Sound(b)
    PROVE  Absolute(b, 0) = 0 /\ ~Astray(b, 0)
<1>1. PICK y \in Int : y = b.cached_offset
  BY SoundFacts
<1>2. Absolute(b, 0) = 0
  BY DEF Absolute
<1>3. y > 0 => ~Below(y, 0)
  BY DEF Below
<1> QED BY <1>1, <1>2, <1>3 DEF Astray

(* The cache does not change what is found, unless the look-up goes astray.*)
LEMMA GetRight ==
    ASSUME NEW b, Sound(b), NEW o \in Int, Absolute(b, o) >= 0, ~Astray(b, o)
    PROVE  IF Absolute(b, o) < b.total_size THEN Found(b.chain, Absolute(b, o), Get(b, o))
           ELSE Get(b, o) = NULL
<1> DEFINE a == Absolute(b, o)
           c == b.chain
           n == b.cached_offset
           i == b.cached_ubuf
<1>0. /\ c \in Seq(Views) /\ Len(c) \in Nat /\ Len(c) > 0 /\ Sums(c)[0] = 0
      /\ b.total_size \in Nat /\ b.total_size = Total(c)
      /\ n \in Int /\ i \in 1..Len(c) /\ 1 \in 1..Len(c)
  BY SoundFacts
<1>1. a \in Nat
  BY <1>0 DEF Absolute
<1>2. n >= 0 => n = Sums(c)[i - 1] \/ (i = 1 /\ n > 0)
  BY DEF Sound, Cached
<1>7. Below(n, a) => ~(i = 1 /\ n > 0)
  BY DEF Astray
<1>3. Get(b, o) = IF Below(n, a) THEN Search(c, i, a - n) ELSE Search(c, 1, a)
  BY DEF Get
<1>4. Below(n, a) <=> n >= 0 /\ n <= a
  BY <1>0, <1>1 DEF Below
<1> HIDE DEF a, c, n, i
<1>5. CASE Below(n, a)
  <2>1. n \in Nat /\ a - n \in Nat /\ a = (a - n) + Sums(c)[i - 1]
    BY <1>0, <1>1, <1>2, <1>4, <1>5, <1>7
  <2>2. IF a < Total(c) THEN Found(c, a, Search(c, i, a - n)) ELSE Search(c, i, a - n) = NULL
    BY <2>1, <1>0, <1>1, SearchRight
  <2> QED BY <2>2, <1>0, <1>3, <1>5 DEF a, c
<1>6. CASE ~Below(n, a)
  <2>1. a = a + Sums(c)[1 - 1]
    BY <1>0, <1>1
  <2>2. IF a < Total(c) THEN Found(c, a, Search(c, 1, a)) ELSE Search(c, 1, a) = NULL
    BY <2>1, <1>0, <1>1, SearchRight
  <2> QED BY <2>2, <1>0, <1>3, <1>6 DEF a, c
<1> QED BY <1>5, <1>6

(* What is found is within the chain and its octets.                       *)
LEMMA FoundFacts ==
    ASSUME NEW c \in Seq(Views), NEW a \in Int, NEW g, Found(c, a, g)
    PROVE  /\ g # NULL /\ g.seg \in 1..Len(c) /\ g.offset \in Nat /\ g.offset < c[g.seg].size
           /\ c[g.seg] \in Views /\ c[g.seg].size \in Nat /\ Len(c) \in Nat
           /\ Sums(c)[g.seg - 1] \in Nat /\ a = Sums(c)[g.seg - 1] + g.offset
           /\ Sums(c)[g.seg] = Sums(c)[g.seg - 1] + c[g.seg].size /\ a \in Nat
<1>1. g # NULL /\ g.seg \in 1..Len(c) /\ g.offset \in 0..c[g.seg].size - 1
      /\ Sums(c)[g.seg - 1] + g.offset = a
  BY DEF Found
<1>2. Len(c) \in Nat /\ c[g.seg] \in Views /\ c[g.seg].size \in Nat
  BY <1>1, SizesInNat
<1>3. g.offset \in Nat /\ g.offset < c[g.seg].size
  BY <1>1, <1>2
<1>4. g.seg - 1 \in 0..Len(c)
  BY <1>1, <1>2
<1>5. Sums(c)[g.seg - 1] \in Nat /\ Sums(c)[g.seg] = Sums(c)[g.seg - 1] + c[g.seg].size
  BY <1>1, <1>4, SumsFacts
<1> QED BY <1>1, <1>2, <1>3, <1>5

(* A look-up leaves the head as it has to be.                              *)
LEMMA LookedRight ==
    ASSUME NEW b, Sound(b), NEW o \in Int, Absolute(b, o) >= 0, ~Astray(b, o)
    PROVE  /\ Sound(Looked(b, o))
           /\ Looked(b, o).chain = b.chain /\ Looked(b, o).total_size = b.total_size
           /\ Looked(b, o).cached_end_ubuf = b.cached_end_ubuf
           /\ Looked(b, o).cached_ubuf \in 1..Len(b.chain)
           /\ Get(b, o) # NULL =>
                /\ Looked(b, o).cached_ubuf = Get(b, o).seg
                /\ Looked(b, o).cached_offset = o - Get(b, o).offset
<1> DEFINE g == Get(b, o)
           a == Absolute(b, o)
           l == Looked(b, o)
<1>0. /\ b \in Heads /\ b.chain \in Seq(Views) /\ Len(b.chain) \in Nat /\ Len(b.chain) > 0
      /\ b.total_size \in Nat /\ b.total_size = Total(b.chain)
      /\ b.cached_ubuf \in 1..Len(b.chain) /\ b.cached_end_ubuf \in 1..Len(b.chain)
  BY SoundFacts
<1>1. a \in Int
  BY <1>0 DEF Absolute
<1>2. CASE g = NULL
  <2>1. l = b
    BY <1>2 DEF Looked
  <2> QED BY <1>2, <2>1, <1>0 DEF Sound
<1>3. CASE g # NULL
  <2>1. Found(b.chain, a, g)
    BY <1>3, GetRight
  <2> HIDE DEF a
  <2>2. /\ g.seg \in 1..Len(b.chain) /\ g.offset \in Nat
        /\ Sums(b.chain)[g.seg - 1] \in Nat /\ a = Sums(b.chain)[g.seg - 1] + g.offset
    BY <2>1, <1>0, <1>1, FoundFacts
  <2>3. l = [b EXCEPT !.cached_ubuf = g.seg, !.cached_offset = o - g.offset]
    BY <1>3 DEF Looked
  <2> HIDE DEF g, l
  <2>4. /\ l.chain = b.chain /\ l.total_size = b.total_size
        /\ l.cached_end_ubuf = b.cached_end_ubuf
        /\ l.cached_ubuf = g.seg /\ l.cached_offset = o - g.offset
    BY <2>3, <1>0 DEF Heads
  <2>5. l \in Heads
    <3>1. g.seg \in Nat /\ o - g.offset \in Int
      BY <2>2
    <3> QED BY <2>3, <3>1, <1>0 DEF Heads
  <2>6. l.cached_offset >= 0 => l.cached_offset = Sums(b.chain)[l.cached_ubuf - 1]
    <3> SUFFICES ASSUME o - g.offset >= 0 PROVE o - g.offset = Sums(b.chain)[g.seg - 1]
      BY <2>4
    <3>1. o >= 0
      BY <2>2
    <3>2. a = o
      BY <3>1 DEF Absolute, a
    <3>3. PICK y \in Nat : y = Sums(b.chain)[g.seg - 1]
      BY <2>2
    <3> QED BY <3>2, <3>3, <2>2
  <2>7. Sound(l)
    BY <2>2, <2>4, <2>5, <2>6, <1>0 DEF Sound, Cached
  <2> QED BY <2>2, <2>4, <2>7 DEF g, l
<1> QED BY <1>2, <1>3

(* s is a part of segment t, from its offset n on.                         *)
PartOf(s, t, n) ==
    /\ s \in Views /\ n \in Nat
    /\ s.shared = t.shared /\ s.offset = t.offset + n /\ n + s.size <= t.size

(* A part of a segment shows a part of its octets.                         *)
LEMMA PartsOctets ==
    ASSUME NEW m \in Memories, NEW c \in Seq(Views), Within(m, c),
           NEW i \in 1..Len(c), NEW n \in Nat, NEW s, PartOf(s, c[i], n), NEW j \in 1..s.size
    PROVE  /\ Octets(m, c)[Sums(c)[i - 1] + (n + j)] = m[s.shared][s.offset + j]
           /\ n + j \in 1..c[i].size
<1> DEFINE t == c[i]
<1>1. /\ t \in Views /\ t.size \in Nat /\ t.offset \in Nat
      /\ s.size \in Nat /\ s.offset \in Nat /\ n \in Nat
      /\ s.shared = t.shared /\ s.offset = t.offset + n /\ n + s.size <= t.size
  BY SizesInNat DEF PartOf, Views
<1> HIDE DEF t
<1>2. PICK y \in Nat : y = t.size
  BY <1>1
<1>3. PICK z \in Nat : z = s.size
  BY <1>1
<1>4. n + j \in 1..y /\ j \in Nat
  BY <1>1, <1>2, <1>3
<1>5. t.offset + (n + j) = s.offset + j
  BY <1>1, <1>4
<1>6. n + j \in 1..c[i].size
  BY <1>2, <1>4 DEF t
<1>7. PICK x \in 1..c[i].size : x = n + j
  BY <1>6
<1>8. Octets(m, c)[Sums(c)[i - 1] + x] = m[c[i].shared][c[i].offset + x]
  BY OctetsRight DEF HasOctets
<1> QED BY <1>1, <1>5, <1>6, <1>7, <1>8 DEF t

(* d is made of parts of c, and q has the octets of c where these parts are.*)
Derived(m, c, d, q) ==
    /\ d \in Seq(Views) /\ q \in Seq(Nat) /\ Len(q) = Total(d)
    /\ \A k \in 1..Len(d) : \E i \in 1..Len(c) : \E n \in Nat :
         /\ PartOf(d[k], c[i], n)
         /\ \A j \in 1..d[k].size :
              q[Sums(d)[k - 1] + j] = Octets(m, c)[Sums(c)[i - 1] + (n + j)]

(* The octets of a derived chain are q.                                    *)
LEMMA DerivedOctets ==
    ASSUME NEW m \in Memories, NEW c \in Seq(Views), Within(m, c), NEW d, NEW q,
           Derived(m, c, d, q)
    PROVE  Within(m, d) /\ Octets(m, d) = q
<1>0. d \in Seq(Views)
  BY DEF Derived
<1>1. ASSUME NEW k \in 1..Len(d)
      PROVE  /\ d[k].offset + d[k].size <= Len(m[d[k].shared])
             /\ \A j \in 1..d[k].size : q[Sums(d)[k - 1] + j] = m[d[k].shared][d[k].offset + j]
  <2>1. PICK i \in 1..Len(c), n \in Nat :
          /\ PartOf(d[k], c[i], n)
          /\ \A j \in 1..d[k].size :
               q[Sums(d)[k - 1] + j] = Octets(m, c)[Sums(c)[i - 1] + (n + j)]
    BY DEF Derived
  <2> DEFINE s == d[k]
             t == c[i]
  <2>2. /\ t.size \in Nat /\ t.offset \in Nat /\ s.size \in Nat /\ s.offset \in Nat
        /\ s.shared = t.shared /\ s.offset = t.offset + n /\ n + s.size <= t.size
    BY <2>1, SizesInNat DEF PartOf, Views
  <2>3. t.offset + t.size <= Len(m[t.shared])
    BY DEF Within
  <2>4. Len(m[s.shared]) \in Nat /\ m[s.shared] = m[t.shared]
    <3>1. m[s.shared] \in Seq(Nat)
      BY <1>0, SizesInNat DEF Memories
    <3> HIDE DEF s, t
    <3> QED BY <3>1, <2>2, LenProperties
  <2>5. s.offset + s.size <= Len(m[s.shared])
    <3> HIDE DEF s, t
    <3>1. PICK l \in Nat : l = Len(m[s.shared])
      BY <2>4
    <3>2. t.offset + t.size <= l
      BY <3>1, <2>3, <2>4
    <3>3. s.offset + s.size <= l
      BY <3>2, <2>2, SMTT(60)
    <3> QED BY <3>1, <3>3
  <2>6. ASSUME NEW j \in 1..d[k].size
        PROVE  Octets(m, c)[Sums(c)[i - 1] + (n + j)] = m[d[k].shared][d[k].offset + j]
    <3>1. PartOf(d[k], c[i], n)
      BY <2>1
    <3>2. PICK x : x = d[k]
      OBVIOUS
    <3>3. PartOf(x, c[i], n) /\ j \in 1..x.size
      BY <3>1, <3>2
    <3>4. Octets(m, c)[Sums(c)[i - 1] + (n + j)] = m[x.shared][x.offset + j]
      BY <3>3, PartsOctets
    <3> QED BY <3>2, <3>4
  <2> QED BY <2>1, <2>5, <2>6
<1>2. Within(m, d)
  BY <1>1 DEF Within
<1>3. HasOctets(m, d, q)
  <2>1. q \in Seq(Nat) /\ Len(q) = Total(d)
    BY DEF Derived
  <2> QED BY <1>1, <2>1 DEF HasOctets
<1> QED BY <1>0, <1>2, <1>3, OctetsAre

(* A segment is a part of itself.                                          *)
LEMMA WholePart ==
    ASSUME NEW s \in Views
    PROVE  PartOf(s, s, 0)
BY DEF PartOf, Views

-----------------------------------------------------------------------------
(* A segment is cut in two.                                                *)
LEMMA SlicedIs ==
    ASSUME NEW c \in Seq(Views), NEW i \in 1..Len(c), NEW o \in Nat, o <= c[i].size
    PROVE  LET d == Sliced(c, i, o)
           IN  /\ d \in Seq(Views) /\ Len(d) = Len(c) + 1
               /\ \A k \in 1..i - 1 : d[k] = c[k]
               /\ d[i] = [shared |-> c[i].shared, offset |-> c[i].offset, size |-> o]
               /\ d[i + 1] = [shared |-> c[i].shared, offset |-> c[i].offset + o,
                              size |-> c[i].size - o]
               /\ \A k \in i + 2..Len(c) + 1 : d[k] = c[k - 1]
<1> DEFINE A == SubSeq(c, 1, i - 1)
           x == [c[i] EXCEPT !.size = o]
           y == [c[i] EXCEPT !.offset = @ + o, !.size = @ - o]
           X == <<x, y>>
           B == SubSeq(c, i + 1, Len(c))
           d == Sliced(c, i, o)
<1>0. /\ Len(c) \in Nat /\ c[i] \in Views
      /\ c[i].size \in Nat /\ c[i].offset \in Nat /\ c[i].shared \in Buffers
  BY SizesInNat
<1>1. /\ x = [shared |-> c[i].shared, offset |-> c[i].offset, size |-> o]
      /\ y = [shared |-> c[i].shared, offset |-> c[i].offset + o, size |-> c[i].size - o]
      /\ x \in Views /\ y \in Views
  <2> DEFINE t == c[i]
  <2>1. t \in Views /\ t.size - o \in Nat /\ t.offset + o \in Nat
    BY <1>0
  <2> HIDE DEF t
  <2>2. /\ [t EXCEPT !.size = o] = [shared |-> t.shared, offset |-> t.offset, size |-> o]
        /\ [t EXCEPT !.offset = @ + o, !.size = @ - o]
             = [shared |-> t.shared, offset |-> t.offset + o, size |-> t.size - o]
    <3>1. PICK z \in Buffers, p \in Nat, n \in Nat : t = [shared |-> z, offset |-> p, size |-> n]
      BY <2>1 DEF Views
    <3>2. [t EXCEPT !.size = o] = [shared |-> z, offset |-> p, size |-> o]
      BY <3>1
    <3>3. [t EXCEPT !.offset = @ + o, !.size = @ - o] = [shared |-> z, offset |-> p + o, size |-> n - o]
      <4> DEFINE u == [t EXCEPT !.offset = @ + o, !.size = @ - o]
      <4>1. t.offset = p /\ t.size = n /\ t.shared = z /\ n - o \in Nat
        BY <2>1, <3>1
      <4>2. u = [t EXCEPT !.offset = p + o, !.size = n - o]
        BY <4>1
      <4> HIDE DEF u
      <4>3. u.offset = p + o /\ u.size = n - o /\ u.shared = z /\ u \in Views
        BY <2>1, <4>1, <4>2 DEF Views
      <4>4. u = [shared |-> z, offset |-> p + o, size |-> n - o]
        BY <4>3 DEF Views
      <4> QED BY <4>4 DEF u
    <3>4. t.shared = z /\ t.offset = p /\ t.size = n
      BY <3>1
    <3> QED BY <3>2, <3>3, <3>4
  <2>3. /\ [shared |-> t.shared, offset |-> t.offset, size |-> o] \in Views
        /\ [shared |-> t.shared, offset |-> t.offset + o, size |-> t.size - o] \in Views
    BY <2>1 DEF Views
  <2> QED BY <2>2, <2>3 DEF t
<1>2. /\ A \in Seq(Views) /\ Len(A) = i - 1
      /\ \A k \in 1..i - 1 : A[k] = c[k]
  <2>1. 1 \in 1..Len(c) + 1 /\ i - 1 \in 1 - 1..Len(c) /\ (i - 1) - 1 + 1 = i - 1
        /\ \A k \in 1..i - 1 : 1 + k - 1 = k
    BY <1>0
  <2>2. /\ A \in Seq(Views) /\ Len(A) = (i - 1) - 1 + 1
        /\ \A k \in 1..(i - 1) - 1 + 1 : A[k] = c[1 + k - 1]
    BY <2>1, SumsOfSubSeq
  <2> QED BY <2>1, <2>2
<1>3. /\ B \in Seq(Views) /\ Len(B) = Len(c) - i
      /\ \A k \in 1..Len(c) - i : B[k] = c[i + k]
  <2>1. i + 1 \in 1..Len(c) + 1 /\ Len(c) \in (i + 1) - 1..Len(c) /\ Len(c) - (i + 1) + 1 = Len(c) - i
        /\ \A k \in 1..Len(c) - i : i + 1 + k - 1 = i + k
    BY <1>0
  <2>2. /\ B \in Seq(Views) /\ Len(B) = Len(c) - (i + 1) + 1
        /\ \A k \in 1..Len(c) - (i + 1) + 1 : B[k] = c[i + 1 + k - 1]
    BY <2>1, SumsOfSubSeq
  <2> QED BY <2>1, <2>2
<1>4. d = A \o X \o B
  BY DEF Sliced
<1>5. X \in Seq(Views) /\ Len(X) = 2 /\ X[1] = x /\ X[2] = y
  BY <1>1
<1> HIDE DEF A, B, X, x, y, d
<1>6. /\ A \o X \in Seq(Views) /\ Len(A \o X) = i + 1
      /\ \A k \in 1..i - 1 : (A \o X)[k] = c[k]
      /\ (A \o X)[i] = x /\ (A \o X)[i + 1] = y
  <2>1. /\ A \o X \in Seq(Views) /\ Len(A \o X) = Len(A) + Len(X)
        /\ \A k \in 1..Len(A) + Len(X) : (A \o X)[k] = IF k <= Len(A) THEN A[k] ELSE X[k - Len(A)]
    BY <1>2, <1>5, ConcatProperties
  <2>2. Len(A) + Len(X) = i + 1
    BY <1>2, <1>5, <1>0
  <2>3. \A k \in 1..i - 1 : k \in 1..i + 1 /\ k <= i - 1
    BY <1>0
  <2>4. i \in 1..i + 1 /\ i + 1 \in 1..i + 1 /\ ~(i <= i - 1) /\ ~(i + 1 <= i - 1)
        /\ i - (i - 1) = 1 /\ (i + 1) - (i - 1) = 2
    BY <1>0
  <2>5. \A k \in 1..i - 1 : (A \o X)[k] = c[k]
    BY <2>1, <2>2, <2>3, <1>2
  <2>6. (A \o X)[i] = x /\ (A \o X)[i + 1] = y
    BY <2>1, <2>2, <2>4, <1>2, <1>5
  <2> QED BY <2>1, <2>2, <2>5, <2>6
<1>7. /\ d \in Seq(Views) /\ Len(d) = Len(c) + 1
      /\ \A k \in 1..i + 1 : d[k] = (A \o X)[k]
      /\ \A k \in i + 2..Len(c) + 1 : d[k] = c[k - 1]
  <2>0. PICK E \in Seq(Views) : E = A \o X
    BY <1>6
  <2>1. /\ (A \o X) \o B \in Seq(Views) /\ Len((A \o X) \o B) = Len(A \o X) + Len(B)
        /\ \A k \in 1..Len(A \o X) + Len(B) :
             ((A \o X) \o B)[k] = IF k <= Len(A \o X) THEN (A \o X)[k] ELSE B[k - Len(A \o X)]
    <3>1. /\ E \o B \in Seq(Views) /\ Len(E \o B) = Len(E) + Len(B)
          /\ \A k \in 1..Len(E) + Len(B) :
               (E \o B)[k] = IF k <= Len(E) THEN E[k] ELSE B[k - Len(E)]
      BY <1>3, ConcatProperties
    <3> QED BY <3>1, <2>0
  <2>2. Len(A \o X) + Len(B) = Len(c) + 1
    BY <1>3, <1>6, <1>0
  <2>3. \A k \in 1..i + 1 : k \in 1..Len(c) + 1 /\ k <= i + 1
    BY <1>0
  <2>4. \A k \in 1..i + 1 : d[k] = (A \o X)[k]
    BY <2>1, <2>2, <2>3, <1>4, <1>6
  <2>5. ASSUME NEW k \in i + 2..Len(c) + 1 PROVE d[k] = c[k - 1]
    <3>1. k \in 1..Len(c) + 1 /\ ~(k <= i + 1) /\ k - (i + 1) \in 1..Len(c) - i
          /\ i + (k - (i + 1)) = k - 1
      BY <1>0
    <3>2. d[k] = B[k - (i + 1)]
      BY <3>1, <2>1, <2>2, <1>4, <1>6
    <3> QED BY <3>1, <3>2, <1>3
  <2> QED BY <2>1, <2>2, <2>4, <2>5, <1>4
<1>8. \A k \in 1..i - 1 : k \in 1..i + 1
  BY <1>0
<1>9. i \in 1..i + 1 /\ i + 1 \in 1..i + 1
  BY <1>0
<1>10. \A k \in 1..i - 1 : d[k] = c[k]
  BY <1>6, <1>7, <1>8
<1>11. d[i] = x /\ d[i + 1] = y
  BY <1>6, <1>7, <1>9
<1> QED BY <1>1, <1>7, <1>10, <1>11 DEF d

(* A cut does not change the other sums.                                   *)
LEMMA SumsOfSliced ==
    ASSUME NEW c \in Seq(Views), NEW i \in 1..Len(c), NEW o \in Nat, o <= c[i].size
    PROVE  LET d == Sliced(c, i, o)
           IN  /\ \A k \in 0..i - 1 : Sums(d)[k] = Sums(c)[k]
               /\ Sums(d)[i] = Sums(c)[i - 1] + o
               /\ \A k \in i + 1..Len(c) + 1 : Sums(d)[k] = Sums(c)[k - 1]
               /\ Total(d) = Total(c)
<1> DEFINE d == Sliced(c, i, o)
           S == Sums(c)
           f == [k \in 0..Len(c) + 1 |->
                   IF k < i THEN S[k] ELSE IF k = i THEN S[i - 1] + o ELSE S[k - 1]]
<1>0. /\ d \in Seq(Views) /\ Len(d) = Len(c) + 1
      /\ \A k \in 1..i - 1 : d[k] = c[k]
      /\ d[i].size = o /\ d[i + 1].size = c[i].size - o
      /\ \A k \in i + 2..Len(c) + 1 : d[k] = c[k - 1]
  <2>1. /\ d \in Seq(Views) /\ Len(d) = Len(c) + 1
        /\ \A k \in 1..i - 1 : d[k] = c[k]
        /\ d[i] = [shared |-> c[i].shared, offset |-> c[i].offset, size |-> o]
        /\ d[i + 1] = [shared |-> c[i].shared, offset |-> c[i].offset + o, size |-> c[i].size - o]
        /\ \A k \in i + 2..Len(c) + 1 : d[k] = c[k - 1]
    BY SlicedIs
  <2> HIDE DEF d
  <2> QED BY <2>1
<1>1. /\ Len(c) \in Nat /\ S[0] = 0 /\ \A k \in 0..Len(c) : S[k] \in Nat
      /\ \A k \in 1..Len(c) : S[k] = S[k - 1] + c[k].size /\ c[k].size \in Nat
  BY SizesInNat, SumsFacts
<1> HIDE DEF d, S
<1>2. i - 1 \in 0..Len(c) /\ S[i - 1] \in Nat /\ i \in 1..Len(c) /\ i \in 0..Len(c) + 1
  BY <1>1
<1>3. /\ \A k \in 0..i - 1 : f[k] = S[k]
      /\ f[i] = S[i - 1] + o
      /\ \A k \in i + 1..Len(c) + 1 : f[k] = S[k - 1]
  <2>1. \A k \in 0..i - 1 : k \in 0..Len(c) + 1 /\ k < i
    BY <1>1
  <2>2. i \in 0..Len(c) + 1 /\ ~(i < i)
    BY <1>1
  <2>3. \A k \in i + 1..Len(c) + 1 : k \in 0..Len(c) + 1 /\ ~(k < i) /\ k # i
    BY <1>1
  <2> QED BY <2>1, <2>2, <2>3
<1> HIDE DEF f
<1>4. f[0] = 0
  <2>1. 0 \in 0..i - 1
    BY <1>1
  <2> QED BY <2>1, <1>1, <1>3
<1>5. ASSUME NEW k \in 1..Len(d) PROVE f[k] = f[k - 1] + d[k].size
  <2>0. k \in 1..Len(c) + 1
    BY <1>0
  <2>1. CASE k < i
    <3>1. k \in 1..i - 1 /\ k \in 0..i - 1 /\ k - 1 \in 0..i - 1 /\ k \in 1..Len(c)
      BY <2>0, <2>1, <1>1
    <3> QED BY <3>1, <1>0, <1>1, <1>3
  <2>2. CASE k = i
    <3>1. k - 1 \in 0..i - 1
      BY <2>2, <1>1
    <3> QED BY <3>1, <2>2, <1>0, <1>3
  <2>3. CASE k = i + 1
    <3>1. k \in i + 1..Len(c) + 1 /\ k - 1 = i
      BY <2>0, <2>3
    <3>2. f[k] = S[i] /\ f[k - 1] = S[i - 1] + o
      BY <3>1, <1>3
    <3>3. d[k].size = c[i].size - o
      BY <2>3, <1>0
    <3>4. S[i] = S[i - 1] + c[i].size /\ c[i].size \in Nat
      BY <1>1
    <3> QED BY <3>2, <3>3, <3>4, <1>2
  <2>4. CASE k > i + 1
    <3>1. /\ k \in i + 1..Len(c) + 1 /\ k - 1 \in i + 1..Len(c) + 1 /\ k \in i + 2..Len(c) + 1
          /\ k - 1 \in 1..Len(c)
      BY <2>0, <2>4, <1>1
    <3>2. f[k] = S[k - 1] /\ f[k - 1] = S[(k - 1) - 1] /\ d[k] = c[k - 1]
      BY <3>1, <1>0, <1>3
    <3>3. S[k - 1] = S[(k - 1) - 1] + c[k - 1].size
      BY <3>1, <1>1
    <3> QED BY <3>2, <3>3
  <2> QED BY <2>0, <2>1, <2>2, <2>3, <2>4, <1>1
<1>6. \A k \in 0..Len(d) : Sums(d)[k] = f[k]
  BY <1>0, <1>4, <1>5, SumsUnique
<1>7. \A k \in 0..i - 1 : Sums(d)[k] = S[k]
  <2>1. \A k \in 0..i - 1 : k \in 0..Len(d)
    BY <1>0, <1>1
  <2> QED BY <2>1, <1>3, <1>6
<1>8. Sums(d)[i] = S[i - 1] + o
  <2>1. i \in 0..Len(d)
    BY <1>0, <1>1
  <2> QED BY <2>1, <1>3, <1>6
<1>9. \A k \in i + 1..Len(c) + 1 : Sums(d)[k] = S[k - 1]
  <2>1. \A k \in i + 1..Len(c) + 1 : k \in 0..Len(d)
    BY <1>0, <1>1
  <2> QED BY <2>1, <1>3, <1>6
<1>10. Total(d) = Total(c)
  <2>1. Len(d) \in i + 1..Len(c) + 1 /\ Len(d) - 1 = Len(c)
    BY <1>0, <1>1
  <2> QED BY <2>1, <1>9 DEF Total, S
<1> QED BY <1>7, <1>8, <1>9, <1>10 DEF d, S

(* Nor does it change the octets.                                          *)
LEMMA OctetsOfSliced ==
    ASSUME NEW m \in Memories, NEW c \in Seq(Views), Within(m, c),
           NEW i \in 1..Len(c), NEW o \in Nat, o <= c[i].size
    PROVE  Within(m, Sliced(c, i, o)) /\ Octets(m, Sliced(c, i, o)) = Octets(m, c)
<1> DEFINE d == Sliced(c, i, o)
           q == Octets(m, c)
<1>0. /\ d \in Seq(Views) /\ Len(d) = Len(c) + 1
      /\ \A k \in 1..i - 1 : d[k] = c[k]
      /\ d[i] = [shared |-> c[i].shared, offset |-> c[i].offset, size |-> o]
      /\ d[i + 1] = [shared |-> c[i].shared, offset |-> c[i].offset + o, size |-> c[i].size - o]
      /\ \A k \in i + 2..Len(c) + 1 : d[k] = c[k - 1]
  BY SlicedIs
<1>1. /\ \A k \in 0..i - 1 : Sums(d)[k] = Sums(c)[k]
      /\ Sums(d)[i] = Sums(c)[i - 1] + o
      /\ \A k \in i + 1..Len(c) + 1 : Sums(d)[k] = Sums(c)[k - 1]
      /\ Total(d) = Total(c)
  BY SumsOfSliced
<1>2. q \in Seq(Nat) /\ Len(q) = Total(c)
  BY OctetsRight DEF HasOctets
<1>3. /\ Len(c) \in Nat /\ \A k \in 0..Len(c) : Sums(c)[k] \in Nat
      /\ \A k \in 1..Len(c) : c[k] \in Views /\ c[k].size \in Nat /\ c[k].offset \in Nat
  BY SizesInNat, SumsFacts
<1> HIDE DEF d, q
<1>4. ASSUME NEW k \in 1..Len(d)
      PROVE  \E l \in 1..Len(c) : \E n \in Nat :
               /\ PartOf(d[k], c[l], n)
               /\ \A j \in 1..d[k].size : q[Sums(d)[k - 1] + j] = q[Sums(c)[l - 1] + (n + j)]
  <2>0. k \in 1..Len(c) + 1 /\ d[k] \in Views /\ d[k].size \in Nat
    BY <1>0, SizesInNat
  <2>1. CASE k < i
    <3>1. k \in 1..i - 1 /\ k - 1 \in 0..i - 1 /\ k \in 1..Len(c)
      BY <2>0, <2>1, <1>3
    <3>2. d[k] = c[k] /\ Sums(d)[k - 1] = Sums(c)[k - 1] /\ PartOf(d[k], c[k], 0)
      BY <3>1, <1>0, <1>1, <1>3, WholePart
    <3>3. \A j \in 1..d[k].size : 0 + j = j
      BY <2>0
    <3> QED BY <3>1, <3>2, <3>3
  <2>2. CASE k = i
    <3>1. k \in 1..Len(c) /\ k - 1 \in 0..i - 1
      BY <2>0, <2>2, <1>3
    <3>2. PartOf(d[k], c[k], 0)
      <4>1. d[k].shared = c[k].shared /\ d[k].offset = c[k].offset + 0 /\ 0 + d[k].size <= c[k].size
        BY <2>2, <1>0, <1>3, <3>1
      <4> QED BY <4>1, <2>0 DEF PartOf
    <3>3. Sums(d)[k - 1] = Sums(c)[k - 1] /\ \A j \in 1..d[k].size : 0 + j = j
      BY <3>1, <1>1, <2>0
    <3> QED BY <3>1, <3>2, <3>3
  <2>3. CASE k = i + 1
    <3>1. k - 1 = i
      BY <2>3
    <3>2. PartOf(d[k], c[i], o)
      <4>1. d[k].shared = c[i].shared /\ d[k].offset = c[i].offset + o /\ d[k].size = c[i].size - o
        BY <2>3, <1>0
      <4>2. o + d[k].size <= c[i].size
        BY <4>1, <1>3
      <4> QED BY <4>1, <4>2, <2>0 DEF PartOf
    <3>3. ASSUME NEW j \in 1..d[k].size PROVE Sums(d)[k - 1] + j = Sums(c)[i - 1] + (o + j)
      <4>1. i - 1 \in 0..Len(c) /\ j \in Nat
        BY <1>3, <2>0
      <4>2. PICK x \in Nat : x = Sums(c)[i - 1]
        BY <4>1, <1>3
      <4>3. Sums(d)[k - 1] = x + o
        BY <3>1, <4>2, <1>1
      <4> QED BY <4>1, <4>2, <4>3
    <3> QED BY <3>2, <3>3
  <2>4. CASE k > i + 1
    <3>1. k \in i + 2..Len(c) + 1 /\ k - 1 \in i + 1..Len(c) + 1 /\ k - 1 \in 1..Len(c)
      BY <2>0, <2>4, <1>3
    <3>2. PICK l \in 1..Len(c) : l = k - 1
      BY <3>1
    <3>3. d[k] = c[l] /\ Sums(d)[k - 1] = Sums(c)[l - 1] /\ PartOf(d[k], c[l], 0)
      BY <3>1, <3>2, <1>0, <1>1, <1>3, WholePart
    <3>4. \A j \in 1..d[k].size : 0 + j = j
      BY <2>0
    <3> QED BY <3>3, <3>4
  <2> QED BY <2>0, <2>1, <2>2, <2>3, <2>4, <1>3
<1>5. Derived(m, c, d, q)
  BY <1>0, <1>1, <1>2, <1>4 DEF Derived, q
<1> QED BY <1>5, DerivedOctets DEF d, q

(* The two halves of a chain cut at offset a.                              *)
LEMMA Halves ==
    ASSUME NEW c \in Seq(Views), NEW i \in 1..Len(c), NEW o \in Nat, o <= c[i].size
    PROVE  LET d == Sliced(c, i, o)
               A == SubSeq(d, 1, i)
               B == SubSeq(d, i + 1, Len(d))
           IN  /\ A \in Seq(Views) /\ Len(A) = i
               /\ \A k \in 0..i - 1 : Sums(A)[k] = Sums(c)[k]
               /\ Total(A) = Sums(c)[i - 1] + o
               /\ B \in Seq(Views) /\ Len(B) = Len(c) + 1 - i
               /\ Total(B) = Total(c) - (Sums(c)[i - 1] + o)
               /\ \A s : Looking(A, s) + Looking(B, s) = Looking(c, s) + Looking(<<c[i]>>, s)
<1> DEFINE d == Sliced(c, i, o)
           A == SubSeq(d, 1, i)
           B == SubSeq(d, i + 1, Len(d))
           C == SubSeq(c, 1, i)
           E == SubSeq(c, i + 1, Len(c))
           X == <<c[i]>>
<1>0. /\ d \in Seq(Views) /\ Len(d) = Len(c) + 1
      /\ \A k \in 1..i - 1 : d[k] = c[k]
      /\ d[i].shared = c[i].shared /\ d[i + 1].shared = c[i].shared
      /\ \A k \in i + 2..Len(c) + 1 : d[k] = c[k - 1]
  <2>1. /\ d \in Seq(Views) /\ Len(d) = Len(c) + 1
        /\ \A k \in 1..i - 1 : d[k] = c[k]
        /\ d[i] = [shared |-> c[i].shared, offset |-> c[i].offset, size |-> o]
        /\ d[i + 1] = [shared |-> c[i].shared, offset |-> c[i].offset + o, size |-> c[i].size - o]
        /\ \A k \in i + 2..Len(c) + 1 : d[k] = c[k - 1]
    BY SlicedIs
  <2> HIDE DEF d
  <2> QED BY <2>1
<1>1. /\ \A k \in 0..i - 1 : Sums(d)[k] = Sums(c)[k]
      /\ Sums(d)[i] = Sums(c)[i - 1] + o
      /\ Total(d) = Total(c)
  BY SumsOfSliced
<1>2. /\ Len(c) \in Nat /\ Sums(d)[0] = 0 /\ \A k \in 0..Len(d) : Sums(d)[k] \in Nat
      /\ c[i] \in Views
  BY <1>0, SizesInNat, SumsFacts
<1> HIDE DEF d
<1>3. /\ A \in Seq(Views) /\ Len(A) = i
      /\ \A k \in 1..i : A[k] = d[k]
      /\ \A k \in 0..i : Sums(A)[k] = Sums(d)[k]
      /\ Total(A) = Sums(d)[i]
  <2>1. 1 \in 1..Len(d) + 1 /\ i \in 1 - 1..Len(d) /\ i - 1 + 1 = i /\ 1 - 1 = 0
    BY <1>0, <1>2
  <2>2. /\ A \in Seq(Views) /\ Len(A) = i
        /\ \A k \in 1..i : A[k] = d[1 + k - 1]
        /\ \A k \in 0..i : Sums(A)[k] = Sums(d)[1 + k - 1] - Sums(d)[1 - 1]
        /\ Total(A) = Sums(d)[i] - Sums(d)[1 - 1]
    BY <2>1, <1>0, SumsOfSubSeq
  <2>3. \A k \in 0..i : k \in 0..Len(d) /\ 1 + k - 1 = k
    BY <1>0, <1>2
  <2>4. \A k \in 1..i : 1 + k - 1 = k
    BY <1>2
  <2>5. \A k \in 0..i : Sums(A)[k] = Sums(d)[k]
    BY <2>1, <2>2, <2>3, <1>2
  <2>6. i \in 0..i
    BY <1>2
  <2>7. Total(A) = Sums(d)[i]
    BY <2>2, <2>5, <2>6 DEF Total
  <2> QED BY <2>2, <2>4, <2>5, <2>7
<1>4. /\ B \in Seq(Views) /\ Len(B) = Len(c) + 1 - i
      /\ \A k \in 1..Len(c) + 1 - i : B[k] = d[i + k]
      /\ Total(B) = Total(c) - Sums(d)[i]
  <2>1. /\ i + 1 \in 1..Len(d) + 1 /\ Len(d) \in (i + 1) - 1..Len(d)
        /\ Len(d) - (i + 1) + 1 = Len(c) + 1 - i
        /\ (i + 1) - 1 = i
    BY <1>0, <1>2
  <2>2. /\ B \in Seq(Views) /\ Len(B) = Len(d) - (i + 1) + 1
        /\ \A k \in 1..Len(d) - (i + 1) + 1 : B[k] = d[i + 1 + k - 1]
        /\ Total(B) = Sums(d)[Len(d)] - Sums(d)[(i + 1) - 1]
    BY <2>1, <1>0, SumsOfSubSeq
  <2>3. \A k \in 1..Len(c) + 1 - i : i + 1 + k - 1 = i + k
    BY <1>2
  <2> QED BY <2>1, <2>2, <2>3, <1>1 DEF Total
<1>5. /\ C \in Seq(Views) /\ Len(C) = i /\ \A k \in 1..i : C[k] = c[k]
      /\ E \in Seq(Views) /\ Len(E) = Len(c) - i /\ \A k \in 1..Len(c) - i : E[k] = c[i + k]
  <2>1. /\ 1 \in 1..Len(c) + 1 /\ i \in 1 - 1..Len(c) /\ i - 1 + 1 = i
        /\ i + 1 \in 1..Len(c) + 1 /\ Len(c) \in (i + 1) - 1..Len(c)
        /\ Len(c) - (i + 1) + 1 = Len(c) - i
    BY <1>2
  <2>2. C \in Seq(Views) /\ Len(C) = i /\ \A k \in 1..i : C[k] = c[1 + k - 1]
    BY <2>1, SumsOfSubSeq
  <2>3. /\ E \in Seq(Views) /\ Len(E) = Len(c) - (i + 1) + 1
        /\ \A k \in 1..Len(c) - (i + 1) + 1 : E[k] = c[i + 1 + k - 1]
    BY <2>1, SumsOfSubSeq
  <2>4. \A k \in 1..i : 1 + k - 1 = k
    BY <1>2
  <2>5. \A k \in 1..Len(c) - i : i + 1 + k - 1 = i + k
    BY <1>2
  <2> QED BY <2>1, <2>2, <2>3, <2>4, <2>5
<1>6. X \in Seq(Views) /\ Len(X) = 1 /\ X[1] = c[i]
  BY <1>2
<1> HIDE DEF A, B, C, E, X
<1>7. \A s : Looking(A, s) = Looking(C, s)
  <2>1. \A k \in 1..Len(A) : A[k].shared = C[k].shared
    <3> TAKE k \in 1..Len(A)
    <3>1. k \in 1..i /\ (k = i \/ k \in 1..i - 1)
      BY <1>2, <1>3
    <3> QED BY <3>1, <1>0, <1>3, <1>5
  <2> QED BY <2>1, <1>3, <1>5, LookingSame, ZenonT(60)
<1>8. \A s : Looking(B, s) = Looking(X \o E, s)
  <2>1. /\ X \o E \in Seq(Views) /\ Len(X \o E) = Len(X) + Len(E)
        /\ \A k \in 1..Len(X) + Len(E) : (X \o E)[k] = IF k <= Len(X) THEN X[k] ELSE E[k - Len(X)]
    BY <1>5, <1>6, ConcatProperties, ZenonT(60)
  <2>2. Len(X) + Len(E) = Len(c) + 1 - i
    BY <1>2, <1>5, <1>6
  <2>3. \A k \in 1..Len(B) : B[k].shared = (X \o E)[k].shared
    <3> TAKE k \in 1..Len(B)
    <3>1. k \in 1..Len(c) + 1 - i
      BY <1>4
    <3>2. CASE k = 1
      <4>1. k <= Len(X) /\ i + k = i + 1
        BY <3>2, <1>6
      <4>2. (X \o E)[k] = c[i]
        BY <4>1, <3>1, <3>2, <2>1, <2>2, <1>6
      <4>3. B[k] = d[i + 1]
        BY <4>1, <3>1, <1>4
      <4> QED BY <4>2, <4>3, <1>0
    <3>3. CASE k # 1
      <4>1. ~(k <= Len(X)) /\ k - Len(X) \in 1..Len(c) - i /\ i + (k - Len(X)) = (i + k) - 1
            /\ i + k \in i + 2..Len(c) + 1
        BY <3>1, <3>3, <1>2, <1>6
      <4>2. (X \o E)[k] = c[(i + k) - 1]
        BY <4>1, <3>1, <2>1, <2>2, <1>5
      <4>3. B[k] = c[(i + k) - 1]
        BY <4>1, <3>1, <1>0, <1>4
      <4> QED BY <4>2, <4>3
    <3> QED BY <3>2, <3>3
  <2>4. Len(B) = Len(X \o E)
    BY <2>1, <2>2, <1>4
  <2> QED BY <2>1, <2>3, <2>4, <1>4, LookingSame
<1>9. ASSUME NEW s PROVE Looking(A, s) + Looking(B, s) = Looking(c, s) + Looking(X, s)
  <2>1. Looking(X \o E, s) = Looking(X, s) + Looking(E, s)
    BY <1>5, <1>6, LookingConcat
  <2>2. Looking(c, s) = Looking(C, s) + Looking(E, s)
    <3>1. i \in 0..Len(c)
      BY <1>2
    <3> QED BY <3>1, LookingSplit DEF C, E
  <2>3. Looking(C, s) \in Nat /\ Looking(E, s) \in Nat /\ Looking(X, s) \in Nat
    BY <1>5, <1>6, LookersFinite
  <2> QED BY <2>1, <2>2, <2>3, <1>7, <1>8
<1>10. \A k \in 0..i - 1 : Sums(A)[k] = Sums(c)[k]
  <2>1. \A k \in 0..i - 1 : k \in 0..i
    BY <1>2
  <2> QED BY <2>1, <1>1, <1>3
<1>11. Total(A) = Sums(c)[i - 1] + o /\ Total(B) = Total(c) - (Sums(c)[i - 1] + o)
  BY <1>1, <1>3, <1>4
<1> QED BY <1>3, <1>4, <1>9, <1>10, <1>11 DEF A, B, X, d

(* The octets of the two halves.                                           *)
LEMMA OctetsOfHalves ==
    ASSUME NEW m \in Memories, NEW c \in Seq(Views), Within(m, c),
           NEW i \in 1..Len(c), NEW o \in Nat, o <= c[i].size
    PROVE  LET d == Sliced(c, i, o)
               A == SubSeq(d, 1, i)
               B == SubSeq(d, i + 1, Len(d))
               a == Sums(c)[i - 1] + o
           IN  /\ Within(m, A) /\ Octets(m, A) = SubSeq(Octets(m, c), 1, a)
               /\ Within(m, B) /\ Octets(m, B) = SubSeq(Octets(m, c), a + 1, Total(c))
<1> DEFINE d == Sliced(c, i, o)
<1>0. d \in Seq(Views) /\ Len(d) = Len(c) + 1
  BY SlicedIs
<1>1. /\ Sums(d)[i] = Sums(c)[i - 1] + o
      /\ Total(d) = Total(c)
  BY SumsOfSliced
<1>2. Within(m, d) /\ Octets(m, d) = Octets(m, c)
  BY OctetsOfSliced
<1> HIDE DEF d
<1>3. Len(c) \in Nat /\ Sums(d)[0] = 0
  BY <1>0, SizesInNat, SumsFacts
<1>4. Within(m, SubSeq(d, 1, i)) /\ Octets(m, SubSeq(d, 1, i)) = SubSeq(Octets(m, c), 1, Sums(c)[i - 1] + o)
  <2>1. 1 \in 1..Len(d) + 1 /\ i \in 1 - 1..Len(d) /\ 1 - 1 = 0
    BY <1>0, <1>3
  <2>2. /\ Within(m, SubSeq(d, 1, i))
        /\ Octets(m, SubSeq(d, 1, i)) = SubSeq(Octets(m, d), Sums(d)[1 - 1] + 1, Sums(d)[i])
    BY <2>1, <1>0, <1>2, OctetsOfSubSeq
  <2>3. Sums(d)[1 - 1] + 1 = 1
    BY <1>3
  <2> QED BY <2>2, <2>3, <1>1, <1>2
<1>5. /\ Within(m, SubSeq(d, i + 1, Len(d)))
      /\ Octets(m, SubSeq(d, i + 1, Len(d))) = SubSeq(Octets(m, c), Sums(c)[i - 1] + o + 1, Total(c))
  <2>1. i + 1 \in 1..Len(d) + 1 /\ Len(d) \in (i + 1) - 1..Len(d) /\ (i + 1) - 1 = i
    BY <1>0, <1>3
  <2>2. /\ Within(m, SubSeq(d, i + 1, Len(d)))
        /\ Octets(m, SubSeq(d, i + 1, Len(d)))
             = SubSeq(Octets(m, d), Sums(d)[(i + 1) - 1] + 1, Sums(d)[Len(d)])
    BY <2>1, <1>0, <1>2, OctetsOfSubSeq
  <2> QED BY <2>1, <2>2, <1>1, <1>2 DEF Total
<1> QED BY <1>4, <1>5 DEF d

(* Max and Min of two naturals.                                            *)
LEMMA MaxOfTwo ==
    ASSUME NEW x \in Int, NEW y \in Int
    PROVE  Max({x, y}) = IF x >= y THEN x ELSE y
<1>1. \E z \in {x, y} : \A w \in {x, y} : z >= w
  OBVIOUS
<1>2. Max({x, y}) \in {x, y} /\ \A w \in {x, y} : Max({x, y}) >= w
  BY <1>1 DEF Max
<1> QED BY <1>2

LEMMA MinOfTwo ==
    ASSUME NEW x \in Int, NEW y \in Int
    PROVE  Min({x, y}) = IF x <= y THEN x ELSE y
<1>1. \E z \in {x, y} : \A w \in {x, y} : z <= w
  OBVIOUS
<1>2. Min({x, y}) \in {x, y} /\ \A w \in {x, y} : Min({x, y}) <= w
  BY <1>1 DEF Min
<1> QED BY <1>2

(* A segment made shorter shows less of its buffer.                        *)
LEMMA Resized ==
    ASSUME NEW t \in Views, NEW n \in Nat, NEW o \in Nat
    PROVE  /\ [t EXCEPT !.size = n] = [shared |-> t.shared, offset |-> t.offset, size |-> n]
           /\ [t EXCEPT !.size = n] \in Views
           /\ [t EXCEPT !.offset = o, !.size = n] = [shared |-> t.shared, offset |-> o, size |-> n]
           /\ [t EXCEPT !.offset = o, !.size = n] \in Views
<1>1. [t EXCEPT !.size = n] \in Views /\ [t EXCEPT !.size = n].shared = t.shared
      /\ [t EXCEPT !.size = n].offset = t.offset /\ [t EXCEPT !.size = n].size = n
  BY DEF Views
<1>2. [t EXCEPT !.size = n] = [shared |-> t.shared, offset |-> t.offset, size |-> n]
  BY <1>1 DEF Views
<1> DEFINE u == [t EXCEPT !.offset = o, !.size = n]
<1>3. u \in Views /\ u.shared = t.shared /\ u.offset = o /\ u.size = n
  BY DEF Views
<1> HIDE DEF u
<1>4. u = [shared |-> t.shared, offset |-> o, size |-> n]
  BY <1>3 DEF Views
<1> QED BY <1>1, <1>2, <1>3, <1>4 DEF u

-----------------------------------------------------------------------------
(* A chain up to segment i, of which n octets are kept.                    *)
Trimmed(c, i, n) == [SubSeq(c, 1, i) EXCEPT ![i].size = n]

(* Its octets are the first ones of the chain.                             *)
LEMMA TrimmedRight ==
    ASSUME NEW m \in Memories, NEW c \in Seq(Views), Within(m, c),
           NEW i \in 1..Len(c), NEW n \in Nat, n <= c[i].size
    PROVE  LET d == Trimmed(c, i, n)
           IN  /\ d \in Seq(Views) /\ Len(d) = i /\ Total(d) = Sums(c)[i - 1] + n
               /\ Within(m, d) /\ Octets(m, d) = SubSeq(Octets(m, c), 1, Sums(c)[i - 1] + n)
               /\ \A s : Looking(c, s) = Looking(d, s) + Looking(SubSeq(c, i + 1, Len(c)), s)
<1> DEFINE A == SubSeq(Sliced(c, i, n), 1, i)
           C == SubSeq(c, 1, i)
           d == Trimmed(c, i, n)
<1>0. Len(c) \in Nat /\ c[i] \in Views
  BY SizesInNat
<1>1. C \in Seq(Views) /\ Len(C) = i /\ \A k \in 1..i : C[k] = c[k]
  <2>1. 1 \in 1..Len(c) + 1 /\ i \in 1 - 1..Len(c) /\ i - 1 + 1 = i /\ \A k \in 1..i : 1 + k - 1 = k
    BY <1>0
  <2>2. C \in Seq(Views) /\ Len(C) = i /\ \A k \in 1..i : C[k] = c[1 + k - 1]
    BY <2>1, SumsOfSubSeq
  <2> QED BY <2>1, <2>2
<1>2. /\ A \in Seq(Views) /\ Len(A) = i /\ Total(A) = Sums(c)[i - 1] + n
      /\ Within(m, A) /\ Octets(m, A) = SubSeq(Octets(m, c), 1, Sums(c)[i - 1] + n)
  BY Halves, OctetsOfHalves
<1>3. \A k \in 1..i : A[k] = IF k = i THEN [shared |-> c[i].shared, offset |-> c[i].offset, size |-> n]
                             ELSE c[k]
  <2> DEFINE e == Sliced(c, i, n)
  <2>1. /\ e \in Seq(Views) /\ Len(e) = Len(c) + 1
        /\ \A k \in 1..i - 1 : e[k] = c[k]
        /\ e[i] = [shared |-> c[i].shared, offset |-> c[i].offset, size |-> n]
    BY SlicedIs, ZenonT(60)
  <2> HIDE DEF e
  <2>2. 1 \in 1..Len(e) + 1 /\ i \in 1 - 1..Len(e) /\ i - 1 + 1 = i /\ \A k \in 1..i : 1 + k - 1 = k
    BY <1>0, <2>1
  <2>3. \A k \in 1..i : SubSeq(e, 1, i)[k] = e[1 + k - 1]
    BY <2>1, <2>2, SumsOfSubSeq
  <2>4. \A k \in 1..i : k = i \/ k \in 1..i - 1
    BY <1>0
  <2> QED BY <2>1, <2>2, <2>3, <2>4 DEF e
<1> HIDE DEF A, C
<1>4. d = [C EXCEPT ![i] = [c[i] EXCEPT !.size = n]]
  <2>1. i \in 1..i
    BY <1>0
  <2>2. C[i] = c[i]
    BY <2>1, <1>1
  <2> QED BY <2>2 DEF Trimmed, C
<1>5. /\ [c[i] EXCEPT !.size = n] = [shared |-> c[i].shared, offset |-> c[i].offset, size |-> n]
      /\ [c[i] EXCEPT !.size = n] \in Views
  BY <1>0, Resized
<1>6. /\ d \in Seq(Views) /\ Len(d) = i
      /\ \A k \in 1..i : d[k] = IF k = i THEN [c[i] EXCEPT !.size = n] ELSE c[k]
  <2>1. i \in 1..Len(C)
    BY <1>0, <1>1
  <2> HIDE DEF d
  <2> QED BY <2>1, <1>1, <1>4, <1>5, ExceptSeq
<1>7. d = A
  <2> HIDE DEF d
  <2> QED BY <1>2, <1>3, <1>5, <1>6, SeqEqual
<1>8. \A s : Looking(d, s) = Looking(C, s)
  <2>1. \A k \in 1..Len(d) : d[k].shared = C[k].shared
    BY <1>1, <1>5, <1>6, SMTT(60)
  <2> HIDE DEF d
  <2> QED BY <2>1, <1>1, <1>6, LookingSame
<1>9. \A s : Looking(c, s) = Looking(C, s) + Looking(SubSeq(c, i + 1, Len(c)), s)
  <2>1. i \in 0..Len(c)
    BY <1>0
  <2> QED BY <2>1, LookingSplit DEF C
<1> QED BY <1>2, <1>6, <1>7, <1>8, <1>9

-----------------------------------------------------------------------------
(* A sequence without n of its elements, after the first a.                *)
Without(q, a, n) == SubSeq(q, 1, a) \o SubSeq(q, a + n + 1, Len(q))

(* Element by element.                                                     *)
LEMMA WithoutIs ==
    ASSUME NEW q \in Seq(Nat), NEW a \in Nat, NEW n \in Nat, a + n <= Len(q)
    PROVE  /\ Without(q, a, n) \in Seq(Nat) /\ Len(Without(q, a, n)) = Len(q) - n
           /\ \A p \in 1..a : Without(q, a, n)[p] = q[p]
           /\ \A p \in a + 1..Len(q) - n : Without(q, a, n)[p] = q[p + n]
<1> DEFINE A == SubSeq(q, 1, a)
           b == a + n + 1
           B == SubSeq(q, b, Len(q))
<1>0. Len(q) \in Nat /\ b \in Nat /\ 1 \in Int
  BY LenProperties
<1>1. /\ A \in Seq(Nat) /\ Len(A) = a
      /\ \A p \in 1..a : A[p] = q[p]
  <2>1. \A p \in 1..a : q[p] \in Nat
    <3>1. \A p \in 1..a : p \in 1..Len(q)
      BY <1>0
    <3> QED BY <3>1, ElementOfSeq
  <2>2. /\ A \in Seq(Nat) /\ Len(A) = IF 1 <= a THEN a - 1 + 1 ELSE 0
        /\ \A p \in 1..a - 1 + 1 : A[p] = q[1 + p - 1]
    BY <2>1, <1>0, SubSeqProperties
  <2>3. a - 1 + 1 = a /\ \A p \in 1..a : 1 + p - 1 = p
    OBVIOUS
  <2> QED BY <2>2, <2>3
<1>2. /\ B \in Seq(Nat) /\ Len(B) = Len(q) - n - a
      /\ \A p \in 1..Len(q) - n - a : B[p] = q[a + n + p]
  <2> HIDE DEF b
  <2>1. \A p \in b..Len(q) : q[p] \in Nat
    <3>1. \A p \in b..Len(q) : p \in 1..Len(q)
      BY <1>0 DEF b
    <3> QED BY <3>1, ElementOfSeq
  <2>2. PICK z \in Int : z = Len(q)
    BY <1>0
  <2>3. /\ SubSeq(q, b, z) \in Seq(Nat) /\ Len(SubSeq(q, b, z)) = IF b <= z THEN z - b + 1 ELSE 0
        /\ \A p \in 1..z - b + 1 : SubSeq(q, b, z)[p] = q[b + p - 1]
    BY <2>1, <2>2, <1>0, SubSeqProperties, SMTT(60)
  <2>4. (IF b <= z THEN z - b + 1 ELSE 0) = z - n - a /\ z - b + 1 = z - n - a
        /\ \A p \in 1..z - n - a : b + p - 1 = a + n + p
    BY <2>2 DEF b
  <2>5. B = SubSeq(q, b, z)
    BY <2>2
  <2> HIDE DEF B
  <2> QED BY <2>2, <2>3, <2>4, <2>5
<1>3. Without(q, a, n) = A \o B
  BY DEF Without
<1> HIDE DEF A, B, b
<1>4. /\ A \o B \in Seq(Nat) /\ Len(A \o B) = Len(A) + Len(B)
      /\ \A p \in 1..Len(A) + Len(B) : (A \o B)[p] = IF p <= Len(A) THEN A[p] ELSE B[p - Len(A)]
  <2>1. A \in Seq(Nat) /\ B \in Seq(Nat)
    BY <1>1, <1>2
  <2> QED BY <2>1, ConcatProperties
<1>5. Len(A) + Len(B) = Len(q) - n
  BY <1>0, <1>1, <1>2
<1>6. ASSUME NEW p \in 1..a PROVE (A \o B)[p] = q[p]
  <2>1. p \in 1..Len(q) - n /\ p <= a
    BY <1>0
  <2> QED BY <2>1, <1>1, <1>4, <1>5
<1>7. ASSUME NEW p \in a + 1..Len(q) - n PROVE (A \o B)[p] = q[p + n]
  <2>1. /\ p \in 1..Len(q) - n /\ ~(p <= a) /\ p - a \in 1..Len(q) - n - a
        /\ a + n + (p - a) = p + n
    BY <1>0
  <2>2. (A \o B)[p] = B[p - a]
    BY <2>1, <1>1, <1>4, <1>5
  <2> QED BY <2>1, <2>2, <1>2
<1> QED BY <1>3, <1>4, <1>5, <1>6, <1>7

(* Octets deleted within one segment, which is cut in two around them.     *)
LEMMA HollowedRight ==
    ASSUME NEW m \in Memories, NEW c \in Seq(Views), Within(m, c),
           NEW i \in 1..Len(c), NEW o \in Nat, NEW n \in Nat, o + n <= c[i].size
    PROVE  LET d == Hollowed(c, i, o, n)
           IN  /\ d \in Seq(Views) /\ Len(d) = Len(c) + 1 /\ Total(d) = Total(c) - n
               /\ \A k \in 0..i - 1 : Sums(d)[k] = Sums(c)[k]
               /\ Within(m, d) /\ Octets(m, d) = Without(Octets(m, c), Sums(c)[i - 1] + o, n)
               /\ \A s : Looking(d, s) = Looking(c, s) + Looking(<<c[i]>>, s)
<1> DEFINE e == Sliced(c, i, o + n)
           g == Sliced(c, i, o)
           A == SubSeq(g, 1, i)
           B == SubSeq(e, i + 1, Len(e))
           D == SubSeq(g, i + 1, Len(g))
           d == Hollowed(c, i, o, n)
           a == Sums(c)[i - 1] + o
<1>0. /\ Len(c) \in Nat /\ c[i] \in Views /\ c[i].size \in Nat /\ o + n \in Nat /\ o <= c[i].size
      /\ Sums(c)[i - 1] \in Nat /\ Total(c) \in Nat
  <2>1. Len(c) \in Nat /\ c[i] \in Views /\ c[i].size \in Nat
    BY SizesInNat
  <2>2. i - 1 \in 0..Len(c) /\ Len(c) \in 0..Len(c)
    BY <2>1
  <2> QED BY <2>1, <2>2, SumsFacts DEF Total
<1>1. /\ e \in Seq(Views) /\ Len(e) = Len(c) + 1
      /\ \A k \in 1..i - 1 : e[k] = c[k]
      /\ e[i] = [shared |-> c[i].shared, offset |-> c[i].offset, size |-> o + n]
      /\ e[i + 1].shared = c[i].shared
      /\ \A k \in i + 2..Len(c) + 1 : e[k] = c[k - 1]
  <2>1. /\ e \in Seq(Views) /\ Len(e) = Len(c) + 1
        /\ \A k \in 1..i - 1 : e[k] = c[k]
        /\ e[i] = [shared |-> c[i].shared, offset |-> c[i].offset, size |-> o + n]
        /\ e[i + 1] = [shared |-> c[i].shared, offset |-> c[i].offset + (o + n), size |-> c[i].size - (o + n)]
        /\ \A k \in i + 2..Len(c) + 1 : e[k] = c[k - 1]
    BY <1>0, SlicedIs
  <2> HIDE DEF e
  <2> QED BY <2>1
<1>2. /\ g \in Seq(Views) /\ Len(g) = Len(c) + 1
      /\ \A k \in 1..i - 1 : g[k] = c[k]
      /\ g[i] = [shared |-> c[i].shared, offset |-> c[i].offset, size |-> o]
      /\ g[i + 1].shared = c[i].shared
      /\ \A k \in i + 2..Len(c) + 1 : g[k] = c[k - 1]
  <2>1. /\ g \in Seq(Views) /\ Len(g) = Len(c) + 1
        /\ \A k \in 1..i - 1 : g[k] = c[k]
        /\ g[i] = [shared |-> c[i].shared, offset |-> c[i].offset, size |-> o]
        /\ g[i + 1] = [shared |-> c[i].shared, offset |-> c[i].offset + o, size |-> c[i].size - o]
        /\ \A k \in i + 2..Len(c) + 1 : g[k] = c[k - 1]
    <3> HIDE DEF e, A, B, D, d, a
    <3>1. o <= c[i].size
      BY <1>0
    <3> QED BY <3>1, SlicedIs, SMTT(60)
  <2> HIDE DEF g
  <2> QED BY <2>1, SMTT(60)
<1>3. /\ A \in Seq(Views) /\ Len(A) = i
      /\ \A k \in 0..i - 1 : Sums(A)[k] = Sums(c)[k]
      /\ Total(A) = a
      /\ D \in Seq(Views)
      /\ \A s : Looking(A, s) + Looking(D, s) = Looking(c, s) + Looking(<<c[i]>>, s)
      /\ Within(m, A) /\ Octets(m, A) = SubSeq(Octets(m, c), 1, a)
  <2> HIDE DEF e, B, d
  <2>1. o <= c[i].size
    BY <1>0
  <2>2. /\ A \in Seq(Views) /\ Len(A) = i
        /\ \A k \in 0..i - 1 : Sums(A)[k] = Sums(c)[k]
        /\ Total(A) = a
        /\ D \in Seq(Views)
        /\ \A s : Looking(A, s) + Looking(D, s) = Looking(c, s) + Looking(<<c[i]>>, s)
    BY <2>1, Halves
  <2>3. Within(m, A) /\ Octets(m, A) = SubSeq(Octets(m, c), 1, a)
    BY <2>1, OctetsOfHalves
  <2> QED BY <2>2, <2>3
<1>4. /\ B \in Seq(Views) /\ Len(B) = Len(c) + 1 - i
      /\ Total(B) = Total(c) - (Sums(c)[i - 1] + (o + n))
      /\ Within(m, B) /\ Octets(m, B) = SubSeq(Octets(m, c), Sums(c)[i - 1] + (o + n) + 1, Total(c))
  <2> HIDE DEF g, A, D, d
  <2>0. PICK x \in Nat : x = o + n
    BY <1>0
  <2>1. x <= c[i].size
    BY <2>0
  <2> DEFINE f == Sliced(c, i, x)
             F == SubSeq(f, i + 1, Len(f))
  <2>2. /\ F \in Seq(Views) /\ Len(F) = Len(c) + 1 - i
        /\ Total(F) = Total(c) - (Sums(c)[i - 1] + x)
    BY <2>1, Halves
  <2>3. Within(m, F) /\ Octets(m, F) = SubSeq(Octets(m, c), Sums(c)[i - 1] + x + 1, Total(c))
    BY <2>1, OctetsOfHalves
  <2>4. F = B
    BY <2>0
  <2> HIDE DEF F, f, B
  <2> QED BY <2>0, <2>2, <2>3, <2>4
<1>5. d = [e EXCEPT ![i].size = o]
  BY DEF Hollowed
<1> HIDE DEF e, g, d
<1>6. /\ \A k \in 1..i : A[k] = g[k]
      /\ \A k \in 1..Len(c) + 1 - i : B[k] = e[i + k] /\ D[k] = g[i + k]
      /\ Len(D) = Len(c) + 1 - i
  <2>1. /\ 1 \in 1..Len(g) + 1 /\ i \in 1 - 1..Len(g) /\ i - 1 + 1 = i /\ \A k \in 1..i : 1 + k - 1 = k
        /\ i + 1 \in 1..Len(g) + 1 /\ Len(g) \in (i + 1) - 1..Len(g)
        /\ Len(g) - (i + 1) + 1 = Len(c) + 1 - i
        /\ \A k \in 1..Len(c) + 1 - i : i + 1 + k - 1 = i + k
        /\ Len(e) = Len(g)
    BY <1>0, <1>1, <1>2
  <2>2. \A k \in 1..i - 1 + 1 : A[k] = g[1 + k - 1]
    BY <2>1, <1>2, SumsOfSubSeq
  <2>3. /\ \A k \in 1..Len(g) - (i + 1) + 1 : D[k] = g[i + 1 + k - 1]
        /\ Len(D) = Len(g) - (i + 1) + 1
    BY <2>1, <1>2, SumsOfSubSeq
  <2>4. i + 1 \in 1..Len(e) + 1 /\ Len(e) \in (i + 1) - 1..Len(e)
    BY <2>1
  <2>5. \A k \in 1..Len(e) - (i + 1) + 1 : B[k] = e[i + 1 + k - 1]
    BY <2>4, <1>1, SumsOfSubSeq
  <2> HIDE DEF A, B, D
  <2> QED BY <2>1, <2>2, <2>3, <2>5
<1> HIDE DEF A, B, D
<1>7. /\ [e[i] EXCEPT !.size = o] = g[i] /\ [e[i] EXCEPT !.size = o] \in Views
  <2>1. e[i] \in Views /\ i \in 1..Len(e)
    <3>1. i \in 1..Len(e)
      BY <1>0, <1>1
    <3> QED BY <3>1, <1>1, SizesInNat
  <2>2. /\ [e[i] EXCEPT !.size = o] = [shared |-> e[i].shared, offset |-> e[i].offset, size |-> o]
        /\ [e[i] EXCEPT !.size = o] \in Views
    BY <2>1, Resized
  <2> QED BY <2>2, <1>1, <1>2
<1>8. /\ d \in Seq(Views) /\ Len(d) = Len(c) + 1
      /\ \A k \in 1..Len(c) + 1 : d[k] = IF k = i THEN g[i] ELSE e[k]
  <2>1. i \in 1..Len(e)
    BY <1>0, <1>1
  <2>2. d = [e EXCEPT ![i] = [e[i] EXCEPT !.size = o]]
    BY <1>5
  <2>3. PICK x \in Views : x = [e[i] EXCEPT !.size = o]
    BY <1>7
  <2>4. /\ [e EXCEPT ![i] = x] \in Seq(Views) /\ Len([e EXCEPT ![i] = x]) = Len(e)
        /\ \A k \in 1..Len(e) : [e EXCEPT ![i] = x][k] = IF k = i THEN x ELSE e[k]
    BY <2>1, <1>1, ExceptSeq
  <2> QED BY <2>2, <2>3, <2>4, <1>1, <1>7
<1>9. /\ A \o B \in Seq(Views) /\ Len(A \o B) = Len(c) + 1
      /\ \A k \in 1..Len(c) + 1 : (A \o B)[k] = IF k <= i THEN A[k] ELSE B[k - i]
  <2>1. A \in Seq(Views) /\ B \in Seq(Views)
    BY <1>3, <1>4
  <2>2. /\ A \o B \in Seq(Views) /\ Len(A \o B) = Len(A) + Len(B)
        /\ \A k \in 1..Len(A) + Len(B) : (A \o B)[k] = IF k <= Len(A) THEN A[k] ELSE B[k - Len(A)]
    BY <2>1, ConcatProperties
  <2>3. Len(A) + Len(B) = Len(c) + 1 /\ Len(A) = i
    <3>1. Len(A) = i /\ Len(B) = Len(c) + 1 - i
      BY <1>3, <1>4
    <3> QED BY <3>1, <1>0
  <2> QED BY <2>2, <2>3
<1>10. d = A \o B
  <2>1. ASSUME NEW k \in 1..Len(d) PROVE d[k] = (A \o B)[k]
    <3>0. k \in 1..Len(c) + 1
      BY <1>8
    <3>1. CASE k < i
      <4>1. k \in 1..i /\ k \in 1..i - 1 /\ k <= i /\ k # i
        BY <3>0, <3>1, <1>0
      <4>2. d[k] = c[k]
        BY <4>1, <3>0, <1>1, <1>8
      <4>3. (A \o B)[k] = c[k]
        BY <4>1, <3>0, <1>2, <1>6, <1>9
      <4> QED BY <4>2, <4>3
    <3>2. CASE k = i
      <4>1. k \in 1..i /\ k <= i
        BY <3>0, <3>2, <1>0
      <4> QED BY <4>1, <3>0, <3>2, <1>6, <1>8, <1>9
    <3>3. CASE k > i
      <4>1. ~(k <= i) /\ k # i /\ k - i \in 1..Len(c) + 1 - i /\ i + (k - i) = k
        BY <3>0, <3>3, <1>0
      <4>2. (A \o B)[k] = e[k]
        BY <4>1, <3>0, <1>6, <1>9
      <4> QED BY <4>1, <4>2, <3>0, <1>8
    <3>4. k < i \/ k = i \/ k > i
      BY <3>0, <1>0
    <3> QED BY <3>1, <3>2, <3>3, <3>4
  <2> QED BY <2>1, <1>8, <1>9, SeqEqual
<1>11. /\ \A k \in 0..i : Sums(d)[k] = Sums(A)[k]
       /\ Total(d) = Total(A) + Total(B)
  <2>1. A \in Seq(Views) /\ B \in Seq(Views)
    BY <1>3, <1>4
  <2>2. /\ \A k \in 0..Len(A) : Sums(A \o B)[k] = Sums(A)[k]
        /\ Total(A \o B) = Total(A) + Total(B)
    BY <2>1, SumsOfConcat
  <2> QED BY <2>2, <1>3, <1>10
<1>12. Total(d) = Total(c) - n /\ \A k \in 0..i - 1 : Sums(d)[k] = Sums(c)[k]
  <2>1. \A k \in 0..i - 1 : k \in 0..i
    BY <1>0
  <2>2. Total(d) = Total(c) - n
    <3>1. PICK x \in Nat, y \in Nat : x = Sums(c)[i - 1] /\ y = Total(c)
      BY <1>0
    <3>2. Total(A) = x + o /\ Total(B) = y - (x + (o + n)) /\ Total(d) = Total(A) + Total(B)
      BY <3>1, <1>3, <1>4, <1>11
    <3>3. Total(d) = y - n
      BY <3>2
    <3> QED BY <3>1, <3>3
  <2> QED BY <2>1, <2>2, <1>3, <1>11
<1>13. Within(m, d) /\ Octets(m, d) = Without(Octets(m, c), a, n)
  <2>1. A \in Seq(Views) /\ B \in Seq(Views) /\ Within(m, A) /\ Within(m, B)
    BY <1>3, <1>4
  <2>2. Within(m, A \o B) /\ Octets(m, A \o B) = Octets(m, A) \o Octets(m, B)
    BY <2>1, OctetsOfConcat
  <2>3. Sums(c)[i - 1] + (o + n) + 1 = a + n + 1 /\ Len(Octets(m, c)) = Total(c)
    <3>1. Len(Octets(m, c)) = Total(c)
      BY OctetsRight DEF HasOctets
    <3> QED BY <3>1, <1>0
  <2> QED BY <2>2, <2>3, <1>3, <1>4, <1>10 DEF Without
<1>14. ASSUME NEW s PROVE Looking(d, s) = Looking(c, s) + Looking(<<c[i]>>, s)
  <2>1. \A k \in 1..Len(B) : B[k].shared = D[k].shared
    <3> TAKE k \in 1..Len(B)
    <3>1. k \in 1..Len(c) + 1 - i /\ i + k \in i + 1..Len(c) + 1
      <4>1. Len(B) = Len(c) + 1 - i
        BY <1>4
      <4>2. PICK l \in Nat : l = Len(c)
        BY <1>0
      <4>3. k \in 1..l + 1 - i
        BY <4>1, <4>2
      <4>4. i + k \in i + 1..l + 1
        BY <4>3
      <4> QED BY <4>2, <4>3, <4>4
    <3>2. CASE k = 1
      BY <3>1, <3>2, <1>1, <1>2, <1>6
    <3>3. CASE k # 1
      <4>1. i + k \in i + 2..Len(c) + 1
        BY <3>1, <3>3
      <4> QED BY <3>1, <4>1, <1>1, <1>2, <1>6, SMTT(60)
    <3> QED BY <3>2, <3>3
  <2>2. Looking(B, s) = Looking(D, s)
    BY <2>1, <1>3, <1>4, <1>6, LookingSame, SMTT(60)
  <2>3. Looking(A \o B, s) = Looking(A, s) + Looking(B, s)
    BY <1>3, <1>4, LookingConcat
  <2> QED BY <2>2, <2>3, <1>3, <1>10
<1> QED BY <1>8, <1>12, <1>13, <1>14 DEF d

(* Segment k of c without its octets from a to a + n: how many go from its *)
(* beginning.                                                              *)
Dropped(c, i, o, n, k) ==
    IF k < i \/ (k = i /\ o > 0) THEN 0
    ELSE IF k = i THEN Min({n, c[k].size})
    ELSE Min({Max({0, n - (Sized(c, i, k - 1) - o)}), c[k].size})
Leaves(c, i, o, n, k) == IF k = i /\ o > 0 THEN o ELSE c[k].size - Dropped(c, i, o, n, k)

(* Arithmetic: what is after the octets deleted moves up by n.             *)
LEMMA MovedUp ==
    ASSUME NEW e \in Nat, NEW n \in Nat, NEW x \in Nat, NEW y \in Nat, NEW v \in Nat,
           NEW j \in Nat, NEW b \in Nat, NEW z \in Nat,
           z = e + n - x, b = e, j >= 1, z + j <= y, x + y <= v
    PROVE  b + j \in e + 1..v - n /\ (b + j) + n = x + (z + j)
OBVIOUS

(* Octets deleted up to the end of the segment they begin in, and beyond.  *)
LEMMA ShortenedRight ==
    ASSUME NEW m \in Memories, NEW c \in Seq(Views), Within(m, c),
           NEW i \in 1..Len(c), NEW o \in Nat, o <= c[i].size, NEW n \in Nat,
           o > 0 => o + n >= c[i].size,
           Sums(c)[i - 1] + o + n <= Total(c)
    PROVE  LET d == Shortened(c, i, o, n)
           IN  /\ d \in Seq(Views) /\ Len(d) = Len(c) /\ Total(d) = Total(c) - n
               /\ \A k \in 0..i - 1 : Sums(d)[k] = Sums(c)[k]
               /\ Within(m, d) /\ Octets(m, d) = Without(Octets(m, c), Sums(c)[i - 1] + o, n)
               /\ \A s : Looking(d, s) = Looking(c, s)
<1> DEFINE S == Sums(c)
           d == Shortened(c, i, o, n)
           a == S[i - 1] + o
           w(k) == Dropped(c, i, o, n, k)
           r(k) == Leaves(c, i, o, n, k)
           f == [k \in 0..Len(c) |-> IF k < i THEN S[k]
                                     ELSE IF S[k] <= a + n THEN a ELSE S[k] - n]
           q == Octets(m, c)
<1>0. /\ Len(c) \in Nat /\ DOMAIN c = 1..Len(c)
      /\ S[0] = 0 /\ \A k \in 0..Len(c) : S[k] \in Nat
      /\ \A k \in 1..Len(c) : /\ S[k] = S[k - 1] + c[k].size
                              /\ c[k] \in Views /\ c[k].size \in Nat /\ c[k].offset \in Nat
  BY SizesInNat, SumsFacts
<1>1. /\ i \in 1..Len(c) /\ i - 1 \in 0..Len(c) /\ S[i - 1] \in Nat /\ a \in Nat
      /\ S[i] = S[i - 1] + c[i].size /\ a <= S[i]
  <2>1. i - 1 \in 0..Len(c)
    BY <1>0
  <2>2. S[i - 1] \in Nat /\ S[i] = S[i - 1] + c[i].size
    BY <2>1, <1>0
  <2> HIDE DEF S
  <2> QED BY <2>1, <2>2, <1>0, SMTT(60)
<1>2. /\ q \in Seq(Nat) /\ Len(q) = Total(c) /\ Total(c) = S[Len(c)] /\ Len(c) \in 0..Len(c)
  BY <1>0, OctetsRight DEF HasOctets, Total
<1>3. a + n <= Total(c) /\ Total(c) \in Nat
  <2>1. a + n = S[i - 1] + o + n
    BY <1>1
  <2> QED BY <2>1, <1>0, <1>2
<1>4. \A k \in i..Len(c) : k \in 0..Len(c) /\ S[i] <= S[k] /\ a <= S[k]
  <2> TAKE k \in i..Len(c)
  <2>1. i \in 0..Len(c) /\ k \in i..Len(c) /\ k \in 0..Len(c)
    BY <1>0
  <2>2. S[i] <= S[k]
    BY <2>1, SumsGrow
  <2> HIDE DEF S, a
  <2> QED BY <2>1, <2>2, <1>0, <1>1, SMTT(60)
<1>5. ASSUME NEW k \in 1..Len(c)
      PROVE  /\ w(k) \in Nat /\ r(k) \in Nat /\ w(k) + r(k) <= c[k].size
             /\ k < i => w(k) = 0 /\ r(k) = c[k].size
             /\ (k = i /\ o > 0) => w(k) = 0 /\ r(k) = o
             /\ (k = i /\ o = 0) => /\ w(k) = IF n <= c[k].size THEN n ELSE c[k].size
                                    /\ r(k) = c[k].size - w(k)
             /\ k > i => /\ r(k) = c[k].size - w(k)
                         /\ w(k) = IF a + n <= S[k - 1] THEN 0
                                   ELSE IF a + n - S[k - 1] <= c[k].size
                                        THEN a + n - S[k - 1] ELSE c[k].size
  <2>1. CASE k < i
    <3>1. w(k) = 0 /\ r(k) = c[k].size - 0 /\ c[k].size \in Nat
      BY <2>1, <1>0 DEF Dropped, Leaves
    <3> HIDE DEF w, r
    <3>2. r(k) = c[k].size
      BY <3>1
    <3> QED BY <2>1, <3>1, <3>2, <1>0
  <2>2. CASE k = i /\ o > 0
    <3>1. w(k) = 0 /\ r(k) = o
      BY <2>2, <1>0 DEF Dropped, Leaves
    <3> HIDE DEF w, r
    <3> QED BY <2>2, <3>1, <1>0
  <2>3. CASE k = i /\ o = 0
    <3>1. w(k) = Min({n, c[k].size}) /\ r(k) = c[k].size - w(k)
      BY <2>3, <1>0 DEF Dropped, Leaves
    <3>2. c[k].size \in Int /\ c[k].size \in Nat
      BY <1>0, SMTT(60)
    <3>3. w(k) = IF n <= c[k].size THEN n ELSE c[k].size
      BY <3>1, <3>2, MinOfTwo
    <3> HIDE DEF w, r
    <3>4. PICK z \in Nat : z = c[k].size
      BY <3>2
    <3>5. w(k) \in Nat /\ w(k) <= z
      BY <3>3, <3>4
    <3>6. r(k) \in Nat /\ w(k) + r(k) <= z
      BY <3>1, <3>4, <3>5
    <3>7. ~(k < i) /\ ~(k > i) /\ ~(o > 0)
      BY <2>3, <1>0
    <3> QED BY <2>3, <3>1, <3>3, <3>4, <3>5, <3>6, <3>7
  <2>4. CASE k > i
    <3>0. PICK z \in Nat, x \in Nat, y \in Nat : z = c[k].size /\ x = S[k - 1] /\ y = S[i - 1]
      <4>1. k - 1 \in 0..Len(c)
        BY <1>0
      <4> QED BY <4>1, <1>0, <1>1
    <3>1. Sized(c, i, k - 1) - o = x - y - o
      BY <3>0 DEF Sized
    <3>2. PICK v \in Int : v = n - (Sized(c, i, k - 1) - o) /\ v = a + n - x
      <4>1. n - (x - y - o) \in Int /\ n - (x - y - o) = y + o + n - x
        OBVIOUS
      <4> QED BY <3>0, <3>1, <4>1
    <3>3. PICK u \in Nat : u = Max({0, v}) /\ u = IF 0 >= v THEN 0 ELSE v
      <4>1. Max({0, v}) = IF 0 >= v THEN 0 ELSE v
        BY MaxOfTwo
      <4> QED BY <4>1
    <3>4. w(k) = Min({u, z}) /\ r(k) = z - w(k)
      <4>1. ~(k < i) /\ k # i
        BY <2>4, <1>0
      <4>2. w(k) = Min({Max({0, n - (Sized(c, i, k - 1) - o)}), c[k].size})
        BY <4>1 DEF Dropped
      <4>3. r(k) = c[k].size - w(k)
        BY <4>1 DEF Leaves
      <4> HIDE DEF w, r
      <4> QED BY <4>2, <4>3, <3>0, <3>2, <3>3
    <3>5. w(k) = IF u <= z THEN u ELSE z
      BY <3>4, MinOfTwo
    <3> HIDE DEF w, r, a, S
    <3>6. a + n <= x <=> 0 >= v
      <4>1. v = a + n - x /\ a \in Nat
        BY <3>2, <1>1
      <4> QED BY <4>1
    <3>7. w(k) = IF a + n <= x THEN 0 ELSE IF a + n - x <= z THEN a + n - x ELSE z
      BY <3>2, <3>3, <3>5, <3>6
    <3>8. w(k) \in Nat /\ w(k) <= z
      BY <3>5
    <3>9. r(k) \in Nat /\ w(k) + r(k) <= z
      BY <3>4, <3>8
    <3>10. ~(k < i) /\ ~(k = i)
      BY <2>4, <1>0
    <3> QED BY <2>4, <3>0, <3>4, <3>7, <3>8, <3>9, <3>10
  <2>5. k < i \/ k > i \/ (k = i /\ o > 0) \/ (k = i /\ o = 0)
    BY <1>0
  <2> QED BY <2>1, <2>2, <2>3, <2>4, <2>5
<1>6. ASSUME NEW k \in 1..Len(c)
      PROVE  d[k] = [shared |-> c[k].shared, offset |-> c[k].offset + w(k), size |-> r(k)]
  <2> DEFINE t == c[k]
  <2>0. t \in Views /\ t.offset \in Nat /\ t.size \in Nat /\ w(k) \in Nat /\ r(k) \in Nat
    BY <1>0, <1>5
  <2>1. CASE k < i
    <3>1. d[k] = t
      BY <2>1, <1>0 DEF Shortened
    <3>2. w(k) = 0 /\ r(k) = t.size
      BY <2>1, <1>5
    <3> HIDE DEF d, w, r, t
    <3>3. t.offset + w(k) = t.offset
      BY <2>0, <3>2
    <3>4. t = [shared |-> t.shared, offset |-> t.offset, size |-> t.size]
      BY <2>0 DEF Views
    <3> QED BY <3>1, <3>2, <3>3, <3>4 DEF t
  <2>2. CASE k = i /\ o > 0
    <3>1. d[k] = [t EXCEPT !.size = o]
      BY <2>2, <1>0 DEF Shortened
    <3>2. w(k) = 0 /\ r(k) = o
      BY <2>2, <1>5
    <3> HIDE DEF d, w, r, t
    <3>3. t.offset + w(k) = t.offset
      BY <2>0, <3>2
    <3>4. [t EXCEPT !.size = o] = [shared |-> t.shared, offset |-> t.offset, size |-> o]
      BY <2>0, Resized
    <3> QED BY <3>1, <3>2, <3>3, <3>4 DEF t
  <2>3. CASE ~(k < i) /\ ~(k = i /\ o > 0)
    <3>1. d[k] = [t EXCEPT !.offset = @ + w(k), !.size = @ - w(k)]
      <4>1. CASE k = i
        BY <2>3, <4>1, <1>0 DEF Shortened, Dropped
      <4>2. CASE k # i
        BY <2>3, <4>2, <1>0 DEF Shortened, Dropped
      <4> QED BY <4>1, <4>2
    <3>2. r(k) = t.size - w(k)
      BY <2>3 DEF Leaves
    <3> HIDE DEF d, w, r, t
    <3>3. d[k] = [t EXCEPT !.offset = t.offset + w(k), !.size = t.size - w(k)]
      BY <3>1
    <3>4. PICK x \in Nat, y \in Nat : x = t.offset + w(k) /\ y = t.size - w(k)
      BY <2>0, <3>2
    <3>5. [t EXCEPT !.offset = x, !.size = y] = [shared |-> t.shared, offset |-> x, size |-> y]
      <4>1. t \in Views
        BY <2>0
      <4>2. ASSUME NEW u \in Views
            PROVE  [u EXCEPT !.offset = x, !.size = y] = [shared |-> u.shared, offset |-> x, size |-> y]
        <5> DEFINE e == [u EXCEPT !.offset = x, !.size = y]
        <5>1. e \in Views /\ e.shared = u.shared /\ e.offset = x /\ e.size = y
          BY DEF Views
        <5> HIDE DEF e
        <5>2. e = [shared |-> u.shared, offset |-> x, size |-> y]
          BY <5>1 DEF Views
        <5> QED BY <5>2 DEF e
      <4> QED BY <4>1, <4>2
    <3> QED BY <3>2, <3>3, <3>4, <3>5 DEF t
  <2> QED BY <2>1, <2>2, <2>3
<1>7. d \in Seq(Views) /\ Len(d) = Len(c)
  <2>1. d = [k \in 1..Len(c) |-> d[k]]
    BY <1>0 DEF Shortened
  <2>2. \A k \in 1..Len(c) : d[k] \in Views
    <3> TAKE k \in 1..Len(c)
    <3> HIDE DEF w, r, d
    <3>1. c[k].shared \in Buffers
      BY SizesInNat
    <3>2. PICK x \in Nat, y \in Nat : x = c[k].offset + w(k) /\ y = r(k)
      <4>1. c[k].offset \in Nat /\ w(k) \in Nat /\ r(k) \in Nat
        BY <1>0, <1>5
      <4>2. c[k].offset + w(k) \in Nat
        BY <4>1
      <4> QED BY <4>1, <4>2
    <3>3. [shared |-> c[k].shared, offset |-> x, size |-> y] \in Views
      BY <3>1 DEF Views
    <3> QED BY <3>2, <3>3, <1>6
  <2> HIDE DEF d
  <2>3. PICK x \in Nat : x = Len(c)
    BY <1>0
  <2>4. d \in [1..x -> Views]
    BY <2>1, <2>2, <2>3
  <2>5. d \in Seq(Views) /\ Len(d) = x
    BY <2>4
  <2> QED BY <2>3, <2>5
<1> HIDE DEF d, w, r
<1>8. \A k \in 1..Len(c) : d[k].shared = c[k].shared /\ d[k].offset = c[k].offset + w(k) /\ d[k].size = r(k)
  <2> TAKE k \in 1..Len(c)
  <2>1. d[k] = [shared |-> c[k].shared, offset |-> c[k].offset + w(k), size |-> r(k)]
    BY <1>6
  <2> QED BY <2>1
<1>9. \A k \in 0..Len(c) : f[k] = IF k < i THEN S[k] ELSE IF S[k] <= a + n THEN a ELSE S[k] - n
  OBVIOUS
<1> HIDE DEF f, S, a
<1>10. f[0] = 0
  <2>1. 0 \in 0..Len(c) /\ 0 < i
    BY <1>0
  <2> QED BY <2>1, <1>0, <1>9
<1>11. ASSUME NEW k \in 1..Len(d) PROVE f[k] = f[k - 1] + d[k].size
  <2>0. k \in 1..Len(c) /\ k \in 0..Len(c) /\ k - 1 \in 0..Len(c)
    BY <1>0, <1>7
  <2>1. PICK x \in Nat, y \in Nat, z \in Nat : x = S[k - 1] /\ y = c[k].size /\ z = w(k)
    BY <2>0, <1>0, <1>5
  <2>2. S[k] = x + y /\ d[k].size = r(k)
    BY <2>0, <2>1, <1>0, <1>8
  <2>3. CASE k < i
    <3>1. k - 1 < i
      BY <2>3, <2>0
    <3>2. f[k] = x + y /\ f[k - 1] = x /\ d[k].size = y
      BY <2>0, <2>1, <2>2, <2>3, <3>1, <1>5, <1>9
    <3> QED BY <3>2
  <2>4. CASE k = i
    <3>1. k - 1 < i /\ ~(k < i) /\ a = x + o /\ o <= y
      BY <2>1, <2>4, <2>0 DEF a
    <3>2. f[k - 1] = x
      BY <2>0, <2>1, <3>1, <1>9
    <3>3. f[k] = IF x + y <= a + n THEN a ELSE x + y - n
      BY <2>0, <2>2, <3>1, <1>9
    <3>4. CASE o > 0
      <4>1. d[k].size = o /\ o + n >= y
        BY <2>0, <2>1, <2>2, <2>4, <3>4, <1>5
      <4>2. x + y <= a + n
        BY <3>1, <4>1, SMTT(60)
      <4> QED BY <3>1, <3>2, <3>3, <4>1, <4>2
    <3>5. CASE o = 0
      <4>1. z = (IF n <= y THEN n ELSE y) /\ d[k].size = y - z
        BY <2>0, <2>1, <2>2, <2>4, <3>5, <1>5
      <4>2. a = x
        BY <3>1, <3>5
      <4>3. CASE n <= y
        <5>1. z = n /\ d[k].size = y - n
          BY <4>1, <4>3
        <5>2. f[k] = x + (y - n)
          BY <3>3, <4>2, <4>3
        <5> QED BY <5>1, <5>2, <3>2
      <4>4. CASE ~(n <= y)
        <5>1. z = y /\ d[k].size = 0
          BY <4>1, <4>4
        <5>2. f[k] = x
          BY <3>3, <4>2, <4>4
        <5> QED BY <5>1, <5>2, <3>2
      <4> QED BY <4>3, <4>4
    <3> QED BY <3>4, <3>5
  <2>5. CASE k > i
    <3>1. ~(k < i) /\ ~(k - 1 < i)
      BY <2>0, <2>5
    <3>2. f[k] = IF x + y <= a + n THEN a ELSE x + y - n
      BY <2>0, <2>2, <3>1, <1>9
    <3>3. f[k - 1] = IF x <= a + n THEN a ELSE x - n
      BY <2>0, <2>1, <3>1, <1>9
    <3>4. z = (IF a + n <= x THEN 0 ELSE IF a + n - x <= y THEN a + n - x ELSE y) /\ d[k].size = y - z
      BY <2>0, <2>1, <2>2, <2>5, <1>5
    <3> QED BY <3>2, <3>3, <3>4, <1>1
  <2> QED BY <2>0, <2>3, <2>4, <2>5
<1>12. \A k \in 0..Len(c) : Sums(d)[k] = f[k]
  BY <1>7, <1>10, <1>11, SumsUnique, SMTT(60)
<1>13. \A k \in 0..i - 1 : Sums(d)[k] = S[k]
  <2> TAKE k \in 0..i - 1
  <2>1. k \in 0..Len(c) /\ k < i
    BY <1>0
  <2> QED BY <2>1, <1>9, <1>12
<1>14. Total(d) = Total(c) - n
  <2>1. ~(Len(c) < i)
    BY <1>0
  <2>2. Total(d) = IF Total(c) <= a + n THEN a ELSE Total(c) - n
    BY <2>1, <1>2, <1>7, <1>9, <1>12 DEF Total
  <2>3. PICK x \in Nat : x = Total(c)
    BY <1>3
  <2>4. a + n <= x
    BY <2>3, <1>3
  <2>5. (IF x <= a + n THEN a ELSE x - n) = x - n
    BY <2>4, <1>1
  <2> QED BY <2>2, <2>3, <2>5
<1>15. \A s : Looking(d, s) = Looking(c, s)
  BY <1>7, <1>8, LookingSame
<1> DEFINE p == Without(q, a, n)
<1>16. /\ p \in Seq(Nat) /\ Len(p) = Total(c) - n
       /\ \A x \in 1..a : p[x] = q[x]
       /\ \A x \in a + 1..Total(c) - n : p[x] = q[x + n]
  <2> HIDE DEF q
  <2>1. a + n <= Len(q)
    BY <1>2, <1>3
  <2>2. q \in Seq(Nat) /\ a \in Nat
    BY <1>1, <1>2
  <2>3. /\ p \in Seq(Nat) /\ Len(p) = Len(q) - n
        /\ \A x \in 1..a : p[x] = q[x]
        /\ \A x \in a + 1..Len(q) - n : p[x] = q[x + n]
    BY <2>1, <2>2, WithoutIs
  <2> HIDE DEF p
  <2> QED BY <2>3, <1>2
<1> HIDE DEF p
<1>17. ASSUME NEW k \in 1..Len(d), NEW j \in 1..d[k].size
       PROVE  p[Sums(d)[k - 1] + j] = q[S[k - 1] + (w(k) + j)]
  <2>0. k \in 1..Len(c) /\ k \in 0..Len(c) /\ k - 1 \in 0..Len(c) /\ d[k].size = r(k) /\ Sums(d)[k - 1] = f[k - 1]
    BY <1>0, <1>7, <1>8, <1>12
  <2>1. PICK x \in Nat, y \in Nat, z \in Nat : x = S[k - 1] /\ y = c[k].size /\ z = w(k)
    BY <2>0, <1>0, <1>5
  <2>2. S[k] = x + y /\ j \in Nat /\ j >= 1 /\ z + j <= y
    <3>1. r(k) \in Nat /\ z + r(k) <= y
      BY <2>0, <2>1, <1>5
    <3>2. j \in 1..r(k)
      BY <2>0
    <3>3. S[k] = x + y
      BY <2>0, <2>1, <1>0
    <3>4. j \in Nat /\ j >= 1 /\ j <= r(k)
      BY <3>1, <3>2
    <3>5. z + j <= y
      BY <3>1, <3>4
    <3> QED BY <3>3, <3>4, <3>5
  <2>3. CASE k < i
    <3>1. z = 0 /\ f[k - 1] = x
      <4>1. k - 1 < i
        BY <2>3, <2>0
      <4> QED BY <4>1, <2>0, <2>1, <2>3, <1>5, <1>9
    <3>2. x + y <= S[i - 1]
      <4>1. i - 1 \in k..Len(c) /\ k \in 0..Len(c)
        BY <2>0, <2>3, <1>0
      <4>2. S[k] <= S[i - 1]
        BY <4>1, SumsGrow DEF S
      <4> QED BY <4>2, <2>2
    <3>3. x + j \in 1..a /\ x + (z + j) = x + j
      <4>1. PICK v \in Nat : v = S[i - 1]
        BY <1>1
      <4>2. a = v + o
        BY <4>1 DEF a
      <4> QED BY <4>1, <4>2, <3>1, <3>2, <2>2
    <3> QED BY <3>1, <3>3, <2>0, <2>1, <1>16
  <2>4. CASE k = i /\ o > 0
    <3>1. z = 0 /\ f[k - 1] = x /\ r(k) = o /\ a = x + o
      <4>1. k - 1 < i
        BY <2>4, <2>0
      <4> QED BY <4>1, <2>0, <2>1, <2>4, <1>5, <1>9 DEF a
    <3>2. j <= o
      BY <3>1, <2>0
    <3>3. x + j \in 1..a /\ x + (z + j) = x + j
      BY <3>1, <3>2, <2>2
    <3> QED BY <3>1, <3>3, <2>0, <2>1, <1>16
  <2>5. CASE k = i /\ o = 0
    <3>1. /\ f[k - 1] = x /\ a = x /\ z = IF n <= y THEN n ELSE y
      <4>1. k - 1 < i
        BY <2>5, <2>0
      <4>2. a = x
        BY <2>1, <2>5, <1>1 DEF a
      <4> QED BY <4>1, <4>2, <2>0, <2>1, <2>5, <1>5, <1>9
    <3>2. z = n
      BY <3>1, <2>2
    <3>3. S[k] <= Total(c)
      <4>1. Len(c) \in k..Len(c)
        BY <2>0, <1>0
      <4> QED BY <4>1, <2>0, SumsGrow DEF S, Total
    <3>4. x + j \in a + 1..Total(c) - n /\ (x + j) + n = x + (z + j)
      <4>1. PICK v \in Nat : v = Total(c)
        BY <1>3
      <4>2. x + y <= v
        BY <4>1, <3>3, <2>2
      <4>3. x + j \in a + 1..v - n /\ (x + j) + n = x + (z + j)
        BY <4>2, <3>1, <3>2, <2>2
      <4> QED BY <4>1, <4>3
    <3> QED BY <3>1, <3>4, <2>0, <2>1, <1>16
  <2>6. CASE k > i
    <3>1. /\ f[k - 1] = IF x <= a + n THEN a ELSE x - n
          /\ z = IF a + n <= x THEN 0 ELSE IF a + n - x <= y THEN a + n - x ELSE y
      <4>1. ~(k - 1 < i)
        BY <2>6, <2>0
      <4> QED BY <4>1, <2>0, <2>1, <2>6, <1>5, <1>9
    <3>2. PICK v \in Nat : v = Total(c)
      BY <1>3
    <3>3. x + y <= v
      <4>1. Len(c) \in k..Len(c)
        BY <2>0, <1>0
      <4>2. S[k] <= Total(c)
        BY <4>1, <2>0, SumsGrow DEF S, Total
      <4> QED BY <4>2, <2>2, <3>2
    <3>4. a <= x
      <4>1. k - 1 \in i..Len(c)
        BY <2>0, <2>6, <1>0
      <4> QED BY <4>1, <2>1, <1>4
    <3>5. PICK b \in Nat : b = f[k - 1]
      <4>1. a \in Nat
        BY <1>1
      <4>2. (IF x <= a + n THEN a ELSE x - n) \in Nat
        BY <4>1
      <4> QED BY <3>1, <4>2
    <3>6. z <= y - 1
      BY <2>2
    <3>7. b + j \in a + 1..v - n /\ (b + j) + n = x + (z + j)
      <4>1. CASE a + n <= x
        <5>1. z = 0 /\ b = x - n
          BY <4>1, <3>1, <3>5, <1>1
        <5> QED BY <5>1, <4>1, <3>3, <2>2, <1>1
      <4>2. CASE ~(a + n <= x)
        <5>1. z = a + n - x /\ b = a
          BY <4>2, <3>1, <3>5, <3>6, <1>1
        <5>2. PICK e \in Nat : e = a
          BY <1>1
        <5>3. z = e + n - x /\ b = e /\ j >= 1 /\ z + j <= y /\ j \in Nat
          BY <5>1, <5>2, <2>2
        <5>4. b + j \in e + 1..v - n /\ (b + j) + n = x + (z + j)
          BY <5>3, <3>3, MovedUp, SMTT(60)
        <5> QED BY <5>2, <5>4
      <4> QED BY <4>1, <4>2
    <3>8. p[b + j] = q[x + (z + j)]
      BY <3>2, <3>7, <1>16
    <3> QED BY <3>5, <3>8, <2>0, <2>1
  <2>7. k < i \/ k > i \/ (k = i /\ o > 0) \/ (k = i /\ o = 0)
    BY <2>0
  <2> QED BY <2>3, <2>4, <2>5, <2>6, <2>7
<1>18. Derived(m, c, d, p)
  <2>1. ASSUME NEW k \in 1..Len(d)
        PROVE  \E l \in 1..Len(c) : \E x \in Nat :
                 /\ PartOf(d[k], c[l], x)
                 /\ \A j \in 1..d[k].size : p[Sums(d)[k - 1] + j] = q[S[l - 1] + (x + j)]
    <3>1. k \in 1..Len(c) /\ d[k] \in Views
      BY <1>7, SizesInNat
    <3>2. PartOf(d[k], c[k], w(k)) /\ w(k) \in Nat
      BY <3>1, <1>5, <1>8 DEF PartOf
    <3> QED BY <3>1, <3>2, <1>17
  <2> QED BY <2>1, <1>7, <1>14, <1>16 DEF Derived, S, q
<1>19. Within(m, d) /\ Octets(m, d) = p
  BY <1>18, DerivedOctets
<1> QED BY <1>7, <1>13, <1>14, <1>15, <1>19 DEF d, S, a, p

(* Octets from a + 1 to a + n.                                             *)
LEMMA PieceIs ==
    ASSUME NEW q \in Seq(Nat), NEW a \in Nat, NEW n \in Nat, a + n <= Len(q)
    PROVE  /\ SubSeq(q, a + 1, a + n) \in Seq(Nat) /\ Len(SubSeq(q, a + 1, a + n)) = n
           /\ \A p \in 1..n : SubSeq(q, a + 1, a + n)[p] = q[a + p]
<1>0. Len(q) \in Nat
  BY LenProperties
<1> DEFINE x == a + 1
           y == a + n
<1>1. x \in Int /\ y \in Int
  OBVIOUS
<1>2. \A p \in x..y : q[p] \in Nat
  <2>1. \A p \in x..y : p \in 1..Len(q)
    BY <1>0
  <2> QED BY <2>1, ElementOfSeq
<1>3. (IF x <= y THEN y - x + 1 ELSE 0) = n /\ y - x + 1 = n /\ \A p \in 1..n : x + p - 1 = a + p
  OBVIOUS
<1> HIDE DEF x, y
<1>4. /\ SubSeq(q, x, y) \in Seq(Nat) /\ Len(SubSeq(q, x, y)) = IF x <= y THEN y - x + 1 ELSE 0
      /\ \A p \in 1..y - x + 1 : SubSeq(q, x, y)[p] = q[x + p - 1]
  BY <1>1, <1>2, SubSeqProperties
<1> QED BY <1>3, <1>4 DEF x, y

(* Where the segments of a spliced chain come from: segment k is segment   *)
(* k + i - 1 of c, without its first octets when k = 1.                    *)
LEMMA SplicedRight ==
    ASSUME NEW m \in Memories, NEW c \in Seq(Views), Within(m, c),
           NEW i \in 1..Len(c), NEW o \in Nat, o <= c[i].size, NEW n \in Nat,
           Sums(c)[i - 1] + o + n <= Total(c)
    PROVE  LET d == Spliced(c, i, o, n)
           IN  /\ d \in Seq(Views) /\ Len(d) > 0 /\ Total(d) = n
               /\ Within(m, d)
               /\ Octets(m, d) = SubSeq(Octets(m, c), Sums(c)[i - 1] + o + 1, Sums(c)[i - 1] + o + n)
               /\ \A s : Looking(d, s) > 0 => Looking(c, s) > 0
<1> DEFINE S == Sums(c)
           d == Spliced(c, i, o, n)
           a == S[i - 1] + o
           left(k) == n - (Sized(c, i, k - 1) - o)
           T == {i} \cup {k \in i + 1..Len(c) : left(k) > 0}
           last == Max(T)
           q == Octets(m, c)
<1>0. /\ Len(c) \in Nat /\ DOMAIN c = 1..Len(c)
      /\ S[0] = 0 /\ \A k \in 0..Len(c) : S[k] \in Nat
      /\ \A k \in 1..Len(c) : /\ S[k] = S[k - 1] + c[k].size
                              /\ c[k] \in Views /\ c[k].size \in Nat /\ c[k].offset \in Nat
                              /\ c[k].shared \in Buffers
  BY SizesInNat, SumsFacts
<1>1. /\ i \in 1..Len(c) /\ i - 1 \in 0..Len(c) /\ S[i - 1] \in Nat /\ a \in Nat
      /\ S[i] = S[i - 1] + c[i].size /\ a <= S[i]
  <2>1. i - 1 \in 0..Len(c)
    BY <1>0
  <2>2. S[i - 1] \in Nat /\ S[i] = S[i - 1] + c[i].size
    BY <2>1, <1>0
  <2> HIDE DEF S
  <2> QED BY <2>1, <2>2, <1>0
<1>2. /\ q \in Seq(Nat) /\ Len(q) = Total(c) /\ Total(c) = S[Len(c)] /\ Len(c) \in 0..Len(c)
  BY <1>0, OctetsRight DEF HasOctets, Total
<1>3. a + n <= Total(c) /\ Total(c) \in Nat
  <2>1. a + n = S[i - 1] + o + n
    BY <1>1
  <2> QED BY <2>1, <1>0, <1>2
<1>4. \A k \in i..Len(c) : k \in 1..Len(c) /\ k \in 0..Len(c) /\ a <= S[k]
  <2> TAKE k \in i..Len(c)
  <2>1. i \in 0..Len(c) /\ k \in i..Len(c) /\ k \in 0..Len(c) /\ k \in 1..Len(c)
    BY <1>0
  <2>2. S[i] <= S[k]
    BY <2>1, SumsGrow
  <2> HIDE DEF S, a
  <2> QED BY <2>1, <2>2, <1>0, <1>1
<1>5. \A k \in 1..Len(c) : k - 1 \in 0..Len(c) /\ S[k - 1] \in Nat /\ left(k) = a + n - S[k - 1]
  <2> TAKE k \in 1..Len(c)
  <2>0. k - 1 \in 0..Len(c)
    BY <1>0
  <2>1. PICK x \in Nat, y \in Nat : x = S[k - 1] /\ y = S[i - 1]
    BY <2>0, <1>0, <1>1
  <2>2. left(k) = n - (x - y - o) /\ a = y + o
    BY <2>1 DEF Sized
  <2>3. n - (x - y - o) = (y + o) + n - x
    OBVIOUS
  <2> HIDE DEF left, a, S
  <2>4. left(k) = a + n - S[k - 1]
    BY <2>1, <2>2, <2>3
  <2> QED BY <2>0, <2>1, <2>4
<1> HIDE DEF left
<1>6. last \in i..Len(c) /\ last \in T /\ \A k \in T : last >= k
  <2>1. T \subseteq 0..Len(c) /\ T # {} /\ T \subseteq i..Len(c)
    BY <1>0
  <2> HIDE DEF T
  <2>2. last \in T /\ \A k \in T : last >= k
    BY <2>1, <1>0, MaxFound
  <2> QED BY <2>1, <2>2
<1>7. \A k \in i + 1..last : S[k - 1] < a + n
  <2> TAKE k \in i + 1..last
  <2>1. last \in i + 1..Len(c) /\ left(last) > 0
    <3>1. last # i
      BY <1>0, <1>6
    <3> QED BY <3>1, <1>6 DEF T
  <2> HIDE DEF last, T
  <2>2. k - 1 \in 0..Len(c) /\ last - 1 \in k - 1..Len(c) /\ last \in 1..Len(c) /\ k \in 1..Len(c)
    BY <2>1, <1>0
  <2>3. S[k - 1] <= S[last - 1]
    BY <2>2, SumsGrow
  <2>4. left(last) = a + n - S[last - 1] /\ S[last - 1] \in Nat /\ S[k - 1] \in Nat
    BY <2>2, <1>5
  <2> HIDE DEF a, S
  <2> QED BY <2>1, <2>3, <2>4, <1>1, SMTT(60)
<1>8. a + n <= S[last]
  <2>1. CASE last = Len(c)
    BY <2>1, <1>2, <1>3
  <2>2. CASE last # Len(c)
    <3>1. last + 1 \in i + 1..Len(c) /\ last + 1 \in 1..Len(c)
      BY <2>2, <1>0, <1>6
    <3>2. last + 1 \notin T
      <4> HIDE DEF last, T
      <4>1. last + 1 > last
        BY <1>6
      <4> QED BY <4>1, <1>6, <1>0
    <3>3. ~(left(last + 1) > 0)
      BY <3>1, <3>2 DEF T
    <3> HIDE DEF last, T
    <3>4. last + 1 - 1 = last
      BY <1>6
    <3>5. left(last + 1) = a + n - S[last] /\ S[last] \in Nat
      <4>1. PICK z \in 1..Len(c) : z = last + 1 /\ z - 1 = last
        <5>1. \E z \in 1..Len(c) : z = last + 1
          BY <3>1, Zenon
        <5>2. PICK z \in 1..Len(c) : z = last + 1
          BY <5>1
        <5>3. last \in Int /\ z \in Int
          BY <1>6, <1>0
        <5>4. z - 1 = last
          BY <5>2, <5>3
        <5> QED BY <5>2, <5>4
      <4>2. left(z) = a + n - S[z - 1] /\ S[z - 1] \in Nat
        BY <1>5
      <4> HIDE DEF left, a, S
      <4> QED BY <4>1, <4>2
    <3> HIDE DEF a, S
    <3> QED BY <3>3, <3>5, <1>1
  <2> QED BY <2>1, <2>2
<1> DEFINE N == last - i + 1
           w(k) == IF k = 1 THEN o ELSE 0
           f == [k \in 0..N |-> IF k = 0 THEN 0 ELSE IF S[k + i - 1] <= a + n THEN S[k + i - 1] - a ELSE n]
<1>9. d = [k \in 1..N |-> d[k]]
  BY DEF Spliced, left
<1>10. \A k \in 1..N : d[k] = IF k + i - 1 = i
           THEN [c[i] EXCEPT !.offset = @ + o, !.size = Min({@ - o, n})]
           ELSE [c[k + i - 1] EXCEPT !.size = Min({@, left(k + i - 1)})]
  BY DEF Spliced, left
<1> HIDE DEF last, T, d
<1>11. /\ N \in Nat /\ N >= 1
       /\ \A k \in 1..N : k + i - 1 \in i..Len(c) /\ k + i - 1 \in 1..Len(c) /\ (k + i - 1 = i <=> k = 1)
                          /\ k + i - 1 <= last /\ (k # 1 => k + i - 1 \in i + 1..last)
       /\ N + i - 1 = last
  BY <1>0, <1>6
<1> HIDE DEF N
<1>12. ASSUME NEW k \in 1..N
       PROVE  /\ d[k] \in Views /\ d[k].shared = c[k + i - 1].shared
              /\ d[k].offset = c[k + i - 1].offset + w(k)
              /\ w(k) \in Nat /\ w(k) + d[k].size <= c[k + i - 1].size
              /\ k = 1 => d[k].size = IF c[i].size - o <= n THEN c[i].size - o ELSE n
              /\ k # 1 => d[k].size = IF c[k + i - 1].size <= a + n - S[k + i - 2]
                                      THEN c[k + i - 1].size ELSE a + n - S[k + i - 2]
  <2>1. CASE k = 1
    <3>1. k + i - 1 = i /\ w(k) = o
      BY <2>1, <1>0
    <3> DEFINE t == c[i]
    <3>2. t \in Views /\ t.size \in Nat /\ t.offset \in Nat /\ t.size - o \in Nat
      BY <1>0
    <3>3. d[k] = [t EXCEPT !.offset = @ + o, !.size = Min({@ - o, n})]
      BY <3>1, <1>10
    <3> HIDE DEF t
    <3>4. PICK x \in Nat, y \in Nat : /\ x = t.offset + o /\ y = Min({t.size - o, n})
                                      /\ y = IF t.size - o <= n THEN t.size - o ELSE n
      <4>1. Min({t.size - o, n}) = IF t.size - o <= n THEN t.size - o ELSE n
        BY <3>2, MinOfTwo, SMTT(60)
      <4> QED BY <3>2, <4>1
    <3>5. d[k] = [t EXCEPT !.offset = x, !.size = y]
      BY <3>3, <3>4
    <3>6. d[k] \in Views /\ d[k].shared = t.shared /\ d[k].offset = x /\ d[k].size = y
      BY <3>2, <3>5 DEF Views
    <3>7. o + y <= t.size
      <4>1. PICK z \in Nat : z = t.size
        BY <3>2
      <4>2. z - o \in Nat /\ y = IF z - o <= n THEN z - o ELSE n
        BY <4>1, <3>2, <3>4
      <4>3. o + y <= z
        BY <4>2
      <4> QED BY <4>1, <4>3
    <3> HIDE DEF w
    <3> QED BY <2>1, <3>1, <3>4, <3>6, <3>7 DEF t
  <2>2. CASE k # 1
    <3>0. PICK z \in 1..Len(c) : z = k + i - 1 /\ z # i /\ z - 1 = k + i - 2 /\ z \in i + 1..last
      <4>1. k + i - 1 - 1 = k + i - 2
        BY <1>0
      <4>2. PICK z : z = k + i - 1
        OBVIOUS
      <4>3. z \in 1..Len(c) /\ z # i /\ z \in i + 1..last /\ z - 1 = k + i - 2
        BY <2>2, <1>11, <4>1, <4>2
      <4> QED BY <4>2, <4>3
    <3>1. w(k) = 0
      BY <2>2
    <3> DEFINE t == c[z]
    <3>2. t \in Views /\ t.size \in Nat /\ t.offset \in Nat
      BY <1>0
    <3>3. d[k] = [t EXCEPT !.size = Min({@, left(z)})]
      BY <3>0, <1>10
    <3>4. left(z) = a + n - S[z - 1] /\ left(z) \in Nat
      <4>1. left(z) = a + n - S[z - 1] /\ S[z - 1] \in Nat /\ S[z - 1] < a + n
        BY <3>0, <1>5, <1>7
      <4> HIDE DEF a, S
      <4> QED BY <4>1, <1>1, SMTT(60)
    <3> HIDE DEF t
    <3>5. PICK y \in Nat : y = Min({t.size, left(z)}) /\ y = IF t.size <= left(z) THEN t.size ELSE left(z)
      <4>1. Min({t.size, left(z)}) = IF t.size <= left(z) THEN t.size ELSE left(z)
        BY <3>2, <3>4, MinOfTwo
      <4> QED BY <3>2, <3>4, <4>1
    <3>6. d[k] = [t EXCEPT !.size = y]
      BY <3>3, <3>5
    <3>7. d[k] \in Views /\ d[k].shared = t.shared /\ d[k].offset = t.offset /\ d[k].size = y
      BY <3>2, <3>6 DEF Views
    <3>8. 0 + y <= t.size /\ t.offset + 0 = t.offset
      <4>1. PICK x \in Nat : x = t.size
        BY <3>2
      <4>2. PICK v \in Nat : v = left(z)
        BY <3>4
      <4>3. y = IF x <= v THEN x ELSE v
        BY <4>1, <4>2, <3>5
      <4>4. 0 + y <= x
        BY <4>3
      <4> QED BY <4>1, <4>4, <3>2
    <3>9. c[k + i - 1] = t /\ S[k + i - 2] = S[z - 1]
      BY <3>0 DEF t
    <3> HIDE DEF w, a, S
    <3>10. /\ d[k] \in Views /\ d[k].shared = c[k + i - 1].shared
           /\ d[k].offset = c[k + i - 1].offset + w(k) /\ w(k) \in Nat
           /\ w(k) + d[k].size <= c[k + i - 1].size
      <4>1. t.offset + w(k) = t.offset /\ w(k) + y <= t.size
        BY <3>1, <3>8
      <4> QED BY <4>1, <3>1, <3>7, <3>9
    <3>11. d[k].size = IF c[k + i - 1].size <= a + n - S[k + i - 2]
                       THEN c[k + i - 1].size ELSE a + n - S[k + i - 2]
      BY <3>4, <3>5, <3>7, <3>9
    <3> QED BY <2>2, <3>10, <3>11
  <2> QED BY <2>1, <2>2
<1>13. d \in Seq(Views) /\ Len(d) = N
  <2>1. PICK x \in Nat : x = N
    BY <1>11
  <2>2. \A k \in 1..N : d[k] \in Views
    BY <1>12
  <2>3. d \in [1..x -> Views]
    BY <2>1, <2>2, <1>9
  <2>4. d \in Seq(Views) /\ Len(d) = x
    BY <2>3
  <2> QED BY <2>1, <2>4
<1>14. \A k \in 0..N : f[k] = IF k = 0 THEN 0 ELSE IF S[k + i - 1] <= a + n THEN S[k + i - 1] - a ELSE n
  OBVIOUS
<1> HIDE DEF f
(* What the segments up to k have, and what k gets of the octets.          *)
<1>15. ASSUME NEW k \in 1..N
       PROVE  /\ f[k] = f[k - 1] + d[k].size
              /\ f[k - 1] \in Nat /\ a + f[k - 1] = S[k + i - 2] + w(k) /\ f[k - 1] + d[k].size <= n
  <2>0. k \in 0..N /\ k - 1 \in 0..N /\ k + i - 1 \in 1..Len(c) /\ k + i - 1 - 1 = k + i - 2
    BY <1>0, <1>11
  <2>1. PICK x \in Nat, y \in Nat : x = S[k + i - 2] /\ y = c[k + i - 1].size /\ S[k + i - 1] = x + y
    <3>1. PICK z \in 1..Len(c) : z = k + i - 1 /\ z - 1 = k + i - 2
      BY <2>0
    <3>2. S[z] = S[z - 1] + c[z].size /\ c[z].size \in Nat /\ S[z - 1] \in Nat
      BY <1>0, <1>5
    <3> HIDE DEF S
    <3> QED BY <3>1, <3>2
  <2>2. f[k] = IF x + y <= a + n THEN x + y - a ELSE n
    <3>1. k # 0
      OBVIOUS
    <3> HIDE DEF S, a
    <3>2. f[k] = IF S[k + i - 1] <= a + n THEN S[k + i - 1] - a ELSE n
      BY <2>0, <3>1, <1>14
    <3>3. PICK v \in Nat, e \in Nat : v = S[k + i - 1] /\ v = x + y /\ e = a
      <4>1. PICK e \in Nat : e = a
        BY <1>1
      <4>2. PICK v \in Nat : v = x + y
        OBVIOUS
      <4>3. v = S[k + i - 1]
        BY <2>1, <4>2
      <4> QED BY <4>1, <4>2, <4>3
    <3>4. f[k] = IF v <= e + n THEN v - e ELSE n
      BY <3>2, <3>3
    <3> QED BY <3>3, <3>4
  <2>3. CASE k = 1
    <3>1. f[k - 1] = 0 /\ w(k) = o /\ k + i - 2 = i - 1 /\ k + i - 1 = i
      BY <2>0, <2>3, <1>0, <1>14
    <3>2. a = x + o /\ o <= y /\ d[k].size = IF y - o <= n THEN y - o ELSE n
      BY <2>1, <2>3, <3>1, <1>12
    <3>3. PICK e \in Nat : e = a /\ e = x + o
      BY <3>2, <1>1
    <3>4. f[k] = IF x + y <= e + n THEN x + y - e ELSE n
      BY <2>2, <3>3
    <3> HIDE DEF a, S, w
    <3>5. f[k] = d[k].size /\ d[k].size \in Nat /\ d[k].size <= n
      BY <3>2, <3>3, <3>4
    <3>6. f[k] = 0 + d[k].size /\ 0 + d[k].size <= n
      BY <3>5
    <3>7. a + 0 = S[k + i - 2] + w(k)
      BY <2>1, <3>1, <3>3
    <3> QED BY <3>1, <3>6, <3>7
  <2>4. CASE k # 1
    <3>0. k - 1 # 0 /\ (k - 1) + i - 1 = k + i - 2 /\ k + i - 1 \in i + 1..last /\ k + i - 2 \in i..Len(c)
      <4>1. k + i - 1 \in i + 1..last
        BY <2>4, <1>11
      <4>2. k \in Nat /\ k >= 2
        BY <2>4, <1>11
      <4>3. k + i - 1 <= Len(c)
        BY <2>0
      <4> QED BY <4>1, <4>2, <4>3, <1>0
    <3>1. x < a + n
      BY <3>0, <2>0, <2>1, <1>7
    <3>2. f[k - 1] = IF x <= a + n THEN x - a ELSE n
      BY <3>0, <2>0, <2>1, <1>14
    <3>3. a <= x
      BY <3>0, <2>1, <1>4
    <3>4. w(k) = 0 /\ d[k].size = IF y <= a + n - x THEN y ELSE a + n - x
      BY <2>1, <2>4, <1>12
    <3>5. PICK e \in Nat : e = a
      BY <1>1
    <3> HIDE DEF a, S, w
    <3>6. x < e + n /\ e <= x /\ f[k - 1] = x - e
      BY <3>1, <3>2, <3>3, <3>5
    <3>7. d[k].size = IF y <= e + n - x THEN y ELSE e + n - x
      BY <3>4, <3>5
    <3>8. f[k] = IF x + y <= e + n THEN x + y - e ELSE n
      BY <2>2, <3>5
    <3>9. f[k] = f[k - 1] + d[k].size /\ f[k - 1] + d[k].size <= n
      BY <3>6, <3>7, <3>8
    <3>10. f[k - 1] \in Nat /\ a + f[k - 1] = S[k + i - 2] + w(k)
      <4>1. x - e \in Nat /\ e + (x - e) = x + 0
        BY <3>6
      <4> QED BY <4>1, <2>1, <3>4, <3>5, <3>6
    <3> QED BY <3>9, <3>10
  <2> QED BY <2>3, <2>4
<1>16. f[0] = 0
  <2>1. 0 \in 0..N
    BY <1>11
  <2> QED BY <2>1, <1>14
<1>17. \A k \in 0..N : Sums(d)[k] = f[k]
  BY <1>13, <1>15, <1>16, SumsUnique, SMTT(60)
<1>18. Total(d) = n
  <2>1. N \in 0..N /\ N # 0 /\ N + i - 1 = last /\ last \in 1..Len(c)
    BY <1>4, <1>6, <1>11
  <2>2. f[N] = IF S[last] <= a + n THEN S[last] - a ELSE n
    BY <2>1, <1>14
  <2>3. PICK x \in Nat, e \in Nat : x = S[last] /\ e = a
    <3>1. last \in 0..Len(c)
      BY <2>1, <1>0
    <3> QED BY <3>1, <1>0, <1>1
  <2> HIDE DEF a, S
  <2>4. e + n <= x
    BY <2>3, <1>8
  <2>5. (IF x <= e + n THEN x - e ELSE n) = n
    BY <2>4
  <2> QED BY <2>1, <2>2, <2>3, <2>5, <1>13, <1>17 DEF Total
<1> DEFINE p == SubSeq(q, a + 1, a + n)
<1>19. p \in Seq(Nat) /\ Len(p) = n /\ \A j \in 1..n : p[j] = q[a + j]
  <2> HIDE DEF a, q
  <2>1. a + n <= Len(q) /\ a \in Nat /\ q \in Seq(Nat)
    BY <1>1, <1>2, <1>3
  <2> QED BY <2>1, PieceIs
<1> HIDE DEF p
<1>20. ASSUME NEW k \in 1..N, NEW j \in 1..d[k].size
       PROVE  p[Sums(d)[k - 1] + j] = q[S[k + i - 2] + (w(k) + j)]
  <2>0. k - 1 \in 0..N /\ d[k].size \in Nat /\ w(k) \in Nat /\ S[k + i - 2] \in Nat
    <3>1. PICK z \in 1..Len(c) : z = k + i - 1 /\ z - 1 = k + i - 2
      <4>1. PICK z : z = k + i - 1
        OBVIOUS
      <4>2. z \in 1..Len(c)
        BY <4>1, <1>11
      <4>3. z - 1 = k + i - 2
        BY <4>1, <1>0, <1>11
      <4> QED BY <4>1, <4>2, <4>3
    <3>2. S[z - 1] \in Nat
      BY <1>5
    <3>3. k - 1 \in 0..N
      BY <1>11
    <3>4. d[k] \in Views /\ w(k) \in Nat
      BY <1>12
    <3> HIDE DEF w
    <3> QED BY <3>1, <3>2, <3>3, <3>4 DEF Views
  <2>1. PICK x \in Nat, y \in Nat, z \in Nat, v \in Nat :
          x = f[k - 1] /\ y = d[k].size /\ z = S[k + i - 2] /\ v = w(k)
    BY <2>0, <1>15
  <2>2. a + x = z + v /\ x + y <= n
    BY <2>1, <1>15
  <2>3. j \in 1..y
    BY <2>1
  <2>4. x + j \in 1..n /\ a + (x + j) = z + (v + j)
    <3>1. PICK e \in Nat : e = a
      BY <1>1
    <3>2. e + x = z + v
      BY <3>1, <2>2
    <3>3. x + j \in 1..n /\ e + (x + j) = z + (v + j)
      BY <3>2, <2>2, <2>3
    <3> QED BY <3>1, <3>3
  <2>5. p[x + j] = q[z + (v + j)]
    BY <2>4, <1>19
  <2> QED BY <2>0, <2>1, <2>5, <1>17
<1>21. Derived(m, c, d, p)
  <2>1. ASSUME NEW k \in 1..Len(d)
        PROVE  \E l \in 1..Len(c) : \E x \in Nat :
                 /\ PartOf(d[k], c[l], x)
                 /\ \A j \in 1..d[k].size : p[Sums(d)[k - 1] + j] = q[S[l - 1] + (x + j)]
    <3>0. k \in 1..N
      BY <1>13
    <3>1. k + i - 1 \in 1..Len(c) /\ k + i - 1 - 1 = k + i - 2
      BY <3>0, <1>0, <1>11
    <3>2. PartOf(d[k], c[k + i - 1], w(k)) /\ w(k) \in Nat
      BY <3>0, <1>12 DEF PartOf
    <3>3. \A j \in 1..d[k].size : p[Sums(d)[k - 1] + j] = q[S[k + i - 1 - 1] + (w(k) + j)]
      BY <3>0, <3>1, <1>20, ZenonT(60)
    <3>4. PICK l \in 1..Len(c), x \in Nat : l = k + i - 1 /\ x = w(k)
      BY <3>1, <3>2
    <3>5. PartOf(d[k], c[l], x)
      BY <3>2, <3>4
    <3> HIDE DEF w, S, q
    <3>6. \A j \in 1..d[k].size : p[Sums(d)[k - 1] + j] = q[S[l - 1] + (x + j)]
      <4> TAKE j \in 1..d[k].size
      <4>1. p[Sums(d)[k - 1] + j] = q[S[k + i - 1 - 1] + (w(k) + j)]
        BY <3>3
      <4>2. k + i - 1 - 1 = l - 1 /\ w(k) + j = x + j
        BY <3>4
      <4> QED BY <4>1, <4>2
    <3> QED BY <3>5, <3>6
  <2> QED BY <2>1, <1>13, <1>18, <1>19 DEF Derived, S, q
<1>22. Within(m, d) /\ Octets(m, d) = p
  BY <1>21, DerivedOctets
<1>23. ASSUME NEW s, Looking(d, s) > 0 PROVE Looking(c, s) > 0
  <2>1. PICK k \in 1..Len(d) : d[k].shared = s
    <3>1. Looking(d, s) # 0
      BY <1>23
    <3> QED BY <3>1, <1>13, LookingNone
  <2>2. k \in 1..N /\ k + i - 1 \in 1..Len(c) /\ c[k + i - 1].shared = s
    BY <2>1, <1>11, <1>12, <1>13
  <2>3. Looking(c, s) # 0
    BY <2>2, LookingNone
  <2>4. Looking(c, s) \in Nat
    BY LookersFinite
  <2> QED BY <2>3, <2>4
<1>24. Len(d) > 0
  BY <1>11, <1>13
<1> QED BY <1>13, <1>18, <1>22, <1>23, <1>24 DEF d, S, a, p

(* The head h is as it should be, and its chain has the octets q.          *)
Gives(m, h, q) == Sound(h) /\ Within(m, h.chain) /\ Octets(m, h.chain) = q

(* A new head on a chain is sound.                                         *)
LEMMA NewHeadRight ==
    ASSUME NEW c \in Seq(Views), Len(c) > 0, NEW t, t = Total(c)
    PROVE  /\ Sound(NewHead(c, t)) /\ NewHead(c, t).chain = c
           /\ NewHead(c, t).total_size = t
<1> DEFINE h == NewHead(c, t)
<1>0. Len(c) \in Nat /\ t \in Nat /\ Sums(c)[0] = 0
  <2>1. Len(c) \in Nat /\ Sums(c)[0] = 0 /\ \A k \in 0..Len(c) : Sums(c)[k] \in Nat
    BY SizesInNat, SumsFacts
  <2>2. Len(c) \in 0..Len(c)
    BY <2>1
  <2> QED BY <2>1, <2>2 DEF Total
<1>1. /\ h.chain = c /\ h.total_size = t
      /\ h.cached_ubuf = 1 /\ h.cached_offset = 0 /\ h.cached_end_ubuf = 1
  BY DEF NewHead
<1>2. h \in Heads
  BY <1>0 DEF NewHead, Heads
<1> HIDE DEF h
<1>3. 1 \in 1..Len(c) /\ 1 - 1 = 0
  BY <1>0
<1>4. Sound(h)
  BY <1>0, <1>1, <1>2, <1>3 DEF Sound, Cached
<1> QED BY <1>1, <1>4 DEF h

LEMMA Pointed ==
    ASSUME NEW u \in Heads, NEW x \in Nat, NEW y \in Int,
           NEW h, h = [u EXCEPT !.cached_ubuf = x, !.cached_offset = y]
    PROVE  /\ h \in Heads /\ h.chain = u.chain /\ h.total_size = u.total_size
           /\ h.cached_ubuf = x /\ h.cached_offset = y /\ h.cached_end_ubuf = u.cached_end_ubuf
BY DEF Heads

(* The cache still points to what it did, as far as the chain is the same  *)
(* up to the segment it points to.                                         *)
LEMMA StaysSound ==
    ASSUME NEW b, Sound(b), NEW h \in Heads, Len(h.chain) > 0,
           h.total_size = Total(h.chain),
           h.cached_ubuf = b.cached_ubuf, h.cached_offset = b.cached_offset,
           h.cached_ubuf \in 1..Len(h.chain), h.cached_end_ubuf \in 1..Len(h.chain),
           Sums(h.chain)[b.cached_ubuf - 1] = Sums(b.chain)[b.cached_ubuf - 1]
    PROVE  Sound(h)
BY DEF Sound, Cached

-----------------------------------------------------------------------------
(* The window is moved back on octets that are there.                      *)
LEMMA PrependedRight ==
    ASSUME NEW m \in Memories, NEW b, Sound(b), Within(m, b.chain), NEW n \in Nat, n > 0,
           b.cached_offset < 0 => b.cached_offset + n < 0, n <= b.chain[1].offset
    PROVE  LET h == Prepended(b, n)
               s == b.chain[1]
           IN  /\ Gives(m, h, SubSeq(m[s.shared], s.offset - n + 1, s.offset) \o Octets(m, b.chain))
               /\ \A v : Looking(h.chain, v) = Looking(b.chain, v)
<1> DEFINE c == b.chain
           s == c[1]
           p == Prepended(b, n)
           d == p.chain
<1>0. /\ b \in Heads /\ c \in Seq(Views) /\ Len(c) \in Nat /\ Len(c) > 0
      /\ b.total_size \in Nat /\ b.total_size = Total(c) /\ b.cached_offset \in Int
      /\ b.cached_ubuf \in 1..Len(c) /\ b.cached_end_ubuf \in 1..Len(c)
      /\ 1 \in 1..Len(c)
  BY SoundFacts
<1>1. /\ s \in Views /\ s.offset \in Nat /\ s.size \in Nat /\ s.offset - n \in Nat /\ s.size + n \in Nat
      /\ s.shared \in Buffers
  <2>1. s \in Views /\ s.offset \in Nat /\ s.size \in Nat /\ s.shared \in Buffers
    BY <1>0, SizesInNat
  <2> HIDE DEF s
  <2> QED BY <2>1 DEF s
<1> DEFINE t == [shared |-> s.shared, offset |-> s.offset - n, size |-> s.size + n]
<1>2. t \in Views /\ t.shared = s.shared /\ t.offset = s.offset - n /\ t.size = s.size + n
  BY <1>1 DEF Views
<1>3. /\ p.chain = [c EXCEPT ![1].offset = @ - n, ![1].size = @ + n]
      /\ p.total_size = b.total_size + n /\ p.cached_offset = b.cached_offset + n
      /\ p.cached_ubuf = b.cached_ubuf /\ p.cached_end_ubuf = b.cached_end_ubuf
  BY <1>0 DEF Prepended, Heads
<1>4. /\ d \in Seq(Views) /\ Len(d) = Len(c) /\ d[1] = t
      /\ \A k \in 1..Len(c) : k # 1 => d[k] = c[k]
  <2>1. d = [c EXCEPT ![1] = [s EXCEPT !.offset = s.offset - n, !.size = s.size + n]]
    BY <1>0, <1>3
  <2>2. [s EXCEPT !.offset = s.offset - n, !.size = s.size + n] = t
    <3>1. PICK x \in Nat, y \in Nat : x = s.offset - n /\ y = s.size + n
      BY <1>1
    <3>2. [s EXCEPT !.offset = x, !.size = y] = [shared |-> s.shared, offset |-> x, size |-> y]
      <4>1. ASSUME NEW u \in Views
            PROVE  [u EXCEPT !.offset = x, !.size = y] = [shared |-> u.shared, offset |-> x, size |-> y]
        <5> DEFINE e == [u EXCEPT !.offset = x, !.size = y]
        <5>1. e \in Views /\ e.shared = u.shared /\ e.offset = x /\ e.size = y
          BY DEF Views
        <5> HIDE DEF e
        <5>2. e = [shared |-> u.shared, offset |-> x, size |-> y]
          BY <5>1 DEF Views
        <5> QED BY <5>2 DEF e
      <4> QED BY <4>1, <1>1
    <3> QED BY <3>1, <3>2
  <2>3. d = [c EXCEPT ![1] = t]
    BY <2>1, <2>2
  <2> HIDE DEF d, t, c
  <2> QED BY <2>3, <1>0, <1>2, ExceptSeq
<1> HIDE DEF p, d, t
<1> DEFINE f == [k \in 0..Len(c) |-> IF k = 0 THEN 0 ELSE Sums(c)[k] + n]
<1>5. \A k \in 0..Len(c) : f[k] = IF k = 0 THEN 0 ELSE Sums(c)[k] + n
  OBVIOUS
<1> HIDE DEF f
<1>6. ASSUME NEW k \in 1..Len(d) PROVE f[k] = f[k - 1] + d[k].size
  <2>1. k \in 1..Len(c) /\ k \in 0..Len(c) /\ k - 1 \in 0..Len(c) /\ k # 0
    BY <1>0, <1>4
  <2>2. PICK x \in Nat, y \in Nat : x = Sums(c)[k - 1] /\ y = c[k].size /\ Sums(c)[k] = x + y
    BY <2>1, <1>0, SizesInNat, SumsFacts
  <2>3. f[k] = x + y + n
    BY <2>1, <2>2, <1>5
  <2>4. CASE k = 1
    <3>1. x = 0 /\ f[k - 1] = 0 /\ d[k].size = y + n
      BY <2>1, <2>2, <2>4, <1>0, <1>2, <1>4, <1>5, SumsFacts, SMTT(60)
    <3> QED BY <2>3, <3>1
  <2>5. CASE k # 1
    <3>1. k - 1 # 0
      BY <2>1, <2>5
    <3>2. f[k - 1] = x + n /\ d[k].size = y
      BY <2>1, <2>2, <2>5, <3>1, <1>4, <1>5
    <3> QED BY <2>3, <3>2
  <2> QED BY <2>4, <2>5
<1>7. \A k \in 0..Len(c) : Sums(d)[k] = f[k]
  <2>1. f[0] = 0
    <3>1. 0 \in 0..Len(c)
      BY <1>0
    <3> QED BY <3>1, <1>5
  <2> QED BY <2>1, <1>4, <1>6, SumsUnique
<1>8. Total(d) = Total(c) + n
  <2>1. Len(c) \in 0..Len(c) /\ Len(c) # 0
    BY <1>0
  <2> QED BY <2>1, <1>4, <1>5, <1>7 DEF Total
<1>9. \A k \in 1..Len(c) : d[k].shared = c[k].shared
  BY <1>2, <1>4
<1>10. \A v : Looking(d, v) = Looking(c, v)
  BY <1>0, <1>4, <1>9, LookingSame
<1> DEFINE z == m[s.shared]
           w == SubSeq(z, s.offset - n + 1, s.offset)
           O == Octets(m, c)
           q == w \o O
<1>11. z \in Seq(Nat) /\ Len(z) \in Nat /\ s.offset + s.size <= Len(z)
  <2>1. z \in Seq(Nat) /\ s.offset + s.size <= Len(z)
    BY <1>0, <1>1 DEF Memories, Within
  <2> HIDE DEF z
  <2> QED BY <2>1, LenProperties
<1>12. w \in Seq(Nat) /\ Len(w) = n /\ \A j \in 1..n : w[j] = z[(s.offset - n) + j]
  <2> HIDE DEF z
  <2>1. PICK x \in Nat : x = s.offset - n
    BY <1>1
  <2>2. s.offset = x + n /\ x + n <= Len(z)
    <3>1. PICK y \in Nat, v \in Nat, u \in Nat : y = s.offset /\ v = s.size /\ u = Len(z)
      BY <1>1, <1>11
    <3>2. x = y - n /\ y + v <= u
      BY <2>1, <3>1, <1>11
    <3>3. y = x + n /\ x + n <= u
      BY <3>2
    <3> QED BY <3>1, <3>3
  <2>3. /\ SubSeq(z, x + 1, x + n) \in Seq(Nat) /\ Len(SubSeq(z, x + 1, x + n)) = n
        /\ \A j \in 1..n : SubSeq(z, x + 1, x + n)[j] = z[x + j]
    BY <2>2, <1>11, PieceIs
  <2> QED BY <2>1, <2>2, <2>3
<1>13. HasOctets(m, c, O)
  BY <1>0, OctetsRight
<1>14. O \in Seq(Nat) /\ Len(O) = Total(c) /\ Total(c) \in Nat
  BY <1>0, <1>13 DEF HasOctets
<1> HIDE DEF w, O, z
<1>15. /\ q \in Seq(Nat) /\ Len(q) = n + Total(c)
       /\ \A j \in 1..n + Total(c) : q[j] = IF j <= n THEN w[j] ELSE O[j - n]
  <2>1. w \in Seq(Nat) /\ O \in Seq(Nat)
    BY <1>12, <1>14
  <2>2. /\ w \o O \in Seq(Nat) /\ Len(w \o O) = Len(w) + Len(O)
        /\ \A j \in 1..Len(w) + Len(O) : (w \o O)[j] = IF j <= Len(w) THEN w[j] ELSE O[j - Len(w)]
    BY <2>1, ConcatProperties
  <2> QED BY <2>2, <1>12, <1>14
<1> HIDE DEF q
<1>16. ASSUME NEW k \in 1..Len(d), NEW j \in 1..d[k].size
       PROVE  q[Sums(d)[k - 1] + j] = m[d[k].shared][d[k].offset + j]
  <2>1. k \in 1..Len(c) /\ k - 1 \in 0..Len(c)
    BY <1>0, <1>4
  <2>2. CASE k = 1
    <3>1. Sums(d)[k - 1] = 0 /\ d[k] = t /\ Sums(c)[0] = 0
      BY <2>1, <2>2, <1>0, <1>4, <1>5, <1>7, SumsFacts
    <3>2. PICK x \in Nat, y \in Nat : x = s.offset /\ y = s.size /\ x - n \in Nat
      BY <1>1
    <3>3. j \in 1..y + n /\ j \in Nat
      BY <3>1, <3>2, <1>2
    <3>4. Total(c) \in Nat /\ y <= Total(c)
      <4>1. Len(c) \in 1..Len(c) /\ 1 \in 0..Len(c) /\ Sums(c)[1] = y
        <5>1. Sums(c)[1] = Sums(c)[1 - 1] + c[1].size
          BY <1>0, SumsFacts
        <5> QED BY <5>1, <3>1, <3>2, <1>0
      <4> QED BY <4>1, <1>0, <1>14, SumsGrow DEF Total
    <3>5. m[d[k].shared][d[k].offset + j] = z[(x - n) + j]
      BY <3>1, <3>2, <1>2 DEF z
    <3>6. j \in 1..n + Total(c)
      BY <3>3, <3>4
    <3>7. CASE j <= n
      <4>1. j \in 1..n
        BY <3>3, <3>7
      <4>2. q[j] = z[(x - n) + j]
        BY <4>1, <3>2, <3>6, <3>7, <1>12, <1>15
      <4>3. 0 + j = j
        BY <3>3
      <4> QED BY <4>2, <4>3, <3>1, <3>5
    <3>8. CASE ~(j <= n)
      <4>1. PICK i \in 1..y : i = j - n
        BY <3>3, <3>8
      <4>2. x + i = (x - n) + j /\ 0 + i = i /\ 0 + j = j
        BY <4>1, <3>3
      <4>3. O[Sums(c)[1 - 1] + i] = m[c[1].shared][c[1].offset + i]
        BY <4>1, <3>2, <1>0, <1>13 DEF HasOctets
      <4>4. O[i] = z[x + i]
        BY <4>2, <4>3, <3>1, <3>2 DEF z
      <4>5. q[j] = O[i]
        BY <4>1, <3>6, <3>8, <1>15
      <4> QED BY <4>2, <4>4, <4>5, <3>1, <3>5
    <3> QED BY <3>7, <3>8
  <2>3. CASE k # 1
    <3>1. PICK x \in Nat : x = Sums(c)[k - 1] /\ Sums(d)[k - 1] = x + n /\ d[k] = c[k]
      <4>1. k - 1 # 0
        BY <2>1, <2>3
      <4>2. Sums(c)[k - 1] \in Nat
        BY <2>1, <1>0, SumsFacts
      <4>3. Sums(d)[k - 1] = Sums(c)[k - 1] + n
        BY <4>1, <2>1, <1>5, <1>7
      <4> QED BY <4>2, <4>3, <2>1, <2>3, <1>4
    <3>2. j \in 1..c[k].size /\ j \in Nat
      <4>1. c[k].size \in Nat
        BY <2>1, <1>0, SizesInNat
      <4> QED BY <4>1, <3>1
    <3>3. O[x + j] = m[c[k].shared][c[k].offset + j]
      BY <2>1, <3>1, <3>2, <1>13 DEF HasOctets
    <3>4. (x + n) + j \in 1..n + Total(c)
      <4>1. Len(c) \in k..Len(c)
        BY <2>1, <1>0
      <4>2. Sums(c)[k - 1] + j \in 1..Sums(c)[Len(c)]
        BY <4>1, <2>1, <3>2, <1>0, Positions
      <4>3. x + j \in 1..Total(c)
        BY <4>2, <3>1 DEF Total
      <4> QED BY <4>3, <3>2, <1>14, SMTT(60)
    <3>5. ~((x + n) + j <= n) /\ ((x + n) + j) - n = x + j
      BY <3>2
    <3> QED BY <3>1, <3>3, <3>4, <3>5, <1>15
  <2> QED BY <2>2, <2>3
<1>17. Within(m, d)
  <2> SUFFICES ASSUME NEW k \in 1..Len(c) PROVE d[k].offset + d[k].size <= Len(m[d[k].shared])
    BY <1>4 DEF Within
  <2>1. CASE k = 1
    <3>1. PICK x \in Nat, y \in Nat : x = s.offset /\ y = s.size
      BY <1>1
    <3>2. (x - n) + (y + n) = x + y
      OBVIOUS
    <3> QED BY <2>1, <3>1, <3>2, <1>2, <1>4, <1>11 DEF z
  <2>2. CASE k # 1
    BY <2>2, <1>4 DEF Within
  <2> QED BY <2>1, <2>2
<1>18. Octets(m, d) = q
  <2>1. HasOctets(m, d, q)
    <3>1. Len(q) = Total(d)
      BY <1>8, <1>14, <1>15
    <3> QED BY <3>1, <1>15, <1>16 DEF HasOctets
  <2> QED BY <2>1, <1>4, <1>17, OctetsAre
<1>22. p \in Heads
  <2> DEFINE e == [c EXCEPT ![1].offset = @ - n, ![1].size = @ + n]
             u == [b EXCEPT !.chain[1].offset = @ - n, !.chain[1].size = @ + n]
  <2>1. u = [b EXCEPT !.chain = e]
    OBVIOUS
  <2>2. e = d
    BY <1>3 DEF d
  <2>3. p = [u EXCEPT !.total_size = @ + n, !.cached_offset = @ + n]
    BY DEF Prepended, p
  <2>4. u \in Heads /\ u.total_size = b.total_size /\ u.cached_offset = b.cached_offset
    <3> HIDE DEF e, u
    <3> QED BY <2>1, <2>2, <1>0, <1>4 DEF Heads
  <2> HIDE DEF u
  <2>5. PICK x \in Nat, y \in Int : x = u.total_size + n /\ y = u.cached_offset + n
    BY <2>4, <1>0
  <2>6. p = [u EXCEPT !.total_size = x, !.cached_offset = y]
    BY <2>3, <2>5
  <2> QED BY <2>4, <2>6 DEF Heads
<1>23. ~(p.cached_offset < 0) => Cached(p)
  <2> SUFFICES ASSUME ~(p.cached_offset < 0) PROVE Cached(p)
    OBVIOUS
  <2>1. PICK x \in Int, y \in Int : x = b.cached_offset /\ y = p.cached_offset /\ y = x + n
    BY <1>0, <1>3
  <2>2. x >= 0 /\ y > 0
    BY <2>1
  <2>3. PICK k \in 1..Len(c) : k = b.cached_ubuf
    BY <1>0
  <2>4. x = Sums(c)[k - 1] \/ k = 1
    BY <2>1, <2>2, <2>3 DEF Sound, Cached
  <2>5. CASE k = 1
    BY <2>1, <2>2, <2>3, <2>5, <1>3 DEF Cached
  <2>6. CASE k # 1
    <3>1. k - 1 \in 0..Len(c) /\ k - 1 # 0
      BY <2>6, <1>0
    <3>2. Sums(d)[k - 1] = Sums(c)[k - 1] + n
      BY <3>1, <1>5, <1>7
    <3>3. y = Sums(d)[k - 1]
      BY <3>2, <2>1, <2>4, <2>6
    <3> QED BY <3>3, <2>1, <2>3, <1>3 DEF Cached, d
  <2> QED BY <2>5, <2>6
<1>24. Cached(p)
  <2>1. PICK y \in Int : y = p.cached_offset
    BY <1>0, <1>3
  <2> QED BY <2>1, <1>23 DEF Cached
<1>25. Sound(p)
  <2>1. p.chain = d /\ p.total_size = Total(d) /\ Len(d) > 0
    BY <1>0, <1>3, <1>4, <1>8 DEF d
  <2>2. p.cached_ubuf \in 1..Len(d) /\ p.cached_end_ubuf \in 1..Len(d)
    BY <1>0, <1>3, <1>4
  <2> QED BY <2>1, <2>2, <1>22, <1>24 DEF Sound
<1>26. Gives(m, p, q)
  BY <1>17, <1>18, <1>25 DEF Gives, d
<1> QED BY <1>10, <1>26 DEF q, w, z, O, p, d

(* Octets to delete: n, or all that follow octet a.                        *)
Length(b, o, n) == IF n = -1 THEN b.total_size - Absolute(b, o) ELSE n

(* A look-up has found segment g.seg; the chain is replaced by another that*)
(* is the same up to there.                                                *)
LEMMA ChangedRight ==
    ASSUME NEW m \in Memories, NEW b, Sound(b), NEW o \in Int, Absolute(b, o) >= 0,
           ~Astray(b, o), Get(b, o) # NULL,
           NEW h \in Heads, h.total_size = Total(h.chain), Within(m, h.chain),
           Get(b, o).seg \in 1..Len(h.chain), h.cached_end_ubuf \in 1..Len(h.chain),
           h.cached_ubuf = Looked(b, o).cached_ubuf,
           h.cached_offset = Looked(b, o).cached_offset,
           Sums(h.chain)[Get(b, o).seg - 1] = Sums(b.chain)[Get(b, o).seg - 1]
    PROVE  Gives(m, h, Octets(m, h.chain))
<1> DEFINE l == Looked(b, o)
           i == Get(b, o).seg
<1>1. Sound(l) /\ l.chain = b.chain /\ l.cached_ubuf = i
  BY LookedRight
<1>2. Len(h.chain) > 0
  <2>1. Len(h.chain) \in Nat
    BY SizesInNat DEF Heads
  <2> QED BY <2>1
<1>3. Sound(h)
  <2>1. Sums(h.chain)[l.cached_ubuf - 1] = Sums(l.chain)[l.cached_ubuf - 1]
    BY <1>1
  <2>2. h.cached_ubuf \in 1..Len(h.chain)
    BY <1>1
  <2> HIDE DEF l
  <2> QED BY <2>1, <2>2, <1>1, <1>2, StaysSound DEF l
<1> QED BY <1>3 DEF Gives

(* A pointer moved by an insertion stays within the chain.                 *)
LEMMA MovedIn ==
    ASSUME NEW p \in Nat, NEW i \in Nat, NEW n \in Nat, NEW z \in Nat, p \in 1..z
    PROVE  Moved(p, i, n) \in 1..z + n
BY DEF Moved

(* The empty chain.                                                        *)
LEMMA LookingEmpty ==
    ASSUME NEW s
    PROVE  <<>> \in Seq(Views) /\ Len(<<>>) = 0 /\ Looking(<<>>, s) = 0
<1>1. <<>> \in Seq(Views) /\ Len(<<>>) = 0
  OBVIOUS
<1>2. PICK c \in Seq(Views) : c = <<>> /\ Len(c) = 0
  BY <1>1
<1>3. \A k \in 1..Len(c) : c[k].shared # s
  BY <1>2
<1>4. Looking(c, s) = 0
  BY <1>3, LookingNone
<1> QED BY <1>1, <1>2, <1>4

(* Deletion: what is left are the octets but those deleted, and the        *)
(* segments released are those that are gone.                              *)
LEMMA DeletedRight ==
    ASSUME NEW m \in Memories, NEW b, Sound(b), Within(m, b.chain),
           NEW o \in Int, NEW n \in Int,
           ~Astray(b, o), Absolute(b, o) >= 0, Length(b, o, n) >= 0,
           Absolute(b, o) + Length(b, o, n) <= b.total_size
    PROVE  LET d == Deleted(b, o, n)
               O == Octets(m, b.chain)
           IN  /\ d.ok = (Get(b, o) # NULL)
               /\ Gives(m, d.head, IF d.ok THEN Without(O, Absolute(b, o), Length(b, o, n)) ELSE O)
               /\ d.dups \in Seq(Views)
               /\ \A s : Looking(d.head.chain, s) = Looking(b.chain, s) + Looking(d.dups, s)
               /\ \A s : Looking(d.dups, s) > 0 => Looking(b.chain, s) > 0
               /\ Absolute(b, o) = 0 => d.dups = <<>>
<1> DEFINE d == Deleted(b, o, n)
           g == Get(b, o)
           a == Absolute(b, o)
           size == Length(b, o, n)
           c == b.chain
           O == Octets(m, c)
           i == g.seg
           x == g.offset
           within == x > 0 /\ x + size < c[i].size
<1>0. /\ b \in Heads /\ c \in Seq(Views) /\ Len(c) \in Nat /\ Len(c) > 0
      /\ b.total_size \in Nat /\ b.total_size = Total(c)
  BY SoundFacts
<1>1. a \in Nat /\ size \in Nat
  <2>1. a \in Int
    BY <1>0 DEF Absolute
  <2> HIDE DEF a
  <2>2. size \in Int
    BY <2>1, <1>0 DEF Length, a
  <2> QED BY <2>1, <2>2 DEF a
<1>2. \A s : <<>> \in Seq(Views) /\ Looking(<<>>, s) = 0 /\ Looking(c, s) \in Nat
  BY <1>0, LookingEmpty, LookersFinite
<1>3. CASE g = NULL
  <2>1. d = [head |-> b, dups |-> <<>>, ok |-> FALSE]
    BY <1>3 DEF Deleted
  <2>2. d.head = b /\ d.dups = <<>> /\ d.ok = FALSE
    BY <2>1
  <2> HIDE DEF d
  <2>3. Gives(m, d.head, O)
    BY <2>2 DEF Gives
  <2>4. \A s : Looking(c, s) = Looking(c, s) + 0
    BY <1>2
  <2>5. \A s : Looking(d.head.chain, s) = Looking(c, s) + Looking(d.dups, s)
    BY <2>2, <2>4, <1>2
  <2>6. \A s : Looking(d.dups, s) > 0 => Looking(c, s) > 0
    BY <2>2, <1>2
  <2> QED BY <2>2, <2>3, <2>5, <2>6, <1>2, <1>3 DEF d
<1>4. CASE g # NULL
  <2>1. Found(c, a, g)
    BY <1>4, GetRight
  <2> HIDE DEF a, size, g, c
  <2>2. /\ i \in 1..Len(c) /\ x \in Nat /\ x < c[i].size /\ c[i] \in Views /\ c[i].size \in Nat
        /\ Sums(c)[i - 1] \in Nat /\ a = Sums(c)[i - 1] + x
    BY <2>1, <1>0, <1>1, FoundFacts
  <2>3. a = 0 => ~within
    <3>1. PICK y \in Nat : y = Sums(c)[i - 1]
      BY <2>2
    <3> QED BY <3>1, <2>2
  <2>4. Sums(c)[i - 1] + x + size <= Total(c)
    BY <2>2, <1>0 DEF a, size
  <2> DEFINE l == Looked(b, o)
             new == IF within THEN Hollowed(l.chain, i, x, size) ELSE Shortened(l.chain, i, x, size)
             end == IF within THEN Moved(l.cached_end_ubuf, i, 1) ELSE l.cached_end_ubuf
             total == l.total_size - size
             dups == IF within THEN <<c[i]>> ELSE <<>>
  <2>5. d = [head |-> [l EXCEPT !.chain = new, !.cached_end_ubuf = end, !.total_size = total],
             dups |-> dups, ok |-> TRUE]
    BY <1>4 DEF Deleted, g, c, a, size, Length
  <2>6. /\ l.chain = c /\ l.total_size = b.total_size /\ l.cached_end_ubuf = b.cached_end_ubuf
        /\ l.cached_end_ubuf \in 1..Len(c)
    BY LookedRight, SoundFacts DEF c, a
  <2> HIDE DEF l
  <2>7. PICK h : h = [l EXCEPT !.chain = new, !.cached_end_ubuf = end, !.total_size = total]
    OBVIOUS
  <2>8. d.head = h /\ d.dups = dups /\ d.ok = TRUE
    BY <2>5, <2>7
  <2>9. /\ new \in Seq(Views) /\ Len(new) = Len(c) + Len(dups) /\ Total(new) = Total(c) - size
        /\ \A k \in 0..i - 1 : Sums(new)[k] = Sums(c)[k]
        /\ Within(m, new) /\ Octets(m, new) = Without(O, a, size)
        /\ dups \in Seq(Views) /\ end \in 1..Len(new) /\ i \in 1..Len(new)
        /\ \A s : Looking(new, s) = Looking(c, s) + Looking(dups, s)
        /\ \A s : Looking(dups, s) > 0 => Looking(c, s) > 0
    <3>1. CASE within
      <4>1. new = Hollowed(c, i, x, size) /\ dups = <<c[i]>> /\ end = Moved(l.cached_end_ubuf, i, 1)
        BY <3>1, <2>6
      <4>2. x + size <= c[i].size
        BY <3>1, <2>2, <1>1, SMTT(60)
      <4>3. /\ new \in Seq(Views) /\ Len(new) = Len(c) + 1 /\ Total(new) = Total(c) - size
            /\ \A k \in 0..i - 1 : Sums(new)[k] = Sums(c)[k]
            /\ Within(m, new) /\ Octets(m, new) = Without(O, Sums(c)[i - 1] + x, size)
            /\ \A s : Looking(new, s) = Looking(c, s) + Looking(<<c[i]>>, s)
        <5> HIDE DEF x, i, new, dups, end
        <5>0. PICK e \in Seq(Views) : e = c
          BY <1>0
        <5>6. PICK k \in 1..Len(e), y \in Nat, z \in Nat : k = i /\ y = x /\ z = size
          BY <5>0, <2>2, <1>1
        <5>1. e = c /\ k = i /\ y = x /\ z = size
          BY <5>0, <5>6
        <5>7. Within(m, c)
          BY DEF c
        <5>8. x <= c[i].size
          <6>1. \A v, w \in Nat : v < w => v <= w
            OBVIOUS
          <6> QED BY <6>1, <2>2, Zenon
        <5>2. /\ Within(m, e) /\ y <= e[k].size
              /\ y + z <= e[k].size
              /\ Sums(e)[k - 1] + y + z <= Total(e)
          BY <5>1, <5>7, <5>8, <4>2, <2>4
        <5> DEFINE w == Hollowed(e, k, y, z)
        <5>3. /\ w \in Seq(Views) /\ Len(w) = Len(e) + 1 /\ Total(w) = Total(e) - z
              /\ \A j \in 0..k - 1 : Sums(w)[j] = Sums(e)[j]
              /\ Within(m, w) /\ Octets(m, w) = Without(Octets(m, e), Sums(e)[k - 1] + y, z)
              /\ \A s : Looking(w, s) = Looking(e, s) + Looking(<<e[k]>>, s)
          BY <5>2, HollowedRight
        <5> HIDE DEF w
        <5>4. new = w
          BY <4>1, <5>1 DEF w
        <5> QED BY <5>1, <5>3, <5>4
      <4>4. dups \in Seq(Views) /\ Len(dups) = 1
        BY <4>1, <2>2
      <4>5. end \in 1..Len(c) + 1 /\ i \in 1..Len(c) + 1
        <5>1. PICK p \in 1..Len(c), k \in 1..Len(c), z \in Nat : p = l.cached_end_ubuf /\ k = i /\ z = Len(c)
          BY <2>2, <2>6, <1>0
        <5>2. p \in Nat /\ k \in Nat /\ p \in 1..z /\ k \in 1..z
          BY <5>1
        <5>3. Moved(p, k, 1) \in 1..z + 1 /\ k \in 1..z + 1
          BY <5>2 DEF Moved
        <5> QED BY <4>1, <5>1, <5>3
      <4>6. ASSUME NEW s, Looking(dups, s) > 0 PROVE Looking(c, s) > 0
        <5>1. c[i].shared = s
          BY <4>1, <4>6, <2>2, LookingOne
        <5>2. Looking(c, s) # 0
          BY <5>1, <2>2, <1>0, LookingNone
        <5> QED BY <5>2, <1>2
      <4> HIDE DEF new, dups, end
      <4> QED BY <4>1, <4>3, <4>4, <4>5, <4>6, <2>2
    <3>2. CASE ~within
      <4>1. new = Shortened(c, i, x, size) /\ dups = <<>> /\ end = l.cached_end_ubuf
        BY <3>2, <2>6
      <4>2. x <= c[i].size /\ (x > 0 => x + size >= c[i].size)
        BY <3>2, <2>2, <1>1, SMTT(60)
      <4>3. /\ new \in Seq(Views) /\ Len(new) = Len(c) /\ Total(new) = Total(c) - size
            /\ \A k \in 0..i - 1 : Sums(new)[k] = Sums(c)[k]
            /\ Within(m, new) /\ Octets(m, new) = Without(O, Sums(c)[i - 1] + x, size)
            /\ \A s : Looking(new, s) = Looking(c, s)
        <5> HIDE DEF x, i, new, dups, end
        <5>0. PICK e \in Seq(Views) : e = c
          BY <1>0
        <5>6. PICK k \in 1..Len(e), y \in Nat, z \in Nat : k = i /\ y = x /\ z = size
          BY <5>0, <2>2, <1>1
        <5>1. e = c /\ k = i /\ y = x /\ z = size
          BY <5>0, <5>6
        <5>7. Within(m, c)
          BY DEF c
        <5>8. x <= c[i].size
          <6>1. \A v, w \in Nat : v < w => v <= w
            OBVIOUS
          <6> QED BY <6>1, <2>2, Zenon
        <5>2. /\ Within(m, e) /\ y <= e[k].size
              /\ (y > 0 => y + z >= e[k].size)
              /\ Sums(e)[k - 1] + y + z <= Total(e)
          BY <5>1, <5>7, <5>8, <4>2, <2>4
        <5> DEFINE w == Shortened(e, k, y, z)
        <5>3. /\ w \in Seq(Views) /\ Len(w) = Len(e) /\ Total(w) = Total(e) - z
              /\ \A j \in 0..k - 1 : Sums(w)[j] = Sums(e)[j]
              /\ Within(m, w) /\ Octets(m, w) = Without(Octets(m, e), Sums(e)[k - 1] + y, z)
              /\ \A s : Looking(w, s) = Looking(e, s)
          BY <5>2, ShortenedRight
        <5> HIDE DEF w
        <5>4. new = w
          BY <4>1, <5>1 DEF w
        <5> QED BY <5>1, <5>3, <5>4
      <4>4. dups \in Seq(Views) /\ Len(dups) = 0
        BY <4>1
      <4>5. end \in 1..Len(c) /\ i \in 1..Len(c)
        BY <4>1, <2>2, <2>6
      <4>6. \A s : Looking(dups, s) = 0
        BY <4>1, <1>2
      <4> HIDE DEF new, dups, end
      <4>7. Len(new) = Len(c) + Len(dups)
        BY <4>3, <4>4, <1>0
      <4>8. \A s : Looking(new, s) = Looking(c, s) + Looking(dups, s)
        BY <4>3, <4>6, <1>2
      <4> QED BY <4>3, <4>4, <4>5, <4>6, <4>7, <4>8, <2>2
    <3> QED BY <3>1, <3>2
  <2> HIDE DEF new, end, dups
  <2>10. Gives(m, h, Octets(m, new)) /\ h.chain = new
    <3>1. total = Total(new)
      BY <2>6, <2>9, <1>0
    <3>2. i - 1 \in 0..i - 1
      BY <2>2
    <3>3. Sums(new)[i - 1] = Sums(c)[i - 1]
      BY <3>2, <2>9
    <3>4. total \in Nat /\ end \in Nat
      <4>1. Total(new) \in Nat
        <5>1. Len(new) \in 0..Len(new)
          BY <2>9, SizesInNat
        <5> QED BY <5>1, <2>9, SumsFacts DEF Total
      <4> QED BY <3>1, <4>1, <2>9
    <3>5. PICK u \in Heads : u = l
      BY LookedRight DEF l, a, Sound
    <3>6. PICK e \in Nat, t \in Nat : e = end /\ t = total
      BY <3>4
    <3> HIDE DEF total, i, x, within, O
    <3>7. h = [u EXCEPT !.chain = new, !.cached_end_ubuf = e, !.total_size = t]
      BY <3>5, <3>6, <2>7
    <3>8. /\ h \in Heads /\ h.chain = new /\ h.total_size = t /\ h.cached_end_ubuf = e
          /\ h.cached_ubuf = u.cached_ubuf /\ h.cached_offset = u.cached_offset
      BY <3>7, <2>9 DEF Heads
    <3>9. /\ h.total_size = Total(h.chain) /\ Within(m, h.chain)
          /\ Get(b, o).seg \in 1..Len(h.chain) /\ h.cached_end_ubuf \in 1..Len(h.chain)
          /\ h.cached_ubuf = Looked(b, o).cached_ubuf
          /\ h.cached_offset = Looked(b, o).cached_offset
          /\ Sums(h.chain)[Get(b, o).seg - 1] = Sums(b.chain)[Get(b, o).seg - 1]
          /\ Get(b, o) # NULL
      BY <3>1, <3>3, <3>5, <3>6, <3>8, <2>9, <1>4 DEF i, g, c, l
    <3>10. Gives(m, h, Octets(m, h.chain))
      BY <3>8, <3>9, ChangedRight
    <3> QED BY <3>8, <3>10
  <2> QED BY <2>3, <2>8, <2>9, <2>10, <1>4 DEF g, a, size, c, dups
<1> QED BY <1>3, <1>4

(* Truncation: the octets before the one given, in a sound head.           *)
LEMMA TruncatedRight ==
    ASSUME NEW m \in Memories, NEW b, Sound(b), Within(m, b.chain), NEW o \in Nat,
           o > 0 => ~Astray(b, o - 1)
    PROVE  LET t == Truncated(b, o)
               O == Octets(m, b.chain)
           IN  /\ t.ok \in BOOLEAN /\ (t.ok <=> o <= b.total_size)
               /\ Gives(m, t.head, IF t.ok THEN SubSeq(O, 1, o) ELSE O)
               /\ t.head.total_size = IF t.ok THEN o ELSE b.total_size
               /\ t.gone \in Seq(Views)
               /\ \A s : Looking(b.chain, s) = Looking(t.head.chain, s) + Looking(t.gone, s)
<1> DEFINE t == Truncated(b, o)
           g == Get(b, o - 1)
           c == b.chain
           O == Octets(m, c)
           i == IF o = 0 THEN 1 ELSE g.seg
           n == IF o = 0 THEN 0 ELSE g.offset + 1
<1>0. /\ b \in Heads /\ c \in Seq(Views) /\ Len(c) \in Nat /\ Len(c) > 0
      /\ b.total_size \in Nat /\ b.total_size = Total(c) /\ 1 \in 1..Len(c) /\ Sums(c)[0] = 0
  BY SoundFacts
<1>2. \A s : <<>> \in Seq(Views) /\ Looking(<<>>, s) = 0 /\ Looking(c, s) \in Nat
  BY <1>0, LookingEmpty, LookersFinite
<1>3. o > 0 => Absolute(b, o - 1) = o - 1 /\ o - 1 \in Nat
  BY DEF Absolute
<1>4. o > 0 => IF o <= b.total_size THEN Found(c, o - 1, g) ELSE g = NULL
  <2> SUFFICES ASSUME o > 0 PROVE IF o <= b.total_size THEN Found(c, o - 1, g) ELSE g = NULL
    OBVIOUS
  <2>1. PICK p \in Int : p = o - 1 /\ p >= 0 /\ ~Astray(b, p) /\ Absolute(b, p) = p /\ (p < b.total_size <=> o <= b.total_size)
    BY <1>0, <1>3
  <2>2. IF Absolute(b, p) < b.total_size THEN Found(c, Absolute(b, p), Get(b, p)) ELSE Get(b, p) = NULL
    BY <2>1, GetRight
  <2> QED BY <2>1, <2>2
<1>5. CASE ~(o <= b.total_size)
  <2>1. o > 0 /\ g = NULL
    BY <1>4, <1>5, <1>0
  <2>2. t = [head |-> b, gone |-> <<>>, ok |-> FALSE]
    BY <2>1 DEF Truncated
  <2>3. t.head = b /\ t.gone = <<>> /\ t.ok = FALSE
    BY <2>2
  <2> HIDE DEF t
  <2>4. Gives(m, t.head, O)
    BY <2>3 DEF Gives
  <2>5. \A s : Looking(c, s) = Looking(c, s) + 0
    BY <1>2
  <2>6. \A s : Looking(c, s) = Looking(t.head.chain, s) + Looking(t.gone, s)
    BY <2>3, <2>5, <1>2
  <2>7. t.ok \in BOOLEAN /\ (t.ok <=> o <= b.total_size)
    BY <2>3, <1>5
  <2>8. Gives(m, t.head, IF t.ok THEN SubSeq(O, 1, o) ELSE O)
    BY <2>3, <2>4
  <2>9. t.gone \in Seq(Views) /\ t.head.total_size = IF t.ok THEN o ELSE b.total_size
    BY <2>3, <1>2
  <2> QED BY <2>6, <2>7, <2>8, <2>9 DEF t
<1>6. CASE o <= b.total_size
  <2>1. /\ i \in 1..Len(c) /\ n \in Nat /\ n <= c[i].size /\ Sums(c)[i - 1] + n = o
        /\ ~(o > 0 /\ g = NULL)
    <3>1. CASE o = 0
      <4>1. i = 1 /\ n = 0 /\ c[1].size \in Nat /\ Sums(c)[1 - 1] = 0
        BY <3>1, <1>0, SizesInNat
      <4>2. 0 <= c[1].size /\ 0 + 0 = 0
        BY <4>1
      <4> HIDE DEF i, n, g, c
      <4> QED BY <4>1, <4>2, <3>1, <1>0
    <3>2. CASE o # 0
      <4>0. o > 0 /\ o - 1 \in Int
        BY <3>2
      <4>1. Found(c, o - 1, g)
        BY <4>0, <1>4, <1>6
      <4> HIDE DEF g, c
      <4>2. /\ g # NULL /\ g.seg \in 1..Len(c) /\ g.offset \in Nat /\ g.offset < c[g.seg].size
            /\ c[g.seg].size \in Nat /\ Sums(c)[g.seg - 1] \in Nat
            /\ o - 1 = Sums(c)[g.seg - 1] + g.offset
        BY <4>0, <4>1, <1>0, FoundFacts
      <4>3. i = g.seg /\ n = g.offset + 1
        BY <3>2
      <4> HIDE DEF i, n
      <4>4. PICK x \in Nat, y \in Nat, z \in Nat : x = Sums(c)[g.seg - 1] /\ y = g.offset /\ z = c[g.seg].size
        BY <4>2
      <4>6. y < z /\ o - 1 = x + y
        BY <4>2, <4>4
      <4>5. y + 1 \in Nat /\ y + 1 <= z /\ x + (y + 1) = o
        BY <4>6
      <4> QED BY <4>2, <4>3, <4>4, <4>5
    <3> QED BY <3>1, <3>2
  <2> DEFINE d == Trimmed(c, i, n)
             gone == SubSeq(c, i + 1, Len(c))
  <2>2. t = [head |-> [NewHead(d, o) EXCEPT !.cached_end_ubuf = i], gone |-> gone, ok |-> TRUE]
    BY <2>1 DEF Truncated, Trimmed
  <2>3. /\ d \in Seq(Views) /\ Len(d) = i /\ Total(d) = Sums(c)[i - 1] + n
        /\ Within(m, d) /\ Octets(m, d) = SubSeq(O, 1, Sums(c)[i - 1] + n)
        /\ \A s : Looking(c, s) = Looking(d, s) + Looking(gone, s)
    <3> HIDE DEF i, n, c
    <3>1. PICK e \in Seq(Views) : e = c
      BY <1>0
    <3>2. PICK k \in 1..Len(e), y \in Nat : k = i /\ y = n /\ y <= e[k].size
      BY <2>1, <3>1
    <3>3. Within(m, e)
      BY <3>1 DEF c
    <3> DEFINE w == Trimmed(e, k, y)
    <3>4. /\ w \in Seq(Views) /\ Len(w) = k /\ Total(w) = Sums(e)[k - 1] + y
          /\ Within(m, w) /\ Octets(m, w) = SubSeq(Octets(m, e), 1, Sums(e)[k - 1] + y)
          /\ \A s : Looking(e, s) = Looking(w, s) + Looking(SubSeq(e, k + 1, Len(e)), s)
      BY <3>2, <3>3, TrimmedRight
    <3>5. w = d
      BY <3>1, <3>2
    <3> HIDE DEF w, d
    <3> QED BY <3>1, <3>2, <3>4, <3>5
  <2> HIDE DEF d, c, g
  <2>4. PICK u : u = NewHead(d, o)
    OBVIOUS
  <2>5. Sound(u) /\ u.chain = d /\ u.total_size = o
    <3>1. Len(d) > 0 /\ o = Total(d)
      BY <2>1, <2>3
    <3> QED BY <3>1, <2>3, <2>4, NewHeadRight
  <2>6. u.cached_ubuf = 1 /\ u.cached_offset = 0 /\ u \in Heads
    BY <2>4, <2>5 DEF NewHead, Sound
  <2>7. PICK e \in Nat : e = i /\ e \in 1..Len(d)
    BY <2>1, <2>3, <1>0
  <2>8. PICK h : h = [u EXCEPT !.cached_end_ubuf = e]
    OBVIOUS
  <2>9. /\ h \in Heads /\ h.chain = u.chain /\ h.total_size = u.total_size
        /\ h.cached_ubuf = u.cached_ubuf /\ h.cached_offset = u.cached_offset
        /\ h.cached_end_ubuf = e
    BY <2>6, <2>8 DEF Heads
  <2>10. Sound(h)
    BY <2>5, <2>7, <2>9 DEF Sound, Cached
  <2>11. t.head = h /\ t.gone = gone /\ t.ok = TRUE
    <3> HIDE DEF i, n, gone
    <3>1. [NewHead(d, o) EXCEPT !.cached_end_ubuf = i] = h
      BY <2>4, <2>7, <2>8
    <3>2. t = [head |-> h, gone |-> gone, ok |-> TRUE]
      BY <2>2, <3>1
    <3> HIDE DEF t
    <3> QED BY <3>2
  <2>12. gone \in Seq(Views)
    BY <2>1, <1>0, ChainParts
  <2> HIDE DEF t, gone, i, n
  <2>13. Gives(m, h, SubSeq(O, 1, o))
    BY <2>1, <2>3, <2>5, <2>9, <2>10 DEF Gives
  <2> QED BY <2>3, <2>5, <2>9, <2>11, <2>12, <2>13, <1>6 DEF t, c
<1> QED BY <1>0, <1>5, <1>6

(* A and B are the two parts of the chain of b, cut at octet a, which is in*)
(* segment i.                                                              *)
Cut(m, b, a, i, A, B) ==
    /\ i \in 1..Len(b.chain) /\ a \in Nat /\ a < b.total_size
    /\ A \in Seq(Views) /\ Len(A) = i /\ Sums(A)[i - 1] = Sums(b.chain)[i - 1] /\ Total(A) = a
    /\ B \in Seq(Views) /\ Len(B) = Len(b.chain) + 1 - i /\ Total(B) = Total(b.chain) - a
    /\ Within(m, A) /\ Octets(m, A) = SubSeq(Octets(m, b.chain), 1, a)
    /\ Within(m, B) /\ Octets(m, B) = SubSeq(Octets(m, b.chain), a + 1, Total(b.chain))
    /\ b.chain[i] \in Views
    /\ \A s : Looking(A, s) + Looking(B, s) = Looking(b.chain, s) + Looking(<<b.chain[i]>>, s)
    /\ \A s : Looking(<<b.chain[i]>>, s) > 0 => Looking(b.chain, s) > 0

(* The cut of a sound chain gives two such parts.                          *)
LEMMA CutThere ==
    ASSUME NEW m \in Memories, NEW b, Sound(b), Within(m, b.chain),
           NEW o \in Int, Absolute(b, o) >= 0, ~Astray(b, o), Get(b, o) # NULL,
           NEW i, i = Get(b, o).seg, NEW d, d = Sliced(b.chain, i, Get(b, o).offset)
    PROVE  Cut(m, b, Absolute(b, o), i, SubSeq(d, 1, i), SubSeq(d, i + 1, Len(d)))
<1> DEFINE a == Absolute(b, o)
           g == Get(b, o)
<1>0. /\ b.chain \in Seq(Views) /\ Len(b.chain) \in Nat
      /\ b.total_size \in Nat /\ b.total_size = Total(b.chain)
  BY SoundFacts
<1>1. Found(b.chain, a, g) /\ a < b.total_size
  BY GetRight
<1>2. a \in Int /\ a >= 0
  BY <1>0 DEF Absolute
<1> HIDE DEF a, g
<1>3. PICK c \in Seq(Views) : c = b.chain
  BY <1>0
<1>4. /\ i \in 1..Len(c) /\ g.offset \in Nat /\ g.offset < c[i].size /\ c[i].size \in Nat
      /\ c[i] \in Views /\ a = Sums(c)[i - 1] + g.offset
  BY <1>1, <1>2, <1>3, FoundFacts DEF g
<1>5. PICK k \in 1..Len(c), x \in Nat : k = i /\ x = g.offset /\ x <= c[k].size
  BY <1>4
<1> DEFINE e == Sliced(c, k, x)
           P == SubSeq(e, 1, k)
           Q == SubSeq(e, k + 1, Len(e))
           A == SubSeq(d, 1, i)
           B == SubSeq(d, i + 1, Len(d))
<1>6. Within(m, c)
  BY <1>3
<1>7. /\ P \in Seq(Views) /\ Len(P) = k
      /\ \A j \in 0..k - 1 : Sums(P)[j] = Sums(c)[j]
      /\ Total(P) = Sums(c)[k - 1] + x
      /\ Q \in Seq(Views) /\ Len(Q) = Len(c) + 1 - k
      /\ Total(Q) = Total(c) - (Sums(c)[k - 1] + x)
      /\ \A s : Looking(P, s) + Looking(Q, s) = Looking(c, s) + Looking(<<c[k]>>, s)
  BY <1>5, Halves, SMTT(60)
<1>8. /\ Within(m, P) /\ Octets(m, P) = SubSeq(Octets(m, c), 1, Sums(c)[k - 1] + x)
      /\ Within(m, Q) /\ Octets(m, Q) = SubSeq(Octets(m, c), Sums(c)[k - 1] + x + 1, Total(c))
  BY <1>5, <1>6, OctetsOfHalves
<1>9. A = P /\ B = Q
  BY <1>3, <1>5 DEF g
<1> HIDE DEF P, Q, A, B, e
<1>10. a = Sums(c)[k - 1] + x /\ i = k
  BY <1>4, <1>5
<1>11. k - 1 \in 0..k - 1
  BY <1>5
<1>12. ASSUME NEW s, Looking(<<c[i]>>, s) > 0 PROVE Looking(c, s) > 0
  <2>1. c[i].shared = s
    BY <1>12, <1>4, LookingOne
  <2>2. Looking(c, s) # 0
    BY <2>1, <1>4, LookingNone
  <2>3. Looking(c, s) \in Nat
    BY LookersFinite
  <2> QED BY <2>2, <2>3
<1>13. Sums(P)[k - 1] = Sums(c)[k - 1]
  BY <1>7, <1>11
<1>14. a \in Nat /\ a < b.total_size
  BY <1>1, <1>2
<1> QED BY <1>3, <1>4, <1>7, <1>8, <1>9, <1>10, <1>12, <1>13, <1>14, ZenonT(60) DEF a, Cut, A, B

(* What a head becomes when another chain is inserted in its own.          *)
InsertedHead(b, o, e) ==
    LET i == Get(b, o).seg
        cut == Sliced(b.chain, i, Get(b, o).offset)
    IN  [Looked(b, o) EXCEPT
           !.chain = SubSeq(cut, 1, i) \o e.chain \o SubSeq(cut, i + 1, Len(cut)),
           !.total_size = @ + e.total_size,
           !.cached_end_ubuf = Moved(@, i, Len(e.chain) + 1)]

(* Insertion: the octets of the one within those of the other.             *)
LEMMA InsertedRight ==
    ASSUME NEW m \in Memories, NEW b, Sound(b), Within(m, b.chain),
           NEW e, Sound(e), Within(m, e.chain),
           NEW o \in Int, Absolute(b, o) >= 0, ~Astray(b, o), Get(b, o) # NULL
    PROVE  LET s == b.chain[Get(b, o).seg]
               a == Absolute(b, o)
               O == Octets(m, b.chain)
               h == InsertedHead(b, o, e)
           IN  /\ Gives(m, h, SubSeq(O, 1, a) \o Octets(m, e.chain) \o SubSeq(O, a + 1, Total(b.chain)))
               /\ s \in Views
               /\ \A v : Looking(h.chain, v)
                          = Looking(b.chain, v) + Looking(e.chain, v) + Looking(<<s>>, v)
               /\ \A v : Looking(<<s>>, v) > 0 => Looking(b.chain, v) > 0
<1> DEFINE l == Looked(b, o)
           c == b.chain
           i == Get(b, o).seg
           new == e.chain
           a == Absolute(b, o)
           O == Octets(m, c)
           cut == Sliced(c, i, Get(b, o).offset)
           A == SubSeq(cut, 1, i)
           B == SubSeq(cut, i + 1, Len(cut))
           d == (A \o new) \o B
           total == l.total_size + e.total_size
           end == Moved(l.cached_end_ubuf, i, Len(new) + 1)
<1>0. /\ c \in Seq(Views) /\ Len(c) \in Nat
      /\ b.total_size \in Nat /\ b.total_size = Total(c)
      /\ new \in Seq(Views) /\ Len(new) \in Nat
      /\ e.total_size \in Nat /\ e.total_size = Total(new)
  BY SoundFacts
<1>1. /\ i \in 1..Len(c) /\ a \in Nat /\ a < b.total_size
      /\ A \in Seq(Views) /\ Len(A) = i /\ Sums(A)[i - 1] = Sums(c)[i - 1] /\ Total(A) = a
      /\ B \in Seq(Views) /\ Len(B) = Len(c) + 1 - i /\ Total(B) = Total(c) - a
      /\ Within(m, A) /\ Octets(m, A) = SubSeq(O, 1, a)
      /\ Within(m, B) /\ Octets(m, B) = SubSeq(O, a + 1, Total(c))
      /\ c[i] \in Views
      /\ \A s : Looking(A, s) + Looking(B, s) = Looking(c, s) + Looking(<<c[i]>>, s)
      /\ \A s : Looking(<<c[i]>>, s) > 0 => Looking(c, s) > 0
  <2>1. PICK j, e2 : j = Get(b, o).seg /\ e2 = Sliced(b.chain, j, Get(b, o).offset)
    OBVIOUS
  <2>2. Cut(m, b, Absolute(b, o), j, SubSeq(e2, 1, j), SubSeq(e2, j + 1, Len(e2)))
    BY <2>1, CutThere
  <2>3. A = SubSeq(e2, 1, j) /\ B = SubSeq(e2, j + 1, Len(e2)) /\ i = j
    BY <2>1
  <2>4. Cut(m, b, a, i, A, B)
    BY <2>2, <2>3
  <2> HIDE DEF A, B, i, a, cut
  <2> QED BY <2>4 DEF Cut
<1>2. /\ l \in Heads /\ l.total_size = b.total_size /\ l.cached_end_ubuf \in 1..Len(c)
  BY LookedRight, SoundFacts DEF Sound
<1> HIDE DEF A, B, c, new
<1>3. /\ A \o new \in Seq(Views) /\ Len(A \o new) = Len(A) + Len(new)
      /\ \A k \in 0..Len(A) : Sums(A \o new)[k] = Sums(A)[k]
      /\ Total(A \o new) = Total(A) + Total(new)
  BY <1>0, <1>1, SumsOfConcat
<1>4. Within(m, A \o new) /\ Octets(m, A \o new) = Octets(m, A) \o Octets(m, new)
  <2>1. Within(m, new)
    BY DEF new
  <2> QED BY <2>1, <1>0, <1>1, OctetsOfConcat
<1>5. PICK v \in Seq(Views) : v = A \o new
  BY <1>3
<1>6. /\ d \in Seq(Views) /\ Len(d) = Len(v) + Len(B)
      /\ \A k \in 0..Len(v) : Sums(d)[k] = Sums(v)[k]
      /\ Total(d) = Total(v) + Total(B)
  BY <1>1, <1>5, SumsOfConcat
<1>7. Within(m, d) /\ Octets(m, d) = Octets(m, v) \o Octets(m, B)
  BY <1>1, <1>4, <1>5, OctetsOfConcat
<1>8. ASSUME NEW s PROVE Looking(d, s) = Looking(c, s) + Looking(new, s) + Looking(<<c[i]>>, s)
  <2>1. Looking(d, s) = Looking(v, s) + Looking(B, s)
    BY <1>1, <1>5, LookingConcat
  <2>2. Looking(v, s) = Looking(A, s) + Looking(new, s)
    BY <1>0, <1>1, <1>5, LookingConcat
  <2>3. PICK x \in Nat, y \in Nat, z \in Nat, p \in Nat, q \in Nat :
          /\ x = Looking(A, s) /\ y = Looking(B, s) /\ z = Looking(new, s)
          /\ p = Looking(c, s) /\ q = Looking(<<c[i]>>, s)
    <3>1. <<c[i]>> \in Seq(Views)
      BY <1>1
    <3> HIDE DEF i
    <3> QED BY <3>1, <1>0, <1>1, LookersFinite
  <2>4. x + y = p + q
    BY <2>3, <1>1
  <2>5. (x + z) + y = p + z + q
    BY <2>4
  <2> HIDE DEF d, i
  <2> QED BY <2>1, <2>2, <2>3, <2>5
<1> HIDE DEF d, l, a, i
<1>9. Total(d) = total
  <2>1. PICK x \in Nat, y \in Nat, z \in Nat : x = a /\ y = b.total_size /\ z = e.total_size
    BY <1>0, <1>1
  <2>2. Total(A) = x /\ Total(B) = y - x /\ Total(new) = z /\ total = y + z
    BY <2>1, <1>0, <1>1, <1>2
  <2>3. Total(d) = (x + z) + (y - x)
    BY <2>2, <1>3, <1>5, <1>6
  <2>4. (x + z) + (y - x) = y + z
    OBVIOUS
  <2> QED BY <2>2, <2>3, <2>4
<1>10. i \in 1..Len(d) /\ end \in 1..Len(d) /\ end \in Nat
  <2>0. PICK x \in Nat, y \in Nat : x = Len(c) /\ y = Len(new)
    BY <1>0
  <2>7. PICK k \in 1..x, p \in 1..x : k = i /\ p = l.cached_end_ubuf
    <3>1. i \in 1..x /\ l.cached_end_ubuf \in 1..x
      BY <2>0, <1>1, <1>2
    <3> QED BY <3>1
  <2>1. x = Len(c) /\ y = Len(new) /\ k = i /\ p = l.cached_end_ubuf
    BY <2>0, <2>7
  <2>2. Len(d) = (k + y) + (x + 1 - k)
    BY <2>1, <1>1, <1>3, <1>5, <1>6
  <2>3. Len(d) = x + (y + 1)
    BY <2>1, <2>2
  <2>4. y + 1 \in Nat
    OBVIOUS
  <2>5. Moved(p, k, y + 1) \in 1..x + (y + 1) /\ k \in 1..x + (y + 1)
    BY <2>1 DEF Moved
  <2>6. end = Moved(p, k, y + 1)
    BY <2>1
  <2> QED BY <2>1, <2>3, <2>5, <2>6
<1>11. Sums(d)[i - 1] = Sums(c)[i - 1]
  <2>1. i - 1 \in 0..Len(A) /\ i - 1 \in 0..Len(v)
    <3>1. PICK x \in Nat, y \in Nat : x = Len(c) /\ y = Len(new)
      BY <1>0
    <3>2. PICK k \in 1..x : k = i
      BY <3>1, <1>1
    <3>3. Len(A) = k /\ Len(v) = k + y
      BY <3>1, <3>2, <1>1, <1>3, <1>5
    <3>4. k - 1 \in 0..k /\ k - 1 \in 0..k + y
      OBVIOUS
    <3> QED BY <3>2, <3>3, <3>4
  <2>2. Sums(d)[i - 1] = Sums(v)[i - 1] /\ Sums(v)[i - 1] = Sums(A)[i - 1]
    BY <2>1, <1>3, <1>5, <1>6
  <2> QED BY <2>2, <1>1
<1> DEFINE r == [l EXCEPT !.chain = d, !.total_size = @ + e.total_size,
                          !.cached_end_ubuf = Moved(@, i, Len(new) + 1)]
<1>12. PICK h : h = r
  OBVIOUS
<1>13. total \in Nat
  BY <1>0, <1>2
<1>14. /\ h \in Heads /\ h.chain = d /\ h.total_size = total /\ h.cached_end_ubuf = end
       /\ h.cached_ubuf = l.cached_ubuf /\ h.cached_offset = l.cached_offset
  <2>1. PICK u \in Heads : u = l
    BY <1>2
  <2>2. PICK x \in Nat, y \in Nat : x = total /\ y = end
    BY <1>10, <1>13
  <2>3. h = [u EXCEPT !.chain = d, !.total_size = x, !.cached_end_ubuf = y]
    <3>1. h = [l EXCEPT !.chain = d, !.total_size = total, !.cached_end_ubuf = end]
      BY <1>12
    <3> HIDE DEF total, end
    <3> QED BY <3>1, <2>1, <2>2
  <2>4. /\ h \in Heads /\ h.chain = d /\ h.total_size = x /\ h.cached_end_ubuf = y
        /\ h.cached_ubuf = u.cached_ubuf /\ h.cached_offset = u.cached_offset
    BY <2>3, <1>6 DEF Heads
  <2> QED BY <2>1, <2>2, <2>4
<1> HIDE DEF total, end, r
<1>15. Gives(m, h, Octets(m, h.chain))
  <2>1. /\ h.total_size = Total(h.chain) /\ Within(m, h.chain)
        /\ Get(b, o).seg \in 1..Len(h.chain) /\ h.cached_end_ubuf \in 1..Len(h.chain)
        /\ h.cached_ubuf = Looked(b, o).cached_ubuf
        /\ h.cached_offset = Looked(b, o).cached_offset
        /\ Sums(h.chain)[Get(b, o).seg - 1] = Sums(b.chain)[Get(b, o).seg - 1]
    BY <1>7, <1>9, <1>10, <1>11, <1>14 DEF i, l, c
  <2> QED BY <2>1, <1>14, ChangedRight
<1>16. Gives(m, h, SubSeq(O, 1, a) \o Octets(m, new) \o SubSeq(O, a + 1, Total(c)))
  BY <1>1, <1>4, <1>5, <1>7, <1>14, <1>15
<1>17. c[i] \in Views /\ \A s : Looking(<<c[i]>>, s) > 0 => Looking(c, s) > 0
  BY <1>1
<1>18. \A s : Looking(h.chain, s) = Looking(c, s) + Looking(new, s) + Looking(<<c[i]>>, s)
  BY <1>8, <1>14
<1> QED BY <1>12, <1>16, <1>17, <1>18 DEF InsertedHead, r, d, c, i, new, a, l, A, B

(* What a head becomes when its chain is split, and the head of the rest.  *)
SplitHead(b, o) ==
    [Looked(b, o) EXCEPT
       !.chain = SubSeq(Sliced(b.chain, Get(b, o).seg, Get(b, o).offset), 1, Get(b, o).seg),
       !.total_size = Absolute(b, o),
       !.cached_end_ubuf = Get(b, o).seg]
SplitRest(b, o) ==
    LET cut == Sliced(b.chain, Get(b, o).seg, Get(b, o).offset)
    IN  NewHead(SubSeq(cut, Get(b, o).seg + 1, Len(cut)), b.total_size - Absolute(b, o))

(* Splitting: the octets before the cut, and those after it.               *)
LEMMA SplitRight ==
    ASSUME NEW m \in Memories, NEW b, Sound(b), Within(m, b.chain),
           NEW o \in Int, Absolute(b, o) >= 0, ~Astray(b, o), Get(b, o) # NULL
    PROVE  LET s == b.chain[Get(b, o).seg]
               a == Absolute(b, o)
               O == Octets(m, b.chain)
               h == SplitHead(b, o)
               t == SplitRest(b, o)
           IN  /\ Gives(m, h, SubSeq(O, 1, a)) /\ Gives(m, t, SubSeq(O, a + 1, Total(b.chain)))
               /\ s \in Views
               /\ \A v : Looking(h.chain, v) + Looking(t.chain, v)
                          = Looking(b.chain, v) + Looking(<<s>>, v)
               /\ \A v : Looking(<<s>>, v) > 0 => Looking(b.chain, v) > 0
<1> DEFINE l == Looked(b, o)
           c == b.chain
           i == Get(b, o).seg
           a == Absolute(b, o)
           O == Octets(m, c)
           cut == Sliced(c, i, Get(b, o).offset)
           A == SubSeq(cut, 1, i)
           B == SubSeq(cut, i + 1, Len(cut))
           t == NewHead(B, b.total_size - a)
<1>0. /\ c \in Seq(Views) /\ Len(c) \in Nat
      /\ b.total_size \in Nat /\ b.total_size = Total(c)
  BY SoundFacts
<1>1. Cut(m, b, a, i, A, B)
  <2>1. PICK j, e2 : j = Get(b, o).seg /\ e2 = Sliced(b.chain, j, Get(b, o).offset)
    OBVIOUS
  <2>2. Cut(m, b, Absolute(b, o), j, SubSeq(e2, 1, j), SubSeq(e2, j + 1, Len(e2)))
    BY <2>1, CutThere
  <2>3. A = SubSeq(e2, 1, j) /\ B = SubSeq(e2, j + 1, Len(e2)) /\ i = j
    BY <2>1
  <2> QED BY <2>2, <2>3
<1> HIDE DEF A, B, i, a, cut
<1>2. /\ i \in 1..Len(c) /\ a \in Nat /\ a < b.total_size
      /\ A \in Seq(Views) /\ Len(A) = i /\ Sums(A)[i - 1] = Sums(c)[i - 1] /\ Total(A) = a
      /\ B \in Seq(Views) /\ Len(B) = Len(c) + 1 - i /\ Total(B) = Total(c) - a
      /\ Within(m, A) /\ Octets(m, A) = SubSeq(O, 1, a)
      /\ Within(m, B) /\ Octets(m, B) = SubSeq(O, a + 1, Total(c))
      /\ c[i] \in Views
      /\ \A s : Looking(A, s) + Looking(B, s) = Looking(c, s) + Looking(<<c[i]>>, s)
      /\ \A s : Looking(<<c[i]>>, s) > 0 => Looking(c, s) > 0
  BY <1>1 DEF Cut
<1> HIDE DEF c
<1>3. PICK u \in Heads : u = l
  BY LookedRight DEF Sound
<1>4. PICK h : h = [l EXCEPT !.chain = A, !.total_size = a, !.cached_end_ubuf = i]
  OBVIOUS
<1>5. /\ h \in Heads /\ h.chain = A /\ h.total_size = a /\ h.cached_end_ubuf = i
      /\ h.cached_ubuf = l.cached_ubuf /\ h.cached_offset = l.cached_offset
  <2>4. i \in Nat /\ a \in Nat
    BY <1>0, <1>2
  <2>1. PICK x \in Nat, y \in Nat : x = a /\ y = i
    BY <2>4
  <2>2. h = [u EXCEPT !.chain = A, !.total_size = x, !.cached_end_ubuf = y]
    BY <2>1, <1>3, <1>4
  <2>3. /\ h \in Heads /\ h.chain = A /\ h.total_size = x /\ h.cached_end_ubuf = y
        /\ h.cached_ubuf = u.cached_ubuf /\ h.cached_offset = u.cached_offset
    BY <2>2, <1>2 DEF Heads
  <2> QED BY <2>1, <2>3, <1>3
<1>6. Gives(m, h, Octets(m, h.chain))
  <2>1. i \in 1..i
    BY <1>2, <1>0
  <2>2. /\ h.total_size = Total(h.chain) /\ Within(m, h.chain)
        /\ Get(b, o).seg \in 1..Len(h.chain) /\ h.cached_end_ubuf \in 1..Len(h.chain)
        /\ h.cached_ubuf = Looked(b, o).cached_ubuf
        /\ h.cached_offset = Looked(b, o).cached_offset
        /\ Sums(h.chain)[Get(b, o).seg - 1] = Sums(b.chain)[Get(b, o).seg - 1]
    BY <2>1, <1>2, <1>5 DEF i, l, c
  <2> QED BY <2>2, <1>5, ChangedRight
<1>7. Gives(m, t, SubSeq(O, a + 1, Total(c))) /\ t.chain = B
  <2>7. PICK x \in Nat : x = Len(c)
    BY <1>0
  <2>1. PICK k \in 1..x : k = i
    BY <2>7, <1>2
  <2>2. Len(B) > 0
    BY <2>1, <2>7, <1>2
  <2>3. b.total_size - a = Total(B)
    BY <1>0, <1>2 DEF c
  <2>4. PICK z : z = b.total_size - a
    OBVIOUS
  <2>5. Sound(NewHead(B, z)) /\ NewHead(B, z).chain = B
    BY <2>2, <2>3, <2>4, <1>2, NewHeadRight
  <2>6. Sound(t) /\ t.chain = B
    BY <2>4, <2>5
  <2> QED BY <2>6, <1>2 DEF Gives
<1>8. Gives(m, h, SubSeq(O, 1, a))
  BY <1>2, <1>5, <1>6
<1> HIDE DEF t
<1>9. \A s : Looking(h.chain, s) + Looking(t.chain, s) = Looking(c, s) + Looking(<<c[i]>>, s)
  BY <1>2, <1>5, <1>7
<1> QED BY <1>2, <1>4, <1>7, <1>8, <1>9 DEF SplitHead, SplitRest, l, t, A, B, i, a, cut, c

(* What a head becomes when another chain is put after its own.            *)
Appended(b, e) ==
    [b EXCEPT !.chain = @ \o e.chain, !.total_size = @ + e.total_size,
              !.cached_end_ubuf = Len(b.chain) + 1]

(* Appending: the octets of the one, then those of the other.              *)
LEMMA AppendedRight ==
    ASSUME NEW m \in Memories, NEW b, Sound(b), Within(m, b.chain),
           NEW e, Sound(e), Within(m, e.chain)
    PROVE  LET h == Appended(b, e)
           IN  /\ Gives(m, h, Octets(m, b.chain) \o Octets(m, e.chain))
               /\ \A s : Looking(h.chain, s) = Looking(b.chain, s) + Looking(e.chain, s)
<1>0. /\ b \in Heads /\ b.chain \in Seq(Views) /\ Len(b.chain) \in Nat
      /\ b.total_size \in Nat /\ b.total_size = Total(b.chain) /\ b.cached_ubuf \in 1..Len(b.chain)
      /\ e.chain \in Seq(Views) /\ Len(e.chain) \in Nat /\ Len(e.chain) > 0
      /\ e.total_size \in Nat /\ e.total_size = Total(e.chain)
  BY SoundFacts
<1>1. PICK c \in Seq(Views), d \in Seq(Views) : c = b.chain /\ d = e.chain
  BY <1>0
<1> DEFINE v == c \o d
<1>2. /\ v \in Seq(Views) /\ Len(v) = Len(c) + Len(d)
      /\ \A k \in 0..Len(c) : Sums(v)[k] = Sums(c)[k]
      /\ Total(v) = Total(c) + Total(d)
  BY SumsOfConcat
<1>3. Within(m, v) /\ Octets(m, v) = Octets(m, c) \o Octets(m, d)
  BY <1>1, OctetsOfConcat
<1>4. \A s : Looking(v, s) = Looking(c, s) + Looking(d, s)
  BY LookingConcat
<1> HIDE DEF v
<1>5. PICK h : h = [b EXCEPT !.chain = @ \o e.chain, !.total_size = @ + e.total_size,
                             !.cached_end_ubuf = Len(b.chain) + 1]
  OBVIOUS
<1>6. PICK x \in Nat, y \in Nat : x = b.total_size + e.total_size /\ y = Len(b.chain) + 1
  <2>1. b.total_size + e.total_size \in Nat /\ Len(b.chain) + 1 \in Nat
    BY <1>0
  <2> QED BY <2>1
<1>7. h = [b EXCEPT !.chain = v, !.total_size = x, !.cached_end_ubuf = y]
  BY <1>1, <1>5, <1>6 DEF v
<1>8. /\ h \in Heads /\ h.chain = v /\ h.total_size = x /\ h.cached_end_ubuf = y
      /\ h.cached_ubuf = b.cached_ubuf /\ h.cached_offset = b.cached_offset
  BY <1>0, <1>2, <1>7 DEF Heads
<1>9. Sound(h)
  <2>1. PICK p \in Nat, q \in Nat : p = Len(c) /\ q = Len(d) /\ q > 0
    BY <1>0, <1>1
  <2>2. y = p + 1 /\ Len(v) = p + q
    BY <2>1, <1>1, <1>2, <1>6
  <2>3. PICK k \in 1..p : k = b.cached_ubuf
    BY <2>1, <1>0, <1>1
  <2>4. /\ y \in 1..p + q /\ k \in 1..p + q /\ k - 1 \in 0..p /\ p + q > 0
    BY <2>1, <2>2
  <2>5. Sums(v)[k - 1] = Sums(c)[k - 1]
    BY <2>1, <2>4, <1>2
  <2>6. x = Total(v)
    BY <1>0, <1>1, <1>2, <1>6
  <2> QED BY <2>2, <2>3, <2>4, <2>5, <2>6, <1>1, <1>8, StaysSound
<1> QED BY <1>1, <1>3, <1>4, <1>5, <1>8, <1>9 DEF Gives, Appended

(* A splice: a sound head on the part asked for, that looks at no other    *)
(* buffer.                                                                 *)
LEMMA SplicedOutRight ==
    ASSUME NEW m \in Memories, NEW b, Sound(b), Within(m, b.chain),
           NEW o \in Int, Absolute(b, o) >= 0, ~Astray(b, o), Get(b, o) # NULL,
           NEW n \in Nat, Absolute(b, o) + n <= b.total_size,
           NEW d, d = Spliced(b.chain, Get(b, o).seg, Get(b, o).offset, n)
    PROVE  /\ Gives(m, NewHead(d, n), SubSeq(Octets(m, b.chain), Absolute(b, o) + 1, Absolute(b, o) + n))
           /\ d \in Seq(Views) /\ NewHead(d, n).chain = d
           /\ \A s : Looking(d, s) > 0 => Looking(b.chain, s) > 0
<1> DEFINE a == Absolute(b, o)
           g == Get(b, o)
<1>0. /\ b.chain \in Seq(Views) /\ Len(b.chain) \in Nat
      /\ b.total_size \in Nat /\ b.total_size = Total(b.chain)
  BY SoundFacts
<1>1. Found(b.chain, a, g) /\ a \in Int
  BY <1>0, GetRight DEF Absolute
<1> HIDE DEF a, g
<1>2. PICK c \in Seq(Views) : c = b.chain
  BY <1>0
<1>3. /\ g.seg \in 1..Len(c) /\ g.offset \in Nat /\ g.offset < c[g.seg].size /\ c[g.seg].size \in Nat
      /\ Sums(c)[g.seg - 1] \in Nat /\ a = Sums(c)[g.seg - 1] + g.offset
  BY <1>1, <1>2, FoundFacts
<1>4. PICK i \in 1..Len(c), x \in Nat : i = g.seg /\ x = g.offset /\ x <= c[i].size /\ a = Sums(c)[i - 1] + x
  BY <1>3
<1>5. Sums(c)[i - 1] + x + n <= Total(c) /\ Within(m, c)
  BY <1>0, <1>2, <1>4 DEF a
<1> DEFINE e == Spliced(c, i, x, n)
<1>6. /\ e \in Seq(Views) /\ Len(e) > 0 /\ Total(e) = n /\ Within(m, e)
      /\ Octets(m, e) = SubSeq(Octets(m, c), Sums(c)[i - 1] + x + 1, Sums(c)[i - 1] + x + n)
      /\ \A s : Looking(e, s) > 0 => Looking(c, s) > 0
  BY <1>4, <1>5, SplicedRight, SMTT(60)
<1>7. e = d
  BY <1>2, <1>4 DEF g
<1> HIDE DEF e
<1>8. Sound(NewHead(d, n)) /\ NewHead(d, n).chain = d
  BY <1>6, <1>7, NewHeadRight
<1> QED BY <1>2, <1>4, <1>6, <1>7, <1>8 DEF Gives, a

(* The invariant: each head is sound and within the memory of its buffers, *)
(* and the references count the segments.                                  *)
BlockTypes == block \in Pointers /\ refs \in [Buffers -> Nat] /\ mem \in Memories
HeadsSound == \A h \in Handles : block[h] # NULL => Sound(block[h]) /\ Within(mem, block[h].chain)
RefsCount == \A s \in Buffers : refs[s] = Cardinality(Seen(block, s))
MemoryHeld == \A s \in Buffers : refs[s] = 0 <=> mem[s] = <<>>

BlockInv == BlockTypes /\ HeadsSound /\ RefsCount /\ MemoryHeld

(* A buffer that a segment of some handle looks at has references.         *)
LEMMA SeenUsed ==
    ASSUME NEW bl \in Pointers, NEW h \in Handles, bl[h] # NULL,
           NEW k \in 1..Len(bl[h].chain)
    PROVE  Cardinality(Seen(bl, bl[h].chain[k].shared)) # 0
<1> DEFINE s == bl[h].chain[k].shared
<1>1. bl[h].chain \in Seq(Views)
  BY DEF Pointers, Heads
<1>2. Looking(bl[h].chain, s) # 0
  BY <1>1, LookingNone
<1>3. Share(bl[h], s) # 0
  BY <1>2 DEF Share
<1> HIDE DEF s
<1>4. /\ Cardinality(Seen(bl, s)) = Share(bl[h], s) + Cardinality({v \in Seen(bl, s) : v[1] # h})
      /\ Share(bl[h], s) \in Nat /\ Cardinality({v \in Seen(bl, s) : v[1] # h}) \in Nat
  BY SeenApart
<1>5. Cardinality(Seen(bl, s)) # 0
  BY <1>3, <1>4
<1> QED BY <1>5 DEF s

(* What an action does to the memory, but for an allocation.               *)
MemoryFollows ==
    /\ \A s \in Buffers : refs[s] = 0 => refs'[s] = 0
    /\ \/ Kept
       \/ mem' = mem /\ \A s \in Buffers : refs'[s] = 0 => refs[s] = 0

(* A chain has the same octets after the action, if it has references.     *)
LEMMA MemoryStays ==
    ASSUME BlockTypes, MemoryFollows, NEW c \in Seq(Views), Within(mem, c),
           \A k \in 1..Len(c) : refs'[c[k].shared] # 0
    PROVE  /\ mem' \in Memories
           /\ Within(mem', c) /\ Octets(mem', c) = Octets(mem, c)
<1>1. mem \in Memories
  BY DEF BlockTypes
<1>2. mem' \in Memories
  <2>1. CASE Kept
    <3>1. \A s \in Buffers : (IF refs'[s] = 0 THEN <<>> ELSE mem[s]) \in Seq(Nat)
      BY <1>1 DEF Memories
    <3> QED BY <2>1, <3>1 DEF Kept, Memories
  <2>2. CASE mem' = mem
    BY <1>1, <2>2
  <2> QED BY <2>1, <2>2 DEF MemoryFollows
<1>3. \A k \in 1..Len(c) : mem'[c[k].shared] = mem[c[k].shared]
  <2> TAKE k \in 1..Len(c)
  <2>1. c[k].shared \in Buffers /\ refs'[c[k].shared] # 0
    BY SizesInNat
  <2>2. CASE Kept
    BY <2>1, <2>2 DEF Kept
  <2>3. CASE mem' = mem
    BY <2>3
  <2> QED BY <2>2, <2>3 DEF MemoryFollows
<1>4. PICK n \in Memories : n = mem'
  BY <1>2
<1>5. Within(n, c) /\ Octets(n, c) = Octets(mem, c)
  BY <1>1, <1>3, <1>4, OctetsElsewhere
<1> QED BY <1>2, <1>4, <1>5

(* The invariant holds after an action that leaves sound heads, counts     *)
(* references right, and frees what has none, and the octets of each handle*)
(* are those that its chain had in the memory there was.                   *)
LEMMA Settled ==
    ASSUME BlockInv, block' \in Pointers, refs' \in [Buffers -> Nat],
           \A h \in Handles : block'[h] # NULL => Sound(block'[h]) /\ Within(mem, block'[h].chain),
           \A s \in Buffers : refs'[s] = Cardinality(Seen(block', s)),
           MemoryFollows
    PROVE  /\ BlockInv'
           /\ \A h \in Handles : block'[h] # NULL =>
                Octets(mem', block'[h].chain) = Octets(mem, block'[h].chain)
<1>0. BlockTypes /\ MemoryHeld
  BY DEF BlockInv
<1>1. ASSUME NEW h \in Handles, block'[h] # NULL
      PROVE  /\ mem' \in Memories /\ Within(mem', block'[h].chain)
             /\ Octets(mem', block'[h].chain) = Octets(mem, block'[h].chain)
  <2>1. PICK bl \in Pointers : bl = block'
    OBVIOUS
  <2>2. PICK c \in Seq(Views) : c = bl[h].chain
    BY <1>1, <2>1 DEF Pointers, Heads
  <2>3. ASSUME NEW k \in 1..Len(c) PROVE refs'[c[k].shared] # 0
    <3>1. Cardinality(Seen(bl, bl[h].chain[k].shared)) # 0
      BY <1>1, <2>1, <2>2, SeenUsed
    <3>2. c[k].shared \in Buffers
      BY SizesInNat
    <3> QED BY <2>1, <2>2, <3>1, <3>2
  <2>4. Within(mem, c)
    BY <1>1, <2>1, <2>2
  <2>5. mem' \in Memories /\ Within(mem', c) /\ Octets(mem', c) = Octets(mem, c)
    BY <1>0, <2>3, <2>4, MemoryStays
  <2> QED BY <2>1, <2>2, <2>5
<1>2. mem' \in Memories
  <2>1. <<>> \in Seq(Views) /\ Len(<<>>) = 0
    OBVIOUS
  <2>2. PICK c \in Seq(Views) : Len(c) = 0
    BY <2>1
  <2>3. Within(mem, c) /\ \A k \in 1..Len(c) : refs'[c[k].shared] # 0
    BY <2>2 DEF Within
  <2> QED BY <1>0, <2>3, MemoryStays
<1>3. BlockTypes'
  BY <1>2 DEF BlockTypes
<1>4. HeadsSound'
  BY <1>1 DEF HeadsSound
<1>5. RefsCount'
  BY DEF RefsCount
<1>6. MemoryHeld'
  <2> SUFFICES ASSUME NEW s \in Buffers PROVE refs'[s] = 0 <=> mem'[s] = <<>>
    BY DEF MemoryHeld
  <2>1. refs[s] = 0 <=> mem[s] = <<>>
    BY <1>0 DEF MemoryHeld
  <2>2. CASE Kept
    BY <2>1, <2>2 DEF Kept, MemoryFollows
  <2>3. CASE mem' = mem /\ \A v \in Buffers : refs'[v] = 0 => refs[v] = 0
    BY <2>1, <2>3 DEF MemoryFollows
  <2> QED BY <2>2, <2>3 DEF MemoryFollows
<1> QED BY <1>1, <1>3, <1>4, <1>5, <1>6 DEF BlockInv

-----------------------------------------------------------------------------
(* One handle changes, or two.                                             *)

Allowed(new) == new # NULL => Sound(new) /\ Within(mem, new.chain)

(* One handle gets the head new: the invariant is about it and the counts. *)
LEMMA OneChanges ==
    ASSUME BlockInv, NEW h \in Handles, NEW new \in Heads \cup {NULL}, Allowed(new),
           block' = [block EXCEPT ![h] = new],
           refs' \in [Buffers -> Int],
           \A s \in Buffers : refs'[s] = refs[s] - Share(block[h], s) + Share(new, s),
           MemoryFollows
    PROVE  /\ BlockInv'
           /\ \A i \in Handles : block'[i] # NULL =>
                Octets(mem', block'[i].chain) = Octets(mem, block'[i].chain)
<1>0. block \in Pointers /\ refs \in [Buffers -> Nat] /\ HeadsSound /\ RefsCount
  BY DEF BlockInv, BlockTypes
<1>1. block' \in Pointers /\ block'[h] = new /\ \A i \in Handles \ {h} : block'[i] = block[i]
  BY <1>0 DEF Pointers
<1>2. \A i \in Handles : block'[i] # NULL => Sound(block'[i]) /\ Within(mem, block'[i].chain)
  BY <1>0, <1>1 DEF Allowed, HeadsSound
<1>3. PICK b2 \in Pointers : b2 = block'
  BY <1>1
<1>4. ASSUME NEW s \in Buffers PROVE refs'[s] = Cardinality(Seen(block', s)) /\ refs'[s] \in Nat
  <2>1. /\ Cardinality(Seen(b2, s)) = Cardinality(Seen(block, s)) - Share(block[h], s) + Share(b2[h], s)
        /\ Share(block[h], s) <= Cardinality(Seen(block, s))
        /\ Cardinality(Seen(block, s)) \in Nat /\ Share(block[h], s) \in Nat /\ Share(b2[h], s) \in Nat
    <3>1. \A i \in Handles \ {h} : b2[i] = block[i]
      BY <1>1, <1>3
    <3> QED BY <1>0, <3>1, RecountedOne
  <2>2. Cardinality(Seen(block, s)) = refs[s]
    BY <1>0 DEF RefsCount
  <2>3. refs'[s] = Cardinality(Seen(b2, s))
    BY <1>1, <1>3, <2>1, <2>2
  <2>4. PICK x \in Nat, y \in Nat, z \in Nat : x = refs[s] /\ y = Share(block[h], s) /\ z = Share(b2[h], s) /\ y <= x
    BY <2>1, <2>2
  <2>5. x - y + z \in Nat
    BY <2>4
  <2> QED BY <1>3, <2>1, <2>2, <2>3, <2>4, <2>5
<1>5. refs' \in [Buffers -> Nat]
  BY <1>4
<1> QED BY <1>1, <1>2, <1>4, <1>5, Settled

(* Two handles get new heads.                                              *)
LEMMA TwoChange ==
    ASSUME BlockInv, NEW h \in Handles, NEW j \in Handles, h # j,
           NEW new \in Heads \cup {NULL}, Allowed(new),
           NEW other \in Heads \cup {NULL}, Allowed(other),
           block'[h] = new, block'[j] = other, block' \in Pointers,
           \A i \in Handles \ {h, j} : block'[i] = block[i],
           refs' \in [Buffers -> Nat],
           \A s \in Buffers : refs'[s] = refs[s] - Share(block[h], s) - Share(block[j], s)
                                           + Share(new, s) + Share(other, s),
           MemoryFollows
    PROVE  /\ BlockInv'
           /\ \A i \in Handles : block'[i] # NULL =>
                Octets(mem', block'[i].chain) = Octets(mem, block'[i].chain)
<1>0. block \in Pointers /\ refs \in [Buffers -> Nat] /\ HeadsSound /\ RefsCount
  BY DEF BlockInv, BlockTypes
<1>2. \A i \in Handles : block'[i] # NULL => Sound(block'[i]) /\ Within(mem, block'[i].chain)
  BY <1>0 DEF Allowed, HeadsSound
<1>3. PICK b2 \in Pointers : b2 = block'
  OBVIOUS
<1>4. ASSUME NEW s \in Buffers PROVE refs'[s] = Cardinality(Seen(block', s))
  <2>1. /\ Cardinality(Seen(b2, s)) = Cardinality(Seen(block, s)) - Share(block[h], s) - Share(block[j], s)
                                        + Share(b2[h], s) + Share(b2[j], s)
    BY <1>0, <1>3, RecountedTwo
  <2>2. Cardinality(Seen(block, s)) = refs[s]
    BY <1>0 DEF RefsCount
  <2> QED BY <1>3, <2>1, <2>2
<1> QED BY <1>2, <1>4, Settled

(* The octets of each handle.                                              *)
Text(head, m) == IF head = NULL THEN NULL ELSE Octets(m, head.chain)
Strings == [h \in Handles |-> Text(block[h], mem)]

(* The head new is one that may be, and has the octets q.                  *)
Fine(new, q) ==
    \/ new = NULL /\ q = NULL
    \/ new # NULL /\ Gives(mem, new, q)

(* What is fine is allowed and has these octets.                           *)
LEMMA FineFacts ==
    ASSUME NEW new, NEW q, Fine(new, q)
    PROVE  /\ new \in Heads \cup {NULL} /\ Allowed(new) /\ Text(new, mem) = q
BY DEF Fine, Gives, Allowed, Text, Sound

(* What the invariant says of one handle.                                  *)
LEMMA HeldFacts ==
    ASSUME BlockInv, NEW h \in Handles
    PROVE  /\ Fine(block[h], Strings[h])
           /\ block[h] # NULL => /\ Sound(block[h]) /\ Within(mem, block[h].chain)
                                 /\ Strings[h] = Octets(mem, block[h].chain)
                                 /\ block[h].chain \in Seq(Views)
                                 /\ \A s : Share(block[h], s) = Looking(block[h].chain, s)
           /\ \A s : Share(block[h], s) \in Nat
           /\ \A s \in Buffers : Share(block[h], s) <= refs[s]
<1>0. block \in Pointers /\ HeadsSound /\ RefsCount /\ mem \in Memories /\ refs \in [Buffers -> Nat]
  BY DEF BlockInv, BlockTypes
<1>3. ASSUME NEW s PROVE Share(block[h], s) \in Nat /\ Share(block[h], s) <= Cardinality(Seen(block, s))
  BY <1>0, RecountedOne
<1>4. \A s \in Buffers : Share(block[h], s) <= refs[s]
  BY <1>0, <1>3 DEF RefsCount
<1>5. Fine(block[h], Strings[h])
  <2>1. CASE block[h] = NULL
    BY <2>1 DEF Fine, Strings, Text
  <2>2. CASE block[h] # NULL
    BY <1>0, <2>2 DEF HeadsSound, Strings, Text, Fine, Gives
  <2> QED BY <2>1, <2>2
<1>6. block[h] # NULL => /\ Sound(block[h]) /\ Within(mem, block[h].chain)
                         /\ Strings[h] = Octets(mem, block[h].chain)
                         /\ block[h].chain \in Seq(Views)
                         /\ \A s : Share(block[h], s) = Looking(block[h].chain, s)
  <2> SUFFICES ASSUME block[h] # NULL
               PROVE  /\ Sound(block[h]) /\ Within(mem, block[h].chain)
                      /\ Strings[h] = Octets(mem, block[h].chain)
                      /\ block[h].chain \in Seq(Views)
                      /\ \A s : Share(block[h], s) = Looking(block[h].chain, s)
    OBVIOUS
  <2>1. Sound(block[h]) /\ Within(mem, block[h].chain) /\ Strings[h] = Octets(mem, block[h].chain)
    BY <1>0 DEF HeadsSound, Strings, Text
  <2>2. block[h].chain \in Seq(Views)
    BY <2>1, SoundFacts
  <2> QED BY <2>1, <2>2 DEF Share
<1> QED BY <1>3, <1>4, <1>5, <1>6

(* One handle gets the octets q, or two get q and r.                       *)
One(h, new, q) ==
    /\ Fine(new, q)
    /\ block' = [block EXCEPT ![h] = new]
    /\ refs' \in [Buffers -> Int]
    /\ \A s \in Buffers : refs'[s] = refs[s] - Share(block[h], s) + Share(new, s)
    /\ MemoryFollows

(* The invariant then holds, and the octets are those.                     *)
LEMMA OneBecomes ==
    ASSUME BlockInv, NEW h \in Handles, NEW new, NEW q, One(h, new, q)
    PROVE  BlockInv' /\ Strings' = [Strings EXCEPT ![h] = q]
<1> USE DEF One
<1>1. /\ BlockInv'
      /\ \A i \in Handles : block'[i] # NULL =>
           Octets(mem', block'[i].chain) = Octets(mem, block'[i].chain)
  BY FineFacts, OneChanges
<1>2. block'[h] = new /\ \A i \in Handles \ {h} : block'[i] = block[i]
  BY DEF BlockInv, BlockTypes, Pointers
<1>3. Strings' = [i \in Handles |-> Text(block'[i], mem')]
  BY DEF Strings
<1>4. ASSUME NEW i \in Handles PROVE Text(block'[i], mem') = IF i = h THEN q ELSE Strings[i]
  <2>1. Text(block'[i], mem') = Text(block'[i], mem)
    BY <1>1 DEF Text
  <2>2. CASE i = h
    BY <2>1, <2>2, <1>2, FineFacts
  <2>3. CASE i # h
    BY <2>1, <2>3, <1>2 DEF Strings
  <2> QED BY <2>2, <2>3
<1>5. DOMAIN Strings = Handles
  BY DEF Strings
<1>6. Strings' = [i \in Handles |-> IF i = h THEN q ELSE Strings[i]]
  BY <1>3, <1>4
<1>7. [Strings EXCEPT ![h] = q] = [i \in Handles |-> IF i = h THEN q ELSE Strings[i]]
  <2> HIDE DEF Strings
  <2>1. Strings = [i \in Handles |-> Strings[i]]
    BY DEF Strings
  <2> QED BY <2>1
<1> QED BY <1>1, <1>6, <1>7

Both(h, new, q, j, other, r) ==
    /\ h # j /\ Fine(new, q) /\ Fine(other, r)
    /\ block' = [block EXCEPT ![h] = new, ![j] = other]
    /\ refs' \in [Buffers -> Nat]
    /\ \A s \in Buffers : refs'[s] = refs[s] - Share(block[h], s) - Share(block[j], s)
                                         + Share(new, s) + Share(other, s)
    /\ MemoryFollows

(* So does it with two.                                                    *)
LEMMA TwoBecome ==
    ASSUME BlockInv, NEW h \in Handles, NEW j \in Handles,
           NEW new, NEW q, NEW other, NEW r, Both(h, new, q, j, other, r)
    PROVE  BlockInv' /\ Strings' = [Strings EXCEPT ![h] = q, ![j] = r]
<1> USE DEF Both
<1>0. /\ new \in Heads \cup {NULL} /\ Allowed(new) /\ Text(new, mem) = q
      /\ other \in Heads \cup {NULL} /\ Allowed(other) /\ Text(other, mem) = r
  BY FineFacts
<1>2. /\ block'[h] = new /\ block'[j] = other /\ block' \in Pointers
      /\ \A i \in Handles \ {h, j} : block'[i] = block[i]
  BY <1>0 DEF BlockInv, BlockTypes, Pointers
<1>1. /\ BlockInv'
      /\ \A i \in Handles : block'[i] # NULL =>
           Octets(mem', block'[i].chain) = Octets(mem, block'[i].chain)
  BY <1>0, <1>2, TwoChange
<1>3. Strings' = [i \in Handles |-> Text(block'[i], mem')]
  BY DEF Strings
<1>4. ASSUME NEW i \in Handles
      PROVE  Text(block'[i], mem') = IF i = j THEN r ELSE IF i = h THEN q ELSE Strings[i]
  <2>1. Text(block'[i], mem') = Text(block'[i], mem)
    <3>1. block'[i] # NULL => Octets(mem', block'[i].chain) = Octets(mem, block'[i].chain)
      BY <1>1
    <3>2. PICK x : x = block'[i]
      OBVIOUS
    <3>3. Text(x, mem') = Text(x, mem)
      BY <3>1, <3>2 DEF Text
    <3> QED BY <3>2, <3>3
  <2>2. CASE i = j
    BY <2>1, <2>2, <1>0, <1>2
  <2>3. CASE i = h
    BY <2>1, <2>3, <1>0, <1>2
  <2>4. CASE i # h /\ i # j
    <3>1. block'[i] = block[i]
      BY <2>4, <1>2
    <3>2. Strings[i] = Text(block[i], mem)
      BY DEF Strings
    <3> QED BY <2>1, <2>4, <3>1, <3>2
  <2> QED BY <2>2, <2>3, <2>4
<1>6. Strings' = [i \in Handles |-> IF i = j THEN r ELSE IF i = h THEN q ELSE Strings[i]]
  BY <1>3, <1>4
<1>7. [Strings EXCEPT ![h] = q, ![j] = r]
        = [i \in Handles |-> IF i = j THEN r ELSE IF i = h THEN q ELSE Strings[i]]
  <2> HIDE DEF Strings
  <2>1. Strings = [i \in Handles |-> Strings[i]]
    BY DEF Strings
  <2> QED BY <2>1
<1> QED BY <1>1, <1>6, <1>7

(* An action may also fail, and then nothing changes.                      *)
LEMMA NothingChanges ==
    ASSUME BlockInv, block' = block, refs' = refs, mem' = mem \/ Kept
    PROVE  BlockInv' /\ Strings' = Strings
<1>1. mem' = mem
  <2>1. CASE Kept
    <3>1. \A s \in Buffers : mem'[s] = mem[s]
      BY <2>1 DEF Kept, BlockInv, MemoryHeld
    <3>2. mem' = [s \in Buffers |-> mem'[s]] /\ mem = [s \in Buffers |-> mem[s]]
      BY <2>1 DEF Kept, BlockInv, BlockTypes, Memories
    <3> QED BY <3>1, <3>2
  <2> QED BY <2>1
<1> QED BY <1>1 DEF BlockInv, BlockTypes, HeadsSound, RefsCount, MemoryHeld, Strings, Seen, InUse

-----------------------------------------------------------------------------
(* References.                                                             *)
LEMMA UnchangedFollow ==
    ASSUME BlockInv, refs' = refs, mem' = mem
    PROVE  MemoryFollows /\ refs' \in [Buffers -> Nat] /\ refs' \in [Buffers -> Int]
BY DEF MemoryFollows, BlockInv, BlockTypes

(* More segments of buffers that a handle has already.                     *)
LEMMA UsedFollow ==
    ASSUME BlockInv, NEW h \in Handles, block[h] # NULL, NEW c \in Seq(Views),
           \A s : Looking(c, s) > 0 => Looking(block[h].chain, s) > 0,
           refs' = Used(c), mem' = mem
    PROVE  /\ MemoryFollows /\ refs' \in [Buffers -> Nat] /\ refs' \in [Buffers -> Int]
           /\ \A s \in Buffers : refs'[s] = refs[s] + Looking(c, s)
<1>0. refs \in [Buffers -> Nat]
  BY DEF BlockInv, BlockTypes
<1>1. \A s : Looking(c, s) \in Nat
  BY LookersFinite
<1>2. \A s \in Buffers : refs'[s] = refs[s] + Looking(c, s)
  BY DEF Used
<1>3. refs' \in [Buffers -> Nat]
  <2>1. \A s \in Buffers : refs[s] + Looking(c, s) \in Nat
    BY <1>0, <1>1
  <2> QED BY <2>1 DEF Used
<1>4. ASSUME NEW s \in Buffers PROVE refs'[s] = 0 <=> refs[s] = 0
  <2>1. Share(block[h], s) = Looking(block[h].chain, s) /\ Share(block[h], s) <= refs[s]
        /\ Share(block[h], s) \in Nat
    BY HeldFacts
  <2>2. refs[s] = 0 => Looking(c, s) = 0
    BY <2>1, <1>0, <1>1
  <2>3. PICK x \in Nat, y \in Nat : x = refs[s] /\ y = Looking(c, s) /\ (x = 0 => y = 0)
    BY <2>2, <1>0, <1>1
  <2>4. refs'[s] = x + y
    BY <2>3, <1>2
  <2> QED BY <2>3, <2>4
<1> QED BY <1>2, <1>3, <1>4 DEF MemoryFollows

(* Segments of a handle are released.                                      *)
LEMMA ReleasedFollow ==
    ASSUME BlockInv, NEW h \in Handles, NEW c \in Seq(Views),
           \A s : Looking(c, s) <= Share(block[h], s),
           refs' = Released(c), Kept
    PROVE  /\ MemoryFollows /\ refs' \in [Buffers -> Nat] /\ refs' \in [Buffers -> Int]
           /\ \A s \in Buffers : refs'[s] = refs[s] - Looking(c, s)
<1>0. refs \in [Buffers -> Nat]
  BY DEF BlockInv, BlockTypes
<1>1. \A s : Looking(c, s) \in Nat
  BY LookersFinite
<1>2. \A s \in Buffers : refs'[s] = refs[s] - Looking(c, s)
  BY DEF Released
<1>3. ASSUME NEW s \in Buffers PROVE refs[s] - Looking(c, s) \in Nat /\ (refs[s] = 0 => refs'[s] = 0)
  <2>1. Share(block[h], s) <= refs[s] /\ Share(block[h], s) \in Nat
    BY HeldFacts
  <2>2. PICK x \in Nat, y \in Nat, z \in Nat :
          x = refs[s] /\ y = Looking(c, s) /\ z = Share(block[h], s)
    BY <2>1, <1>0, <1>1
  <2>3. z <= x /\ y <= z
    BY <2>1, <2>2
  <2>4. refs'[s] = x - y /\ x - y \in Nat
    BY <2>2, <2>3, <1>2
  <2> QED BY <2>2, <2>3, <2>4
<1>4. refs' \in [Buffers -> Nat]
  BY <1>3 DEF Released
<1> QED BY <1>2, <1>3, <1>4 DEF MemoryFollows

(* The octets of a handle that has a block.                                *)
LEMMA StringIs ==
    ASSUME BlockInv, NEW h \in Handles, block[h] # NULL
    PROVE  /\ Strings[h] \in Seq(Nat) /\ Len(Strings[h]) = block[h].total_size
           /\ block[h].total_size \in Nat
<1>1. Sound(block[h]) /\ Within(mem, block[h].chain) /\ Strings[h] = Octets(mem, block[h].chain)
  BY HeldFacts
<1>2. /\ block[h].chain \in Seq(Views) /\ block[h].total_size \in Nat
      /\ block[h].total_size = Total(block[h].chain)
  BY <1>1, SoundFacts
<1>3. mem \in Memories
  BY DEF BlockInv, BlockTypes
<1>4. HasOctets(mem, block[h].chain, Octets(mem, block[h].chain))
  BY <1>1, <1>2, <1>3, OctetsRight
<1> QED BY <1>1, <1>2, <1>4 DEF HasOctets

(* A handle that keeps its octets, or another that gets some.              *)
LEMMA KeepsString ==
    ASSUME NEW h \in Handles, NEW i \in Handles, NEW q
    PROVE  /\ [Strings EXCEPT ![h] = Strings[h]] = Strings
           /\ [Strings EXCEPT ![h] = Strings[h], ![i] = q] = [Strings EXCEPT ![i] = q]
<1>1. Strings = [j \in Handles |-> Strings[j]]
  BY DEF Strings
<1>2. PICK s : s = Strings /\ s = [j \in Handles |-> s[j]]
  BY <1>1
<1>3. [s EXCEPT ![h] = s[h]] = s
  BY <1>2
<1>4. [s EXCEPT ![h] = s[h], ![i] = q] = [s EXCEPT ![i] = q]
  BY <1>2, <1>3
<1> QED BY <1>2, <1>3, <1>4

-----------------------------------------------------------------------------
(* The steps of the module: each keeps the invariant, and says what octets *)
(* the handles have after it. First, a block is freed.                     *)
LEMMA FreeStep ==
    ASSUME BlockInv, NEW h \in Handles, Free(h)
    PROVE  BlockInv' /\ Strings' = [Strings EXCEPT ![h] = NULL]
<1> DEFINE c == block[h].chain
<1>1. block[h] # NULL
  BY DEF Free, IsHeld
<1>2. c \in Seq(Views) /\ \A s : Share(block[h], s) = Looking(c, s) /\ Share(block[h], s) \in Nat
  BY <1>1, HeldFacts
<1>3. block' = [block EXCEPT ![h] = NULL] /\ refs' = Released(c) /\ Kept
  BY DEF Free
<1> HIDE DEF c
<1>4. \A s : Looking(c, s) <= Share(block[h], s)
  BY <1>2
<1>5. /\ MemoryFollows /\ refs' \in [Buffers -> Int]
      /\ \A s \in Buffers : refs'[s] = refs[s] - Looking(c, s)
  BY <1>2, <1>3, <1>4, ReleasedFollow
<1>6. ASSUME NEW s \in Buffers PROVE refs'[s] = refs[s] - Share(block[h], s) + Share(NULL, s)
  <2>1. refs'[s] = refs[s] - Share(block[h], s) /\ Share(NULL, s) = 0 /\ refs'[s] \in Int
    BY <1>2, <1>5 DEF Share
  <2> QED BY <2>1
<1>7. Fine(NULL, NULL)
  BY DEF Fine
<1> QED BY <1>3, <1>5, <1>6, <1>7, OneBecomes DEF One

(* Octets are looked up and read.                                          *)
LEMMA ReadStep ==
    ASSUME BlockInv, NEW h \in Handles, NEW o \in Int, Read(h, o)
    PROVE  BlockInv' /\ Strings' = Strings
<1> DEFINE b == block[h]
<1>1. /\ b # NULL /\ ~Astray(b, o) /\ Absolute(b, o) >= 0 /\ block' = [block EXCEPT ![h] = Looked(b, o)]
      /\ refs' = refs /\ mem' = mem
  <2>1. Absolute(b, o) \in 0..b.total_size /\ b # NULL
    BY DEF Read, IsHeld
  <2>2. b.total_size \in Nat
    BY <2>1, StringIs
  <2> QED BY <2>1, <2>2 DEF Read
<1>2. Sound(b) /\ Within(mem, b.chain) /\ Strings[h] = Octets(mem, b.chain)
      /\ \A s : Share(b, s) = Looking(b.chain, s) /\ Share(b, s) \in Nat
  BY <1>1, HeldFacts
<1>3. Sound(Looked(b, o)) /\ Looked(b, o).chain = b.chain /\ Looked(b, o) # NULL
  <2>1. Sound(Looked(b, o)) /\ Looked(b, o).chain = b.chain
    BY <1>1, <1>2, LookedRight
  <2> QED BY <2>1, BlockAssumption DEF Sound
<1>4. PICK l : l = Looked(b, o)
  OBVIOUS
<1>5. Fine(l, Strings[h])
  BY <1>2, <1>3, <1>4 DEF Fine, Gives
<1>6. MemoryFollows /\ refs' \in [Buffers -> Int]
  BY <1>1, UnchangedFollow
<1>7. ASSUME NEW s \in Buffers PROVE refs'[s] = refs[s] - Share(b, s) + Share(l, s)
  <2>1. Share(l, s) = Share(b, s)
    BY <1>2, <1>3, <1>4 DEF Share
  <2>2. PICK x \in Nat, y \in Nat : x = refs[s] /\ y = Share(b, s)
    BY <1>2 DEF BlockInv, BlockTypes
  <2>3. x - y + y = x
    OBVIOUS
  <2> QED BY <2>1, <2>2, <2>3, <1>1
<1>8. BlockInv' /\ Strings' = [Strings EXCEPT ![h] = Strings[h]]
  <2>1. PICK q : q = Strings[h]
    OBVIOUS
  <2>2. One(h, l, q)
    BY <1>1, <1>4, <1>5, <1>6, <1>7, <2>1 DEF One
  <2> QED BY <2>1, <2>2, OneBecomes
<1> QED BY <1>8, KeepsString

(* A block is duplicated, with references on the buffers of its segments.  *)
LEMMA DupStep ==
    ASSUME BlockInv, NEW h \in Handles, NEW i \in Handles, Dup(h, i)
    PROVE  BlockInv' /\ Strings' = [Strings EXCEPT ![i] = Strings[h]]
<1> DEFINE b == block[h]
<1>1. /\ b # NULL /\ block[i] = NULL
      /\ block' = [block EXCEPT ![i] = NewHead(b.chain, b.total_size)]
      /\ refs' = Used(b.chain) /\ mem' = mem
  BY DEF Dup, IsHeld
<1>2. /\ Sound(b) /\ Within(mem, b.chain) /\ Strings[h] = Octets(mem, b.chain)
      /\ b.chain \in Seq(Views)
  BY <1>1, HeldFacts
<1>3. Len(b.chain) > 0 /\ b.total_size = Total(b.chain)
  BY <1>2, SoundFacts
<1>10. PICK c \in Seq(Views) : c = b.chain
  BY <1>2
<1>4. PICK t, u : c = b.chain /\ t = b.total_size /\ u = NewHead(c, t)
  BY <1>10
<1>5. Sound(u) /\ u.chain = c
  BY <1>3, <1>4, NewHeadRight
<1>6. Fine(u, Strings[h]) /\ u # NULL
  <2>1. u # NULL
    BY <1>5, BlockAssumption DEF Sound
  <2> QED BY <2>1, <1>2, <1>4, <1>5 DEF Fine, Gives
<1>7. \A s : Looking(c, s) > 0 => Looking(block[h].chain, s) > 0
  BY <1>4
<1>8. /\ MemoryFollows /\ refs' \in [Buffers -> Int]
      /\ \A s \in Buffers : refs'[s] = refs[s] + Looking(c, s)
  BY <1>1, <1>4, <1>7, UsedFollow
<1>9. ASSUME NEW s \in Buffers PROVE refs'[s] = refs[s] - Share(block[i], s) + Share(u, s)
  <2>1. Share(u, s) = Looking(c, s) /\ Share(block[i], s) = 0
    BY <1>1, <1>5, <1>6 DEF Share
  <2>2. PICK x \in Nat, y \in Nat : x = refs[s] /\ y = Looking(c, s)
    BY LookersFinite DEF BlockInv, BlockTypes
  <2>3. x + y = x - 0 + y
    OBVIOUS
  <2> QED BY <2>1, <2>2, <2>3, <1>8
<1>11. block' = [block EXCEPT ![i] = u]
  BY <1>1, <1>4
<1> QED BY <1>6, <1>8, <1>9, <1>11, OneBecomes DEF One

(* The octets of a block just allocated.                                   *)
LEMMA Padded ==
    ASSUME NEW n \in Nat, NEW p \in Seq(Nat)
    PROVE  LET x == [k \in 1..n |-> Garbage] \o p
           IN  /\ x \in Seq(Nat) /\ Len(x) = n + Len(p)
               /\ SubSeq(x, n + 1, n + Len(p)) = p
<1> DEFINE y == [k \in 1..n |-> Garbage]
<1>1. y \in Seq(Nat) /\ Len(y) = n
  <2>1. y \in [1..n -> Nat]
    BY DEF Garbage
  <2> QED BY <2>1
<1> HIDE DEF y
<1>2. PICK x : x = y \o p
  OBVIOUS
<1>3. /\ x \in Seq(Nat) /\ Len(x) = n + Len(p)
      /\ \A k \in 1..Len(x) : x[k] = IF k <= n THEN y[k] ELSE p[k - n]
  <2>1. PICK z \in Seq(Nat) : z = y
    BY <1>1
  <2>2. /\ z \o p \in Seq(Nat) /\ Len(z \o p) = Len(z) + Len(p)
        /\ \A k \in 1..Len(z) + Len(p) : (z \o p)[k] = IF k <= Len(z) THEN z[k] ELSE p[k - Len(z)]
    BY ConcatProperties
  <2> QED BY <2>1, <2>2, <1>1, <1>2
<1>4. /\ SubSeq(x, n + 1, n + Len(p)) \in Seq(Nat) /\ Len(SubSeq(x, n + 1, n + Len(p))) = Len(p)
      /\ \A k \in 1..Len(p) : SubSeq(x, n + 1, n + Len(p))[k] = x[n + k]
  <2>1. PICK l \in Nat : l = Len(p)
    OBVIOUS
  <2>2. x \in Seq(Nat) /\ n + l <= Len(x)
    BY <2>1, <1>3
  <2> QED BY <2>1, <2>2, PieceIs
<1>5. ASSUME NEW k \in 1..Len(p) PROVE x[n + k] = p[k]
  <2>1. PICK l \in Nat : l = Len(p)
    OBVIOUS
  <2>2. n + k \in 1..n + l /\ ~(n + k <= n) /\ (n + k) - n = k
    BY <2>1
  <2> QED BY <2>1, <2>2, <1>3
<1>6. SubSeq(x, n + 1, n + Len(p)) = p
  BY <1>4, <1>5, SeqEqual
<1> QED BY <1>2, <1>3, <1>6 DEF y

(* A block is allocated on a buffer that nothing looks at.                 *)
LEMMA AllocStep ==
    ASSUME BlockInv, NEW h \in Handles, NEW s \in Buffers, Alloc(h, s)
    PROVE  BlockInv' /\ Strings' = [Strings EXCEPT ![h] = Payload[s]]
<1>0. /\ block \in Pointers /\ refs \in [Buffers -> Nat] /\ mem \in Memories
      /\ HeadsSound /\ RefsCount /\ MemoryHeld
  BY DEF BlockInv, BlockTypes
<1>1. Payload[s] \in Seq(Nat) /\ Headroom[s] \in Nat /\ Headroom[s] + Len(Payload[s]) > 0
  BY BlockAssumption
<1>2. PICK p \in Seq(Nat), n \in Nat : p = Payload[s] /\ n = Headroom[s] /\ n + Len(p) > 0
  BY <1>1
<1>3. PICK x : x = [k \in 1..n |-> Garbage] \o p
  OBVIOUS
<1>4. x \in Seq(Nat) /\ Len(x) = n + Len(p) /\ SubSeq(x, n + 1, n + Len(p)) = p
  BY <1>3, Padded
<1>5. PICK g : g = [shared |-> s, offset |-> n, size |-> Len(p)]
  OBVIOUS
<1>6. g \in Views /\ g.shared = s /\ g.offset = n /\ g.size = Len(p)
  BY <1>5 DEF Views
<1>7. /\ <<g>> \in Seq(Views) /\ Len(<<g>>) = 1 /\ <<g>>[1] = g /\ Total(<<g>>) = Len(p)
  BY <1>6, SumsOfOne
<1>8. PICK u : u = NewHead(<<g>>, Len(p))
  OBVIOUS
<1>9. Sound(u) /\ u.chain = <<g>> /\ u \in Heads /\ u # NULL
  <2>4. PICK c \in Seq(Views) : c = <<g>>
    BY <1>7
  <2>1. PICK t : c = <<g>> /\ t = Len(p)
    BY <2>4
  <2>2. Len(c) > 0 /\ t = Total(c) /\ u = NewHead(c, t)
    BY <2>1, <1>7, <1>8
  <2>3. Sound(u) /\ u.chain = c
    BY <2>2, NewHeadRight
  <2> QED BY <2>1, <2>3, BlockAssumption DEF Sound
<1>10. /\ block[h] = NULL /\ refs[s] = 0 /\ refs' = [refs EXCEPT ![s] = 1]
       /\ mem' = [mem EXCEPT ![s] = x]
       /\ block' = [block EXCEPT ![h] = u]
  BY <1>2, <1>3, <1>5, <1>8 DEF Alloc, IsHeld
<1>11. /\ block' \in Pointers /\ block'[h] = u
       /\ \A i \in Handles \ {h} : block'[i] = block[i]
  BY <1>0, <1>9, <1>10 DEF Pointers
<1>12. /\ mem' \in Memories /\ mem'[s] = x /\ \A v \in Buffers \ {s} : mem'[v] = mem[v]
       /\ refs' \in [Buffers -> Nat] /\ refs'[s] = 1 /\ \A v \in Buffers \ {s} : refs'[v] = refs[v]
  BY <1>0, <1>4, <1>10 DEF Memories
<1>13. Within(mem', <<g>>) /\ Octets(mem', <<g>>) = p
  <2>1. PICK m \in Memories : m = mem'
    BY <1>12
  <2>2. g.offset + g.size <= Len(m[g.shared])
    BY <2>1, <1>4, <1>6, <1>12
  <2>3. Within(m, <<g>>) /\ Octets(m, <<g>>) = View(m, g)
    BY <2>2, <1>6, OctetsOfOne
  <2>4. View(m, g) = SubSeq(x, n + 1, n + Len(p))
    BY <2>1, <1>6, <1>12 DEF View
  <2> QED BY <2>1, <2>3, <2>4, <1>4
<1>14. ASSUME NEW i \in Handles \ {h}, block[i] # NULL
       PROVE  Within(mem', block[i].chain) /\ Octets(mem', block[i].chain) = Octets(mem, block[i].chain)
  <2>1. Sound(block[i]) /\ Within(mem, block[i].chain) /\ block[i].chain \in Seq(Views)
    BY <1>14, HeldFacts
  <2>2. PICK c \in Seq(Views) : c = block[i].chain
    BY <2>1
  <2>3. ASSUME NEW k \in 1..Len(c) PROVE c[k].shared \in Buffers \ {s}
    <3>1. c[k].shared \in Buffers
      BY SizesInNat
    <3>2. Cardinality(Seen(block, c[k].shared)) # 0
      BY <1>0, <1>14, <2>2, SeenUsed
    <3> QED BY <3>1, <3>2, <1>0, <1>10 DEF RefsCount
  <2>4. PICK m \in Memories : m = mem'
    BY <1>12
  <2>5. \A k \in 1..Len(c) : m[c[k].shared] = mem[c[k].shared]
    BY <2>3, <2>4, <1>12
  <2>6. Within(m, c) /\ Octets(m, c) = Octets(mem, c)
    BY <2>1, <2>2, <2>5, <1>0, OctetsElsewhere
  <2> QED BY <2>2, <2>4, <2>6
<1>15. HeadsSound'
  <2>1. ASSUME NEW i \in Handles, block'[i] # NULL
        PROVE  Sound(block'[i]) /\ Within(mem', block'[i].chain)
    <3>1. CASE i = h
      BY <3>1, <1>9, <1>11, <1>13
    <3>2. CASE i # h
      BY <2>1, <3>2, <1>0, <1>11, <1>14 DEF HeadsSound
    <3> QED BY <3>1, <3>2
  <2> QED BY <2>1 DEF HeadsSound
<1>16. RefsCount'
  <2>1. ASSUME NEW v \in Buffers PROVE refs'[v] = Cardinality(Seen(block', v))
    <3>1. PICK w \in Pointers : w = block'
      BY <1>11
    <3>2. /\ Cardinality(Seen(w, v)) = Cardinality(Seen(block, v)) - Share(block[h], v) + Share(w[h], v)
          /\ Cardinality(Seen(block, v)) \in Nat /\ Share(w[h], v) \in Nat
      BY <3>1, <1>0, <1>11, RecountedOne, SMTT(60)
    <3>3. Share(block[h], v) = 0
      BY <1>10 DEF Share
    <3>4. Share(w[h], v) = IF s = v THEN 1 ELSE 0
      BY <3>1, <1>6, <1>9, <1>11, LookingOne, ZenonT(60) DEF Share
    <3>5. refs[v] = Cardinality(Seen(block, v)) /\ refs[v] \in Nat
      BY <1>0 DEF RefsCount
    <3>6. refs'[v] = refs[v] + Share(w[h], v)
      BY <3>4, <3>5, <1>10, <1>12
    <3>7. PICK y \in Nat, z \in Nat : y = refs[v] /\ z = Share(w[h], v)
      BY <3>2, <3>5
    <3>8. y - 0 + z = y + z
      OBVIOUS
    <3> QED BY <3>1, <3>2, <3>3, <3>5, <3>6, <3>7, <3>8
  <2> QED BY <2>1 DEF RefsCount
<1>17. MemoryHeld'
  <2>1. x # <<>>
    BY <1>2, <1>4
  <2> QED BY <2>1, <1>0, <1>10, <1>12 DEF MemoryHeld
<1>18. BlockInv'
  BY <1>11, <1>12, <1>15, <1>16, <1>17 DEF BlockInv, BlockTypes
<1>19. Strings' = [i \in Handles |-> Text(block'[i], mem')]
  BY DEF Strings
<1>20. ASSUME NEW i \in Handles PROVE Text(block'[i], mem') = IF i = h THEN p ELSE Strings[i]
  <2>1. CASE i = h
    BY <2>1, <1>9, <1>11, <1>13 DEF Text
  <2>2. CASE i # h
    <3>1. block'[i] = block[i] /\ Strings[i] = Text(block[i], mem)
      BY <2>2, <1>11 DEF Strings
    <3>2. block[i] # NULL => Octets(mem', block[i].chain) = Octets(mem, block[i].chain)
      BY <2>2, <1>14
    <3>3. PICK y : y = block[i]
      OBVIOUS
    <3>4. Text(y, mem') = Text(y, mem)
      BY <3>2, <3>3 DEF Text
    <3> QED BY <2>2, <3>1, <3>3, <3>4
  <2> QED BY <2>1, <2>2
<1>21. Strings' = [i \in Handles |-> IF i = h THEN p ELSE Strings[i]]
  BY <1>19, <1>20
<1>22. [Strings EXCEPT ![h] = p] = [i \in Handles |-> IF i = h THEN p ELSE Strings[i]]
  <2> HIDE DEF Strings
  <2>1. Strings = [i \in Handles |-> Strings[i]]
    BY DEF Strings
  <2> QED BY <2>1
<1> QED BY <1>2, <1>18, <1>21, <1>22

(* A look-up within the octets, or at their end, finds those that are      *)
(* there.                                                                  *)
LEMMA Reachable ==
    ASSUME BlockInv, NEW h \in Handles, block[h] # NULL, NEW o \in Int,
           ~Astray(block[h], o),
           Absolute(block[h], o) \in 0..block[h].total_size
    PROVE  /\ Absolute(block[h], o) \in Nat /\ Absolute(block[h], o) >= 0
           /\ Get(block[h], o) # NULL <=> Absolute(block[h], o) < Len(Strings[h])
<1>1. Sound(block[h]) /\ Len(Strings[h]) = block[h].total_size /\ block[h].total_size \in Nat
  BY HeldFacts, StringIs
<1>2. Absolute(block[h], o) \in Nat /\ Absolute(block[h], o) >= 0
  BY <1>1
<1>3. IF Absolute(block[h], o) < block[h].total_size
      THEN Found(block[h].chain, Absolute(block[h], o), Get(block[h], o))
      ELSE Get(block[h], o) = NULL
  BY <1>1, <1>2, GetRight
<1> QED BY <1>1, <1>2, <1>3 DEF Found

(* A part of a block is spliced out of it.                                 *)
LEMMA SpliceOutStep ==
    ASSUME BlockInv, NEW h \in Handles, NEW i \in Handles, NEW o \in Int, NEW n \in Int,
           Length(block[h], o, n) >= 0, SpliceOut(h, o, n, i)
    PROVE  /\ BlockInv'
           /\ LET a == Absolute(block[h], o)
                  l == Length(block[h], o, n)
              IN  IF Get(block[h], o) # NULL
                  THEN Strings' = [Strings EXCEPT ![i] = SubSeq(Strings[h], a + 1, a + l)]
                  ELSE Strings' = Strings
<1>1. /\ block[h] # NULL /\ block[i] = NULL /\ mem' = mem
      /\ Absolute(block[h], o) \in 0..block[h].total_size /\ ~Astray(block[h], o)
      /\ Absolute(block[h], o) + Length(block[h], o, n) <= block[h].total_size
  BY DEF SpliceOut, IsHeld, Length
<1>2. /\ Sound(block[h]) /\ Within(mem, block[h].chain) /\ Strings[h] = Octets(mem, block[h].chain)
      /\ \A s : Share(block[h], s) = Looking(block[h].chain, s) /\ Share(block[h], s) \in Nat
      /\ Absolute(block[h], o) \in Nat /\ Absolute(block[h], o) >= 0
      /\ block[h].total_size \in Nat /\ mem \in Memories
  BY <1>1, HeldFacts, Reachable, StringIs DEF BlockInv, BlockTypes
<1>3. CASE Get(block[h], o) = NULL
  <2>1. block' = block /\ refs' = refs
    BY <1>3 DEF SpliceOut
  <2> QED BY <2>1, <1>1, <1>3, NothingChanges
<1>4. CASE Get(block[h], o) # NULL
  <2>1. PICK l \in Nat : l = Length(block[h], o, n)
    BY <1>2 DEF Length
  <2>2. PICK d : d = Spliced(block[h].chain, Get(block[h], o).seg, Get(block[h], o).offset, l)
    OBVIOUS
  <2>3. PICK u : u = NewHead(d, l)
    OBVIOUS
  <2>4. PICK k : k = Looked(block[h], o)
    OBVIOUS
  <2>5. block' = [block EXCEPT ![h] = k, ![i] = u] /\ refs' = Used(d)
    BY <1>4, <2>1, <2>2, <2>3, <2>4 DEF SpliceOut, Length
  <2>6. /\ Gives(mem, u, SubSeq(Strings[h], Absolute(block[h], o) + 1, Absolute(block[h], o) + l))
        /\ d \in Seq(Views) /\ u.chain = d
        /\ \A s : Looking(d, s) > 0 => Looking(block[h].chain, s) > 0
    <3>1. PICK b : b = block[h]
      OBVIOUS
    <3>2. Sound(b) /\ Within(mem, b.chain) /\ ~Astray(b, o) /\ Absolute(b, o) >= 0 /\ Get(b, o) # NULL
          /\ Absolute(b, o) + l <= b.total_size
      BY <1>1, <1>2, <1>4, <2>1, <3>1
    <3>3. d = Spliced(b.chain, Get(b, o).seg, Get(b, o).offset, l)
      BY <2>2, <3>1
    <3>4. /\ Gives(mem, NewHead(d, l), SubSeq(Octets(mem, b.chain), Absolute(b, o) + 1, Absolute(b, o) + l))
          /\ d \in Seq(Views) /\ NewHead(d, l).chain = d
          /\ \A s : Looking(d, s) > 0 => Looking(b.chain, s) > 0
      BY <1>2, <3>2, <3>3, SplicedOutRight, SMTT(60)
    <3> QED BY <3>1, <3>4, <2>3, <1>2
  <2>7. Sound(k) /\ k.chain = block[h].chain
    BY <1>1, <1>2, <2>4, LookedRight
  <2>8. k # NULL /\ u # NULL
    BY <2>6, <2>7, BlockAssumption DEF Gives, Sound
  <2>9. /\ MemoryFollows /\ refs' \in [Buffers -> Nat] /\ refs' \in [Buffers -> Int]
        /\ \A s \in Buffers : refs'[s] = refs[s] + Looking(d, s)
    BY <1>1, <2>5, <2>6, UsedFollow
  <2>10. Fine(k, Strings[h])
    BY <1>2, <2>7, <2>8 DEF Fine, Gives
  <2>11. Fine(u, SubSeq(Strings[h], Absolute(block[h], o) + 1, Absolute(block[h], o) + l))
    BY <2>6, <2>8 DEF Fine
  <2>12. ASSUME NEW s \in Buffers
         PROVE  refs'[s] = refs[s] - Share(block[h], s) - Share(block[i], s) + Share(k, s) + Share(u, s)
    <3>1. Share(block[i], s) = 0 /\ Share(k, s) = Share(block[h], s) /\ Share(u, s) = Looking(d, s)
      BY <1>1, <1>2, <2>6, <2>7, <2>8 DEF Share
    <3>2. PICK x \in Nat, y \in Nat, z \in Nat : x = refs[s] /\ y = Share(block[h], s) /\ z = Looking(d, s)
      BY <1>2, <2>6, LookersFinite DEF BlockInv, BlockTypes
    <3>3. x - y - 0 + y + z = x + z
      OBVIOUS
    <3> QED BY <2>9, <3>1, <3>2, <3>3
  <2>13. h # i
    BY <1>1
  <2>14. PICK q : q = SubSeq(Strings[h], Absolute(block[h], o) + 1, Absolute(block[h], o) + l)
    OBVIOUS
  <2>15. BlockInv' /\ Strings' = [Strings EXCEPT ![h] = Strings[h], ![i] = q]
    <3>1. Fine(u, q)
      BY <2>11, <2>14
    <3>2. PICK p : p = Strings[h]
      OBVIOUS
    <3>3. Fine(k, p)
      BY <2>10, <3>2
    <3>4. BlockInv' /\ Strings' = [Strings EXCEPT ![h] = p, ![i] = q]
      <4>1. Both(h, k, p, i, u, q)
        BY <2>5, <2>9, <2>12, <2>13, <3>1, <3>3 DEF Both
      <4> QED BY <4>1, TwoBecome
    <3> QED BY <3>2, <3>4
  <2>16. [Strings EXCEPT ![h] = Strings[h], ![i] = q] = [Strings EXCEPT ![i] = q]
    BY KeepsString
  <2> QED BY <1>4, <2>1, <2>14, <2>15, <2>16
<1> QED BY <1>3, <1>4

(* The chain of one handle goes to another.                                *)
LEMMA AppendStep ==
    ASSUME BlockInv, NEW h \in Handles, NEW i \in Handles, AppendTo(h, i)
    PROVE  BlockInv' /\ Strings' = [Strings EXCEPT ![i] = NULL, ![h] = Strings[h] \o Strings[i]]
<1>1. block[h] # NULL /\ block[i] # NULL /\ h # i /\ mem' = mem /\ refs' = refs
  BY DEF AppendTo, IsHeld
<1>2. /\ Sound(block[h]) /\ Within(mem, block[h].chain) /\ Strings[h] = Octets(mem, block[h].chain)
      /\ Sound(block[i]) /\ Within(mem, block[i].chain) /\ Strings[i] = Octets(mem, block[i].chain)
      /\ \A s : Share(block[h], s) = Looking(block[h].chain, s) /\ Share(block[h], s) \in Nat
      /\ \A s : Share(block[i], s) = Looking(block[i].chain, s) /\ Share(block[i], s) \in Nat
      /\ mem \in Memories
  BY <1>1, HeldFacts DEF BlockInv, BlockTypes
<1>3. PICK u : u = Appended(block[h], block[i])
  OBVIOUS
<1>4. block' = [block EXCEPT ![i] = NULL, ![h] = u]
  BY <1>3 DEF AppendTo, Appended
<1>5. /\ Gives(mem, u, Strings[h] \o Strings[i])
      /\ \A s : Looking(u.chain, s) = Looking(block[h].chain, s) + Looking(block[i].chain, s)
  <2>1. PICK b, e : b = block[h] /\ e = block[i]
    OBVIOUS
  <2>2. Sound(b) /\ Within(mem, b.chain) /\ Sound(e) /\ Within(mem, e.chain)
    BY <1>2, <2>1
  <2>3. u = Appended(b, e)
    BY <1>3, <2>1
  <2>4. /\ Gives(mem, u, Octets(mem, b.chain) \o Octets(mem, e.chain))
        /\ \A s : Looking(u.chain, s) = Looking(b.chain, s) + Looking(e.chain, s)
    BY <1>2, <2>2, <2>3, AppendedRight
  <2> QED BY <1>2, <2>1, <2>4
<1>6. u # NULL
  BY <1>5, BlockAssumption DEF Gives, Sound
<1>7. Fine(u, Strings[h] \o Strings[i]) /\ Fine(NULL, NULL)
  BY <1>5, <1>6 DEF Fine
<1>8. MemoryFollows /\ refs' \in [Buffers -> Nat]
  BY <1>1, UnchangedFollow
<1>9. ASSUME NEW s \in Buffers
      PROVE  refs'[s] = refs[s] - Share(block[i], s) - Share(block[h], s) + Share(NULL, s) + Share(u, s)
  <2>1. Share(NULL, s) = 0 /\ Share(u, s) = Share(block[h], s) + Share(block[i], s)
    BY <1>2, <1>5, <1>6 DEF Share
  <2>2. PICK x \in Nat, y \in Nat, z \in Nat : x = refs[s] /\ y = Share(block[h], s) /\ z = Share(block[i], s)
    BY <1>2 DEF BlockInv, BlockTypes
  <2>3. x - z - y + 0 + (y + z) = x
    OBVIOUS
  <2> QED BY <1>1, <2>1, <2>2, <2>3
<1>10. PICK q : q = Strings[h] \o Strings[i]
  OBVIOUS
<1>11. BlockInv' /\ Strings' = [Strings EXCEPT ![i] = NULL, ![h] = q]
  <2>1. Fine(u, q)
    BY <1>7, <1>10
  <2>2. PICK z : z = NULL
    OBVIOUS
  <2>3. Fine(z, z) /\ block' = [block EXCEPT ![i] = z, ![h] = u]
    BY <1>4, <1>7, <2>2
  <2>4. \A s \in Buffers :
          refs'[s] = refs[s] - Share(block[i], s) - Share(block[h], s) + Share(z, s) + Share(u, s)
    BY <1>9, <2>2
  <2>5. BlockInv' /\ Strings' = [Strings EXCEPT ![i] = z, ![h] = q]
    <3>1. Both(i, z, z, h, u, q)
      BY <1>1, <1>8, <2>1, <2>3, <2>4 DEF Both
    <3> QED BY <3>1, TwoBecome
  <2> QED BY <2>2, <2>5
<1> QED BY <1>10, <1>11

(* A block goes into another.                                              *)
LEMMA InsertStep ==
    ASSUME BlockInv, NEW h \in Handles, NEW i \in Handles, NEW o \in Int, InsertInto(h, o, i)
    PROVE  /\ BlockInv'
           /\ LET a == Absolute(block[h], o)
                  s == Strings[h]
              IN  IF Get(block[h], o) # NULL
                  THEN Strings' = [Strings EXCEPT ![i] = NULL,
                         ![h] = SubSeq(s, 1, a) \o Strings[i] \o SubSeq(s, a + 1, Len(s))]
                  ELSE Strings' = Strings
<1>1. /\ block[h] # NULL /\ block[i] # NULL /\ h # i /\ mem' = mem
      /\ Absolute(block[h], o) \in 0..block[h].total_size /\ ~Astray(block[h], o)
  BY DEF InsertInto, IsHeld
<1>2. /\ Sound(block[h]) /\ Within(mem, block[h].chain) /\ Strings[h] = Octets(mem, block[h].chain)
      /\ Sound(block[i]) /\ Within(mem, block[i].chain) /\ Strings[i] = Octets(mem, block[i].chain)
      /\ \A s : Share(block[h], s) = Looking(block[h].chain, s) /\ Share(block[h], s) \in Nat
      /\ \A s : Share(block[i], s) = Looking(block[i].chain, s) /\ Share(block[i], s) \in Nat
      /\ Absolute(block[h], o) >= 0 /\ Len(Strings[h]) = Total(block[h].chain)
      /\ mem \in Memories
  BY <1>1, HeldFacts, Reachable, StringIs, SoundFacts DEF BlockInv, BlockTypes
<1>3. CASE Get(block[h], o) = NULL
  <2>1. block' = block /\ refs' = refs
    BY <1>3 DEF InsertInto
  <2> QED BY <2>1, <1>1, <1>3, NothingChanges
<1>4. CASE Get(block[h], o) # NULL
  <2>1. PICK b, e : b = block[h] /\ e = block[i]
    OBVIOUS
  <2>2. PICK u : u = InsertedHead(b, o, e)
    OBVIOUS
  <2>3. PICK v : v = b.chain[Get(b, o).seg]
    OBVIOUS
  <2>4. PICK z : z = NULL
    OBVIOUS
  <2>5. block' = [block EXCEPT ![i] = z, ![h] = u] /\ refs' = Used(<<v>>)
    BY <1>4, <2>1, <2>2, <2>3, <2>4 DEF InsertInto, InsertedHead
  <2>6. PICK q : q = SubSeq(Strings[h], 1, Absolute(b, o)) \o Strings[i]
                       \o SubSeq(Strings[h], Absolute(b, o) + 1, Len(Strings[h]))
    OBVIOUS
  <2>7. /\ Gives(mem, u, q) /\ v \in Views
        /\ \A s : Looking(u.chain, s) = Looking(b.chain, s) + Looking(e.chain, s) + Looking(<<v>>, s)
        /\ \A s : Looking(<<v>>, s) > 0 => Looking(b.chain, s) > 0
    <3>1. /\ Sound(b) /\ Within(mem, b.chain) /\ Sound(e) /\ Within(mem, e.chain)
          /\ Absolute(b, o) >= 0 /\ ~Astray(b, o) /\ Get(b, o) # NULL /\ mem \in Memories
          /\ Strings[h] = Octets(mem, b.chain) /\ Strings[i] = Octets(mem, e.chain)
          /\ Len(Strings[h]) = Total(b.chain)
      BY <1>1, <1>2, <1>4, <2>1
    <3> QED BY <3>1, <2>2, <2>3, <2>6, InsertedRight
  <2>8. PICK w \in Seq(Views) : w = <<v>>
    <3>1. <<v>> \in Seq(Views)
      BY <2>7, SumsOfOne
    <3> QED BY <3>1
  <2>9. /\ MemoryFollows /\ refs' \in [Buffers -> Nat]
        /\ \A s \in Buffers : refs'[s] = refs[s] + Looking(w, s)
    BY <1>1, <2>1, <2>5, <2>7, <2>8, UsedFollow
  <2>10. u # NULL
    BY <2>7, BlockAssumption DEF Gives, Sound
  <2>11. Fine(z, z) /\ Fine(u, q)
    BY <2>4, <2>7, <2>10 DEF Fine
  <2>12. ASSUME NEW s \in Buffers
         PROVE  refs'[s] = refs[s] - Share(block[i], s) - Share(block[h], s) + Share(z, s) + Share(u, s)
    <3>1. Share(z, s) = 0 /\ Share(u, s) = Share(block[h], s) + Share(block[i], s) + Looking(w, s)
      BY <1>2, <2>1, <2>4, <2>7, <2>8, <2>10 DEF Share
    <3>2. PICK x \in Nat, y \in Nat, g \in Nat, l \in Nat :
            x = refs[s] /\ y = Share(block[h], s) /\ g = Share(block[i], s) /\ l = Looking(w, s)
      BY <1>2, LookersFinite DEF BlockInv, BlockTypes
    <3>3. x - g - y + 0 + (y + g + l) = x + l
      OBVIOUS
    <3> QED BY <2>9, <3>1, <3>2, <3>3
  <2>13. Both(i, z, z, h, u, q)
    BY <1>1, <2>5, <2>9, <2>11, <2>12 DEF Both
  <2>14. BlockInv' /\ Strings' = [Strings EXCEPT ![i] = z, ![h] = q]
    BY <2>13, TwoBecome
  <2> QED BY <1>4, <2>1, <2>4, <2>6, <2>14
<1> QED BY <1>3, <1>4

(* The end of a block goes to another handle.                              *)
LEMMA SplitStep ==
    ASSUME BlockInv, NEW h \in Handles, NEW i \in Handles, NEW o \in Int, SplitAt(h, o, i)
    PROVE  /\ BlockInv'
           /\ LET a == Absolute(block[h], o)
                  s == Strings[h]
              IN  IF Get(block[h], o) # NULL
                  THEN Strings' = [Strings EXCEPT ![h] = SubSeq(s, 1, a),
                                                  ![i] = SubSeq(s, a + 1, Len(s))]
                  ELSE Strings' = Strings
<1>1. /\ block[h] # NULL /\ block[i] = NULL /\ h # i /\ mem' = mem
      /\ Absolute(block[h], o) \in 0..block[h].total_size /\ ~Astray(block[h], o)
  BY DEF SplitAt, IsHeld
<1>2. /\ Sound(block[h]) /\ Within(mem, block[h].chain) /\ Strings[h] = Octets(mem, block[h].chain)
      /\ \A s : Share(block[h], s) = Looking(block[h].chain, s) /\ Share(block[h], s) \in Nat
      /\ Absolute(block[h], o) >= 0 /\ Len(Strings[h]) = Total(block[h].chain)
      /\ mem \in Memories
  BY <1>1, HeldFacts, Reachable, StringIs, SoundFacts DEF BlockInv, BlockTypes
<1>3. CASE Get(block[h], o) = NULL
  <2>1. block' = block /\ refs' = refs
    BY <1>3 DEF SplitAt
  <2> QED BY <2>1, <1>1, <1>3, NothingChanges
<1>4. CASE Get(block[h], o) # NULL
  <2>1. PICK b : b = block[h]
    OBVIOUS
  <2>2. PICK u, t : u = SplitHead(b, o) /\ t = SplitRest(b, o)
    OBVIOUS
  <2>3. PICK v : v = b.chain[Get(b, o).seg]
    OBVIOUS
  <2>5. block' = [block EXCEPT ![h] = u, ![i] = t] /\ refs' = Used(<<v>>)
    BY <1>4, <2>1, <2>2, <2>3 DEF SplitAt, SplitHead, SplitRest
  <2>6. PICK p, q : /\ p = SubSeq(Strings[h], 1, Absolute(b, o))
                    /\ q = SubSeq(Strings[h], Absolute(b, o) + 1, Len(Strings[h]))
    OBVIOUS
  <2>7. /\ Gives(mem, u, p) /\ Gives(mem, t, q) /\ v \in Views
        /\ \A s : Looking(u.chain, s) + Looking(t.chain, s) = Looking(b.chain, s) + Looking(<<v>>, s)
        /\ \A s : Looking(<<v>>, s) > 0 => Looking(b.chain, s) > 0
    <3>1. /\ Sound(b) /\ Within(mem, b.chain)
          /\ Absolute(b, o) >= 0 /\ ~Astray(b, o) /\ Get(b, o) # NULL /\ mem \in Memories
          /\ Strings[h] = Octets(mem, b.chain) /\ Len(Strings[h]) = Total(b.chain)
      BY <1>1, <1>2, <1>4, <2>1
    <3> QED BY <3>1, <2>2, <2>3, <2>6, SplitRight
  <2>8. PICK w \in Seq(Views) : w = <<v>>
    <3>1. <<v>> \in Seq(Views)
      BY <2>7, SumsOfOne
    <3> QED BY <3>1
  <2>9. /\ MemoryFollows /\ refs' \in [Buffers -> Nat]
        /\ \A s \in Buffers : refs'[s] = refs[s] + Looking(w, s)
    BY <1>1, <2>1, <2>5, <2>7, <2>8, UsedFollow
  <2>10. u # NULL /\ t # NULL /\ u.chain \in Seq(Views) /\ t.chain \in Seq(Views)
    BY <2>7, BlockAssumption, SoundFacts DEF Gives, Sound
  <2>11. Fine(u, p) /\ Fine(t, q)
    BY <2>7, <2>10 DEF Fine
  <2>12. ASSUME NEW s \in Buffers
         PROVE  refs'[s] = refs[s] - Share(block[h], s) - Share(block[i], s) + Share(u, s) + Share(t, s)
    <3>1. /\ Share(block[i], s) = 0 /\ Share(u, s) = Looking(u.chain, s) /\ Share(t, s) = Looking(t.chain, s)
          /\ Looking(u.chain, s) + Looking(t.chain, s) = Share(block[h], s) + Looking(w, s)
      BY <1>1, <1>2, <2>1, <2>7, <2>8, <2>10 DEF Share
    <3>2. PICK x \in Nat, y \in Nat, f \in Nat, g \in Nat, l \in Nat :
            /\ x = refs[s] /\ y = Share(block[h], s) /\ l = Looking(w, s)
            /\ f = Share(u, s) /\ g = Share(t, s)
      <4>1. Share(u, s) \in Nat /\ Share(t, s) \in Nat
        BY <2>10, <3>1, LookersFinite
      <4>2. refs[s] \in Nat /\ Looking(w, s) \in Nat
        BY LookersFinite DEF BlockInv, BlockTypes
      <4> QED BY <4>1, <4>2, <1>2
    <3>3. f + g = y + l
      BY <3>1, <3>2
    <3>4. x - y - 0 + f + g = x + l
      BY <3>3
    <3> QED BY <2>9, <3>1, <3>2, <3>4
  <2>13. Both(h, u, p, i, t, q)
    BY <1>1, <2>5, <2>9, <2>11, <2>12 DEF Both
  <2>14. BlockInv' /\ Strings' = [Strings EXCEPT ![h] = p, ![i] = q]
    BY <2>13, TwoBecome
  <2> QED BY <1>4, <2>1, <2>6, <2>14
<1> QED BY <1>3, <1>4

(* Octets are deleted.                                                     *)
LEMMA DeleteStep ==
    ASSUME BlockInv, NEW h \in Handles, NEW o \in Int, NEW n \in Int, n >= -1, DeleteFrom(h, o, n)
    PROVE  /\ BlockInv'
           /\ LET a == Absolute(block[h], o)
                  l == Length(block[h], o, n)
              IN  IF Get(block[h], o) # NULL
                  THEN Strings' = [Strings EXCEPT ![h] = Without(Strings[h], a, l)]
                  ELSE Strings' = Strings
<1> DEFINE d == Deleted(block[h], o, n)
           a == Absolute(block[h], o)
           l == Length(block[h], o, n)
           q == IF d.ok THEN Without(Strings[h], a, l) ELSE Strings[h]
<1>1. /\ block[h] # NULL /\ a \in 0..block[h].total_size /\ a + n <= block[h].total_size
      /\ ~Astray(block[h], o)
      /\ block' = [block EXCEPT ![h] = d.head] /\ refs' = Used(d.dups) /\ mem' = mem
  BY DEF DeleteFrom, IsHeld
<1>2. /\ Sound(block[h]) /\ Within(mem, block[h].chain) /\ Strings[h] = Octets(mem, block[h].chain)
      /\ \A s : Share(block[h], s) = Looking(block[h].chain, s) /\ Share(block[h], s) \in Nat
      /\ a \in Nat /\ block[h].total_size \in Nat /\ mem \in Memories
  BY <1>1, HeldFacts, Reachable, StringIs DEF BlockInv, BlockTypes
<1>3. l \in Nat /\ a + l <= block[h].total_size
  <2>1. PICK x \in Nat, y \in Nat : x = a /\ y = block[h].total_size /\ x <= y /\ x + n <= y
    BY <1>1, <1>2
  <2>2. l = IF n = -1 THEN y - x ELSE n
    BY <2>1 DEF Length
  <2> HIDE DEF l, a
  <2> QED BY <2>1, <2>2
<1>4. /\ d.ok = (Get(block[h], o) # NULL)
      /\ Gives(mem, d.head, q)
      /\ d.dups \in Seq(Views)
      /\ \A s : Looking(d.head.chain, s) = Looking(block[h].chain, s) + Looking(d.dups, s)
      /\ \A s : Looking(d.dups, s) > 0 => Looking(block[h].chain, s) > 0
  <2>1. PICK b : b = block[h]
    OBVIOUS
  <2>2. /\ Sound(b) /\ Within(mem, b.chain) /\ ~Astray(b, o) /\ Absolute(b, o) >= 0 /\ Length(b, o, n) >= 0
        /\ Absolute(b, o) + Length(b, o, n) <= b.total_size
    BY <1>1, <1>2, <1>3, <2>1
  <2>3. PICK e : e = Deleted(b, o, n)
    OBVIOUS
  <2>4. /\ e.ok = (Get(b, o) # NULL)
        /\ Gives(mem, e.head, IF e.ok THEN Without(Octets(mem, b.chain), Absolute(b, o), Length(b, o, n))
                              ELSE Octets(mem, b.chain))
        /\ e.dups \in Seq(Views)
        /\ \A s : Looking(e.head.chain, s) = Looking(b.chain, s) + Looking(e.dups, s)
        /\ \A s : Looking(e.dups, s) > 0 => Looking(b.chain, s) > 0
    BY <2>2, <2>3, <1>2, DeletedRight, ZenonT(60)
  <2> QED BY <2>1, <2>3, <2>4, <1>2
<1> HIDE DEF d, a, l
<1>5. PICK w \in Seq(Views) : w = d.dups
  BY <1>4
<1>6. PICK v : v = d.head
  OBVIOUS
<1>7. v # NULL /\ v.chain \in Seq(Views)
  BY <1>4, <1>6, BlockAssumption, SoundFacts DEF Gives, Sound
<1>8. Fine(v, q)
  BY <1>4, <1>6, <1>7 DEF Fine
<1>9. /\ MemoryFollows /\ refs' \in [Buffers -> Nat] /\ refs' \in [Buffers -> Int]
      /\ \A s \in Buffers : refs'[s] = refs[s] + Looking(w, s)
  BY <1>1, <1>4, <1>5, UsedFollow
<1>10. ASSUME NEW s \in Buffers PROVE refs'[s] = refs[s] - Share(block[h], s) + Share(v, s)
  <2>1. Share(v, s) = Share(block[h], s) + Looking(w, s)
    BY <1>2, <1>4, <1>5, <1>6, <1>7 DEF Share
  <2>2. PICK x \in Nat, y \in Nat, z \in Nat : x = refs[s] /\ y = Share(block[h], s) /\ z = Looking(w, s)
    BY <1>2, LookersFinite DEF BlockInv, BlockTypes
  <2>3. x - y + (y + z) = x + z
    OBVIOUS
  <2> QED BY <1>9, <2>1, <2>2, <2>3
<1>11. PICK r : r = q
  OBVIOUS
<1>12. BlockInv' /\ Strings' = [Strings EXCEPT ![h] = r]
  <2>1. One(h, v, r)
    BY <1>1, <1>6, <1>8, <1>9, <1>10, <1>11 DEF One
  <2> QED BY <2>1, OneBecomes
<1>13. [Strings EXCEPT ![h] = Strings[h]] = Strings
  BY KeepsString
<1> QED BY <1>4, <1>11, <1>12, <1>13 DEF a, l

(* A block is truncated.                                                   *)
LEMMA TruncateStep ==
    ASSUME BlockInv, NEW h \in Handles, NEW o \in Int, TruncateAt(h, o)
    PROVE  /\ BlockInv'
           /\ Truncated(block[h], o).ok \in BOOLEAN
           /\ Truncated(block[h], o).ok <=> o <= Len(Strings[h])
           /\ IF o <= Len(Strings[h])
              THEN Strings' = [Strings EXCEPT ![h] = SubSeq(Strings[h], 1, o)]
              ELSE Strings' = Strings
<1> DEFINE t == Truncated(block[h], o)
           q == IF t.ok THEN SubSeq(Strings[h], 1, o) ELSE Strings[h]
<1>1. /\ block[h] # NULL /\ o >= 0 /\ (o > 0 => ~Astray(block[h], o - 1))
      /\ block' = [block EXCEPT ![h] = t.head] /\ refs' = Released(t.gone) /\ Kept
  BY DEF TruncateAt, IsHeld
<1>2. /\ Sound(block[h]) /\ Within(mem, block[h].chain) /\ Strings[h] = Octets(mem, block[h].chain)
      /\ \A s : Share(block[h], s) = Looking(block[h].chain, s) /\ Share(block[h], s) \in Nat
      /\ Len(Strings[h]) = block[h].total_size /\ mem \in Memories
  BY <1>1, HeldFacts, StringIs DEF BlockInv, BlockTypes
<1>4. /\ t.ok \in BOOLEAN /\ (t.ok <=> o <= Len(Strings[h]))
      /\ Gives(mem, t.head, q)
      /\ t.gone \in Seq(Views)
      /\ \A s : Looking(block[h].chain, s) = Looking(t.head.chain, s) + Looking(t.gone, s)
  <2>1. PICK b : b = block[h]
    OBVIOUS
  <2>2. Sound(b) /\ Within(mem, b.chain) /\ o \in Nat /\ (o > 0 => ~Astray(b, o - 1))
    BY <1>1, <1>2, <2>1
  <2>3. PICK e : e = Truncated(b, o)
    OBVIOUS
  <2>4. /\ e.ok \in BOOLEAN /\ (e.ok <=> o <= b.total_size)
        /\ Gives(mem, e.head, IF e.ok THEN SubSeq(Octets(mem, b.chain), 1, o) ELSE Octets(mem, b.chain))
        /\ e.gone \in Seq(Views)
        /\ \A s : Looking(b.chain, s) = Looking(e.head.chain, s) + Looking(e.gone, s)
    BY <2>2, <2>3, <1>2, TruncatedRight
  <2> QED BY <2>1, <2>3, <2>4, <1>2
<1> HIDE DEF t
<1>5. PICK w \in Seq(Views) : w = t.gone
  BY <1>4
<1>6. PICK v : v = t.head
  OBVIOUS
<1>7. v # NULL /\ v.chain \in Seq(Views)
  BY <1>4, <1>6, BlockAssumption, SoundFacts DEF Gives, Sound
<1>8. Fine(v, q)
  BY <1>4, <1>6, <1>7 DEF Fine
<1>9. ASSUME NEW s PROVE /\ Share(block[h], s) = Share(v, s) + Looking(w, s)
                         /\ Share(v, s) \in Nat /\ Looking(w, s) \in Nat
                         /\ Looking(w, s) <= Share(block[h], s)
  <2>1. Share(v, s) = Looking(v.chain, s) /\ Looking(v.chain, s) \in Nat /\ Looking(w, s) \in Nat
    BY <1>7, LookersFinite DEF Share
  <2>2. Share(block[h], s) = Looking(v.chain, s) + Looking(w, s)
    BY <1>2, <1>4, <1>5, <1>6
  <2>3. PICK x \in Nat, y \in Nat : x = Looking(v.chain, s) /\ y = Looking(w, s)
    BY <2>1
  <2>4. y <= x + y
    OBVIOUS
  <2> QED BY <2>1, <2>2, <2>3, <2>4
<1>10. /\ MemoryFollows /\ refs' \in [Buffers -> Int]
       /\ \A s \in Buffers : refs'[s] = refs[s] - Looking(w, s)
  BY <1>1, <1>5, <1>9, ReleasedFollow
<1>11. ASSUME NEW s \in Buffers PROVE refs'[s] = refs[s] - Share(block[h], s) + Share(v, s)
  <2>1. PICK x \in Nat, y \in Nat, z \in Nat : x = refs[s] /\ y = Share(v, s) /\ z = Looking(w, s)
    BY <1>9 DEF BlockInv, BlockTypes
  <2>2. x - (y + z) + y = x - z
    OBVIOUS
  <2> QED BY <1>9, <1>10, <2>1, <2>2
<1>12. PICK r : r = q
  OBVIOUS
<1>13. BlockInv' /\ Strings' = [Strings EXCEPT ![h] = r]
  <2>1. One(h, v, r)
    BY <1>1, <1>6, <1>8, <1>10, <1>11, <1>12 DEF One
  <2> QED BY <2>1, OneBecomes
<1>14. [Strings EXCEPT ![h] = Strings[h]] = Strings
  BY KeepsString
<1> QED BY <1>4, <1>12, <1>13, <1>14 DEF t

(* Without its first octets.                                               *)
LEMMA WithoutFirst ==
    ASSUME NEW q \in Seq(Nat), NEW n \in Nat, n <= Len(q)
    PROVE  /\ Without(q, 0, n) \in Seq(Nat) /\ Len(Without(q, 0, n)) = Len(q) - n
           /\ \A p \in 1..Len(q) - n : Without(q, 0, n)[p] = q[p + n]
<1>1. 0 \in Nat /\ 0 + n <= Len(q) /\ 0 + 1 = 1
  OBVIOUS
<1>2. /\ Without(q, 0, n) \in Seq(Nat) /\ Len(Without(q, 0, n)) = Len(q) - n
      /\ \A p \in 0 + 1..Len(q) - n : Without(q, 0, n)[p] = q[p + n]
  BY <1>1, WithoutIs
<1> QED BY <1>1, <1>2

(* A part of a part.                                                       *)
LEMMA PartOfPart ==
    ASSUME NEW q \in Seq(Nat), NEW e \in Nat, NEW a \in Nat, a <= e, e <= Len(q)
    PROVE  Without(SubSeq(q, 1, e), 0, a) = SubSeq(q, a + 1, e)
<1>1. PICK w : w = SubSeq(q, 1, e)
  OBVIOUS
<1>2. w \in Seq(Nat) /\ Len(w) = e /\ \A p \in 1..e : w[p] = q[p]
  <2>1. /\ SubSeq(q, 0 + 1, 0 + e) \in Seq(Nat) /\ Len(SubSeq(q, 0 + 1, 0 + e)) = e
        /\ \A p \in 1..e : SubSeq(q, 0 + 1, 0 + e)[p] = q[0 + p]
    BY PieceIs
  <2> QED BY <2>1, <1>1
<1>3. PICK n \in Nat : n = e - a
  BY SMT
<1>4. /\ Without(w, 0, a) \in Seq(Nat) /\ Len(Without(w, 0, a)) = n
      /\ \A p \in 1..n : Without(w, 0, a)[p] = w[p + a]
  <2>1. a <= Len(w)
    BY <1>2
  <2>2. /\ Without(w, 0, a) \in Seq(Nat) /\ Len(Without(w, 0, a)) = Len(w) - a
        /\ \A p \in 1..Len(w) - a : Without(w, 0, a)[p] = w[p + a]
    BY <1>2, <2>1, WithoutFirst
  <2> QED BY <2>2, <1>2, <1>3
<1>5. /\ SubSeq(q, a + 1, e) \in Seq(Nat) /\ Len(SubSeq(q, a + 1, e)) = n
      /\ \A p \in 1..n : SubSeq(q, a + 1, e)[p] = q[a + p]
  <2>1. a + n <= Len(q) /\ a + n = e
    BY <1>3
  <2>2. /\ SubSeq(q, a + 1, a + n) \in Seq(Nat) /\ Len(SubSeq(q, a + 1, a + n)) = n
        /\ \A p \in 1..n : SubSeq(q, a + 1, a + n)[p] = q[a + p]
    BY <2>1, PieceIs
  <2> QED BY <2>1, <2>2
<1>6. ASSUME NEW p \in 1..n PROVE Without(w, 0, a)[p] = SubSeq(q, a + 1, e)[p]
  <2>1. p + a \in 1..e /\ p + a = a + p
    BY <1>3
  <2> QED BY <2>1, <1>2, <1>4, <1>5
<1>7. Without(w, 0, a) = SubSeq(q, a + 1, e)
  BY <1>4, <1>5, <1>6, SeqEqual
<1> QED BY <1>1, <1>7

(* What is released and what remains when a head b is cut to the octets    *)
(* from a to e.                                                            *)
CutTo(b, e) ==
    IF e < b.total_size THEN Truncated(b, e) ELSE [head |-> b, gone |-> <<>>, ok |-> TRUE]
CutFrom(b, a) == IF a > 0 THEN Deleted(b, 0, a).head ELSE b

(* It is cut at its end first,                                             *)
LEMMA CutToRight ==
    ASSUME NEW m \in Memories, NEW b, Sound(b), Within(m, b.chain), NEW e \in Nat, e <= b.total_size,
           e > 0 /\ e < b.total_size => ~Astray(b, e - 1)
    PROVE  LET t == CutTo(b, e)
           IN  /\ Gives(m, t.head, SubSeq(Octets(m, b.chain), 1, e))
               /\ t.head.total_size = e /\ t.gone \in Seq(Views)
               /\ \A s : Looking(b.chain, s) = Looking(t.head.chain, s) + Looking(t.gone, s)
<1>0. b.chain \in Seq(Views) /\ b.total_size \in Nat /\ b.total_size = Total(b.chain)
  BY SoundFacts
<1>1. CASE e < b.total_size
  <2>1. PICK t : t = Truncated(b, e)
    OBVIOUS
  <2>2. /\ t.ok \in BOOLEAN /\ (t.ok <=> e <= b.total_size)
        /\ Gives(m, t.head, IF t.ok THEN SubSeq(Octets(m, b.chain), 1, e) ELSE Octets(m, b.chain))
        /\ t.head.total_size = IF t.ok THEN e ELSE b.total_size
        /\ t.gone \in Seq(Views)
        /\ \A s : Looking(b.chain, s) = Looking(t.head.chain, s) + Looking(t.gone, s)
    BY <1>1, <2>1, TruncatedRight
  <2>3. CutTo(b, e) = t
    BY <1>1, <2>1 DEF CutTo
  <2> QED BY <2>2, <2>3
<1>2. CASE ~(e < b.total_size)
  <2>1. CutTo(b, e) = [head |-> b, gone |-> <<>>, ok |-> TRUE] /\ e = b.total_size
    BY <1>0, <1>2 DEF CutTo
  <2>2. Octets(m, b.chain) \in Seq(Nat) /\ Len(Octets(m, b.chain)) = e
    BY <1>0, <2>1, OctetsRight DEF HasOctets
  <2>3. SubSeq(Octets(m, b.chain), 1, e) = Octets(m, b.chain)
    <3>1. PICK q \in Seq(Nat) : q = Octets(m, b.chain) /\ Len(q) = e
      BY <2>2
    <3>2. /\ SubSeq(q, 0 + 1, 0 + e) \in Seq(Nat) /\ Len(SubSeq(q, 0 + 1, 0 + e)) = e
          /\ \A p \in 1..e : SubSeq(q, 0 + 1, 0 + e)[p] = q[0 + p]
      BY <3>1, PieceIs
    <3>3. /\ SubSeq(q, 1, e) \in Seq(Nat) /\ Len(SubSeq(q, 1, e)) = Len(q)
          /\ \A p \in 1..Len(q) : SubSeq(q, 1, e)[p] = q[p]
      BY <3>1, <3>2
    <3>4. SubSeq(q, 1, e) = q
      BY <3>3, SeqEqual
    <3> QED BY <3>1, <3>4
  <2>4. Gives(m, b, Octets(m, b.chain))
    BY DEF Gives
  <2>5. \A s : Looking(b.chain, s) = Looking(b.chain, s) + Looking(<<>>, s)
    <3>1. ASSUME NEW s PROVE Looking(b.chain, s) = Looking(b.chain, s) + Looking(<<>>, s)
      <4>1. Looking(b.chain, s) \in Nat /\ Looking(<<>>, s) = 0
        BY <1>0, LookersFinite, LookingEmpty
      <4> QED BY <4>1
    <3> QED BY <3>1
  <2>6. <<>> \in Seq(Views)
    BY LookingEmpty
  <2>7. PICK t : t = CutTo(b, e)
    OBVIOUS
  <2>8. t.head = b /\ t.gone = <<>>
    BY <2>1, <2>7
  <2>9. /\ Gives(m, t.head, SubSeq(Octets(m, b.chain), 1, e))
        /\ t.head.total_size = e /\ t.gone \in Seq(Views)
        /\ \A s : Looking(b.chain, s) = Looking(t.head.chain, s) + Looking(t.gone, s)
    BY <2>1, <2>3, <2>4, <2>5, <2>6, <2>8
  <2> QED BY <2>7, <2>9
<1> QED BY <1>1, <1>2

(* then at its beginning.                                                  *)
LEMMA CutFromRight ==
    ASSUME NEW m \in Memories, NEW b, Sound(b), Within(m, b.chain), NEW a \in Nat, a <= b.total_size
    PROVE  /\ Gives(m, CutFrom(b, a), Without(Octets(m, b.chain), 0, a))
           /\ \A s : Looking(CutFrom(b, a).chain, s) = Looking(b.chain, s)
<1>0. /\ b.chain \in Seq(Views) /\ b.total_size \in Nat /\ b.total_size = Total(b.chain)
      /\ Octets(m, b.chain) \in Seq(Nat) /\ Len(Octets(m, b.chain)) = b.total_size
  <2>1. b.chain \in Seq(Views) /\ b.total_size \in Nat /\ b.total_size = Total(b.chain)
    BY SoundFacts
  <2> QED BY <2>1, OctetsRight DEF HasOctets
<1>1. CASE a > 0
  <2>1. PICK d : d = Deleted(b, 0, a)
    OBVIOUS
  <2>2. Absolute(b, 0) = 0 /\ ~Astray(b, 0) /\ Length(b, 0, a) = a
    BY FromStart DEF Length
  <2>3. /\ d.ok = (Get(b, 0) # NULL)
        /\ Gives(m, d.head, IF d.ok THEN Without(Octets(m, b.chain), Absolute(b, 0), Length(b, 0, a))
                            ELSE Octets(m, b.chain))
        /\ \A s : Looking(d.head.chain, s) = Looking(b.chain, s) + Looking(d.dups, s)
        /\ Absolute(b, 0) = 0 => d.dups = <<>>
    <3>1. 0 \in Int /\ a \in Int /\ Absolute(b, 0) >= 0 /\ Length(b, 0, a) >= 0
          /\ Absolute(b, 0) + Length(b, 0, a) <= b.total_size
      BY <2>2
    <3> QED BY <3>1, <2>1, <2>2, DeletedRight
  <2>4. d.ok
    <3>1. IF Absolute(b, 0) < b.total_size THEN Found(b.chain, Absolute(b, 0), Get(b, 0)) ELSE Get(b, 0) = NULL
      BY <2>2, GetRight
    <3>2. 0 < b.total_size
      BY <1>0, <1>1
    <3>3. Get(b, 0) # NULL
      BY <3>1, <3>2, <2>2 DEF Found
    <3> QED BY <3>3, <2>3
  <2>5. ASSUME NEW s PROVE Looking(d.head.chain, s) = Looking(b.chain, s)
    <3>1. Looking(b.chain, s) \in Nat /\ Looking(<<>>, s) = 0
      BY <1>0, LookersFinite, LookingEmpty
    <3>2. Looking(d.head.chain, s) = Looking(b.chain, s) + Looking(<<>>, s)
      BY <2>2, <2>3
    <3> QED BY <3>1, <3>2
  <2>6. CutFrom(b, a) = d.head
    BY <1>1, <2>1 DEF CutFrom
  <2> QED BY <2>2, <2>3, <2>4, <2>5, <2>6
<1>2. CASE ~(a > 0)
  <2>1. a = 0 /\ CutFrom(b, a) = b
    BY <1>2 DEF CutFrom
  <2>2. Without(Octets(m, b.chain), 0, 0) = Octets(m, b.chain)
    <3>1. PICK q \in Seq(Nat) : q = Octets(m, b.chain)
      BY <1>0
    <3>2. /\ Without(q, 0, 0) \in Seq(Nat) /\ Len(Without(q, 0, 0)) = Len(q) - 0
          /\ \A p \in 0 + 1..Len(q) - 0 : Without(q, 0, 0)[p] = q[p + 0]
      BY WithoutIs
    <3>3. Len(Without(q, 0, 0)) = Len(q) /\ \A p \in 1..Len(q) : Without(q, 0, 0)[p] = q[p]
      BY <3>2
    <3>4. Without(q, 0, 0) = q
      BY <3>2, <3>3, SeqEqual
    <3> QED BY <3>1, <3>4
  <2> QED BY <2>1, <2>2 DEF Gives
<1> QED BY <1>1, <1>2

Fits(b, o, n) ==
    Absolute(b, o) >= 0 /\ Absolute(b, o) + Length(b, o, n) <= b.total_size

(* A block is resized, at both ends.                                       *)
LEMMA ResizeStep ==
    ASSUME BlockInv, NEW h \in Handles, NEW o \in Int, NEW n \in Int, n >= -1, ResizeTo(h, o, n)
    PROVE  /\ BlockInv'
           /\ call'.ret \in BOOLEAN /\ (call'.ret <=> Fits(block[h], o, n))
           /\ LET a == Absolute(block[h], o)
              IN  IF Fits(block[h], o, n)
                  THEN Strings' = [Strings EXCEPT
                         ![h] = SubSeq(Strings[h], a + 1, a + Length(block[h], o, n))]
                  ELSE Strings' = Strings
<1> DEFINE b == block[h]
           a == Absolute(b, o)
           l == Length(b, o, n)
           e == a + l
           t == CutTo(b, e)
           d == CutFrom(t.head, a)
<1>1. /\ b # NULL /\ (n = -1 => a <= b.total_size) /\ Kept
      /\ (/\ a >= 0 /\ (n # -1 => n + a <= b.total_size)
          /\ n # -1 /\ n + a < b.total_size /\ n + a > 0) => ~Astray(b, n + a - 1)
  BY DEF ResizeTo, IsHeld
<1>2. /\ Sound(b) /\ Within(mem, b.chain) /\ Strings[h] = Octets(mem, b.chain)
      /\ \A s : Share(b, s) = Looking(b.chain, s) /\ Share(b, s) \in Nat
      /\ Strings[h] \in Seq(Nat) /\ Len(Strings[h]) = b.total_size /\ b.total_size \in Nat
      /\ mem \in Memories
  BY <1>1, HeldFacts, StringIs DEF BlockInv, BlockTypes
<1>3. PICK z \in Nat, y \in Int : z = b.total_size /\ y = a
  <2>1. a \in Int
    BY <1>2 DEF Absolute
  <2> QED BY <2>1, <1>2
<1>4. e = (IF n = -1 THEN z ELSE n + y) /\ l = (IF n = -1 THEN z - y ELSE n)
  BY <1>3 DEF Length
<1>5. Fits(b, o, n) <=> y >= 0 /\ e <= z
  BY <1>3 DEF Fits
<1>6. Fits(b, o, n) <=> (a >= 0 /\ (n # -1 => n + a <= b.total_size))
  BY <1>3, <1>4, <1>5
<1>7. /\ call'.ret = (a >= 0 /\ (n # -1 => n + a <= b.total_size))
      /\ IF a >= 0 /\ (n # -1 => n + a <= b.total_size)
         THEN /\ block' = [block EXCEPT ![h] =
                   IF a > 0
                   THEN Deleted((IF n # -1 /\ n + a < b.total_size THEN Truncated(b, n + a)
                                 ELSE [head |-> b, gone |-> <<>>, ok |-> TRUE]).head, 0, a).head
                   ELSE (IF n # -1 /\ n + a < b.total_size THEN Truncated(b, n + a)
                         ELSE [head |-> b, gone |-> <<>>, ok |-> TRUE]).head]
              /\ refs' = Released((IF n # -1 /\ n + a < b.total_size THEN Truncated(b, n + a)
                                   ELSE [head |-> b, gone |-> <<>>, ok |-> TRUE]).gone)
         ELSE block' = block /\ refs' = refs
  BY DEF ResizeTo, Called
<1>8. call'.ret \in BOOLEAN /\ (call'.ret <=> Fits(b, o, n))
  BY <1>6, <1>7
<1>9. CASE ~Fits(b, o, n)
  <2>1. block' = block /\ refs' = refs
    BY <1>6, <1>7, <1>9
  <2>2. BlockInv' /\ Strings' = Strings
    BY <2>1, <1>1, NothingChanges
  <2> QED BY <2>2, <1>8, <1>9
<1>10. CASE Fits(b, o, n)
  <2>1. (IF n # -1 /\ n + a < b.total_size THEN Truncated(b, n + a)
         ELSE [head |-> b, gone |-> <<>>, ok |-> TRUE]) = t
    <3>1. CASE n = -1
      <4>1. ~(e < b.total_size)
        BY <3>1, <1>3, <1>4
      <4> HIDE DEF b, a, e
      <4> QED BY <4>1, <3>1 DEF CutTo
    <3>2. CASE n # -1
      <4>1. e = n + a
        BY <3>2, <1>3, <1>4
      <4> HIDE DEF b, a, e
      <4> QED BY <4>1, <3>2 DEF CutTo
    <3> QED BY <3>1, <3>2
  <2> HIDE DEF t
  <2>2. block' = [block EXCEPT ![h] = d] /\ refs' = Released(t.gone)
    <3>1. /\ block' = [block EXCEPT ![h] = IF a > 0 THEN Deleted(t.head, 0, a).head ELSE t.head]
          /\ refs' = Released(t.gone)
      BY <2>1, <1>6, <1>7, <1>10
    <3> QED BY <3>1 DEF CutFrom
  <2>3. e \in Nat /\ a \in Nat /\ a <= e /\ e <= b.total_size
    <3>1. y >= 0 /\ e <= z /\ (n = -1 => y <= z)
      BY <1>1, <1>3, <1>5, <1>10
    <3> HIDE DEF e, l, a
    <3>2. e \in Nat /\ y <= e
      BY <3>1, <1>4
    <3> QED BY <3>1, <3>2, <1>3
  <2>20. e > 0 /\ e < b.total_size => ~Astray(b, e - 1)
    <3> SUFFICES ASSUME e > 0, e < b.total_size PROVE ~Astray(b, e - 1)
      OBVIOUS
    <3> HIDE DEF e, l, a, b
    <3>1. n # -1 /\ e = n + a
      BY <1>3, <1>4
    <3>2. a >= 0 /\ n + a <= b.total_size /\ n + a < b.total_size /\ n + a > 0
      BY <3>1, <2>3
    <3>3. ~Astray(b, n + a - 1)
      BY <3>1, <3>2, <1>1, Zenon
    <3>4. e - 1 = n + a - 1
      BY <3>1, <1>3
    <3> QED BY <3>3, <3>4, Zenon
  <2> HIDE DEF e, l, a, b
  <2>4. PICK x \in Nat, k \in Nat : x = e /\ k = a /\ k <= x
    BY <2>3
  <2>5. /\ Gives(mem, t.head, SubSeq(Octets(mem, b.chain), 1, x))
        /\ t.head.total_size = x /\ t.gone \in Seq(Views)
        /\ \A s : Looking(b.chain, s) = Looking(t.head.chain, s) + Looking(t.gone, s)
    <3>1. CutTo(b, x) = t
      BY <2>4 DEF t
    <3>2. PICK c, f : c = b /\ f = CutTo(c, x)
      OBVIOUS
    <3>3. Sound(c) /\ Within(mem, c.chain) /\ x <= c.total_size /\ mem \in Memories
          /\ (x > 0 /\ x < c.total_size => ~Astray(c, x - 1))
      BY <1>2, <2>3, <2>4, <2>20, <3>2
    <3>4. /\ Gives(mem, f.head, SubSeq(Octets(mem, c.chain), 1, x))
          /\ f.head.total_size = x /\ f.gone \in Seq(Views)
          /\ \A s : Looking(c.chain, s) = Looking(f.head.chain, s) + Looking(f.gone, s)
      BY <3>2, <3>3, CutToRight
    <3> QED BY <3>1, <3>2, <3>4
  <2>6. PICK u : u = t.head
    OBVIOUS
  <2>7. /\ Gives(mem, CutFrom(u, k), Without(Octets(mem, u.chain), 0, k))
        /\ \A s : Looking(CutFrom(u, k).chain, s) = Looking(u.chain, s)
    <3>1. Sound(u) /\ Within(mem, u.chain) /\ k <= u.total_size
      BY <2>4, <2>5, <2>6 DEF Gives
    <3> QED BY <3>1, <1>2, CutFromRight
  <2>8. PICK v : v = CutFrom(u, k)
    OBVIOUS
  <2>9. d = v
    BY <2>4, <2>6, <2>8
  <2>10. PICK r : r = SubSeq(Strings[h], k + 1, x)
    OBVIOUS
  <2>11. Gives(mem, v, r)
    <3>1. PICK q \in Seq(Nat) : q = Strings[h]
      BY <1>2
    <3>2. x <= Len(q)
      BY <3>1, <1>2, <2>3, <2>4
    <3>3. Without(SubSeq(q, 1, x), 0, k) = SubSeq(q, k + 1, x)
      BY <3>2, <2>4, PartOfPart
    <3>4. Octets(mem, u.chain) = SubSeq(q, 1, x)
      BY <3>1, <1>2, <2>5, <2>6 DEF Gives
    <3> QED BY <3>1, <3>3, <3>4, <2>7, <2>8, <2>10
  <2>12. v # NULL /\ v.chain \in Seq(Views)
    BY <2>11, BlockAssumption, SoundFacts DEF Gives, Sound
  <2>13. PICK w \in Seq(Views) : w = t.gone
    BY <2>5
  <2>14. ASSUME NEW s PROVE /\ Share(b, s) = Share(v, s) + Looking(w, s)
                            /\ Share(v, s) \in Nat /\ Looking(w, s) \in Nat
                            /\ Looking(w, s) <= Share(b, s)
    <3>1. Share(v, s) = Looking(v.chain, s) /\ Looking(v.chain, s) \in Nat /\ Looking(w, s) \in Nat
      BY <2>12, LookersFinite DEF Share
    <3>2. Share(b, s) = Looking(v.chain, s) + Looking(w, s)
      BY <1>2, <2>5, <2>6, <2>7, <2>8, <2>13
    <3>3. PICK f \in Nat, g \in Nat : f = Looking(v.chain, s) /\ g = Looking(w, s)
      BY <3>1
    <3>4. g <= f + g
      OBVIOUS
    <3> QED BY <3>1, <3>2, <3>3, <3>4
  <2>15. /\ MemoryFollows /\ refs' \in [Buffers -> Int]
         /\ \A s \in Buffers : refs'[s] = refs[s] - Looking(w, s)
    <3>1. \A s : Looking(w, s) <= Share(block[h], s)
      BY <2>14 DEF b
    <3> QED BY <3>1, <1>1, <2>2, <2>13, ReleasedFollow
  <2>16. ASSUME NEW s \in Buffers PROVE refs'[s] = refs[s] - Share(block[h], s) + Share(v, s)
    <3>1. PICK f \in Nat, g \in Nat, i \in Nat : f = refs[s] /\ g = Share(v, s) /\ i = Looking(w, s)
      BY <2>14 DEF BlockInv, BlockTypes
    <3>2. f - (g + i) + g = f - i
      OBVIOUS
    <3>3. Share(block[h], s) = g + i
      BY <3>1, <2>14 DEF b
    <3> QED BY <2>15, <3>1, <3>2, <3>3
  <2>17. One(h, v, r)
    BY <2>2, <2>9, <2>11, <2>12, <2>15, <2>16 DEF One, Fine
  <2>18. BlockInv' /\ Strings' = [Strings EXCEPT ![h] = r]
    BY <2>17, OneBecomes
  <2>19. r = SubSeq(Strings[h], a + 1, a + l)
    BY <2>4, <2>10 DEF e
  <2> QED BY <2>18, <2>19, <1>8, <1>10 DEF a, b, l
<1> QED BY <1>9, <1>10

(* A block grows at its beginning.                                         *)
LEMMA PrependStep ==
    ASSUME BlockInv, NEW h \in Handles, NEW n \in Int, PrependTo(h, n)
    PROVE  /\ BlockInv' /\ n > 0
           /\ \/ /\ call'.ret = TRUE
                 /\ \E p \in Seq(Nat) : Len(p) = n /\ Strings' = [Strings EXCEPT ![h] = p \o Strings[h]]
              \/ call'.ret = FALSE /\ Strings' = Strings
<1> DEFINE b == block[h]
           s == b.chain[1]
<1>0. PICK fit : fit = (n <= s.offset)
  OBVIOUS
<1>1. /\ b # NULL /\ n > 0 /\ (b.cached_offset < 0 => b.cached_offset + n < 0) /\ refs' = refs /\ mem' = mem
      /\ call'.ret = fit
      /\ block' = [block EXCEPT ![h] = IF n <= s.offset THEN Prepended(b, n) ELSE b]
  <2>1. call' = [op |-> "prepend", on |-> h, args |-> <<n>>, ret |-> n <= s.offset]
    BY DEF PrependTo, Called
  <2>2. call'.ret = (n <= s.offset)
    BY <2>1
  <2> QED BY <2>2, <1>0 DEF PrependTo, IsHeld
<1>2. /\ Sound(b) /\ Within(mem, b.chain) /\ Strings[h] = Octets(mem, b.chain)
      /\ \A v : Share(b, v) = Looking(b.chain, v) /\ Share(b, v) \in Nat
      /\ mem \in Memories /\ block \in Pointers
  BY <1>1, HeldFacts DEF BlockInv, BlockTypes
<1>3. CASE ~(n <= s.offset)
  <2>1. block' = [block EXCEPT ![h] = block[h]] /\ call'.ret = FALSE
    <3>3. s.offset \in Nat
      <4>1. b.chain \in Seq(Views) /\ 1 \in 1..Len(b.chain)
        BY <1>2, SoundFacts
      <4> QED BY <4>1, SizesInNat
    <3>4. PICK z \in Nat : z = s.offset
      BY <3>3
    <3>5. fit = (n <= z) /\ ~(n <= z)
      BY <1>0, <1>3, <3>4
    <3>6. fit = FALSE
      <4>1. (n <= z) \in BOOLEAN
        BY SMT
      <4> QED BY <3>5, <4>1, Zenon
    <3>1. call'.ret = FALSE
      BY <1>1, <3>6
    <3>2. block' = [block EXCEPT ![h] = b]
      BY <1>1, <1>3
    <3> QED BY <3>1, <3>2
  <2>2. block' = block
    BY <2>1, <1>2 DEF Pointers
  <2>3. BlockInv' /\ Strings' = Strings
    BY <2>2, <1>1, NothingChanges
  <2> QED BY <2>1, <2>3, <1>1
<1>4. CASE n <= s.offset
  <2>1. PICK u : u = Prepended(b, n)
    OBVIOUS
  <2>2. block' = [block EXCEPT ![h] = u] /\ call'.ret = TRUE
    BY <1>0, <1>1, <1>4, <2>1
  <2>3. PICK k \in Nat : k = n /\ k > 0
    BY <1>1
  <2>4. /\ s \in Views /\ s.offset \in Nat /\ s.size \in Nat /\ s.shared \in Buffers
        /\ s.offset + s.size <= Len(mem[s.shared])
    <3>1. b.chain \in Seq(Views) /\ 1 \in 1..Len(b.chain)
      BY <1>2, SoundFacts
    <3>2. s \in Views /\ s.offset + s.size <= Len(mem[s.shared])
      BY <3>1, <1>2, SizesInNat DEF Within
    <3> HIDE DEF s
    <3> QED BY <3>2 DEF Views
  <2>5. PICK p : p = SubSeq(mem[s.shared], s.offset - k + 1, s.offset)
    OBVIOUS
  <2>6. p \in Seq(Nat) /\ Len(p) = k
    <3>1. PICK x \in Nat, y \in Nat : x = s.offset /\ y = s.size
      BY <2>4
    <3>2. PICK q \in Seq(Nat) : q = mem[s.shared]
      BY <1>2, <2>4 DEF Memories
    <3>3. PICK z \in Nat : z = x - k
      BY <1>4, <2>3, <3>1
    <3>4. z + k <= Len(q) /\ z + k = x
      <4>1. PICK g \in Nat : g = Len(q)
        OBVIOUS
      <4>2. x + y <= g
        BY <4>1, <2>4, <3>1, <3>2
      <4> QED BY <4>1, <4>2, <3>3
    <3>5. SubSeq(q, z + 1, z + k) \in Seq(Nat) /\ Len(SubSeq(q, z + 1, z + k)) = k
      BY <3>4, PieceIs
    <3>6. p = SubSeq(q, z + 1, z + k)
      BY <2>5, <3>1, <3>2, <3>3, <3>4
    <3> QED BY <3>5, <3>6
  <2>7. /\ Gives(mem, u, p \o Strings[h])
        /\ \A v : Looking(u.chain, v) = Looking(b.chain, v)
    <3>1. PICK c : c = b
      OBVIOUS
    <3>2. Sound(c) /\ Within(mem, c.chain) /\ (c.cached_offset < 0 => c.cached_offset + k < 0) /\ k <= c.chain[1].offset
      BY <1>1, <1>2, <1>4, <2>3, <3>1
    <3>3. PICK w : w = Prepended(c, k)
      OBVIOUS
    <3>4. /\ Gives(mem, w, SubSeq(mem[c.chain[1].shared], c.chain[1].offset - k + 1, c.chain[1].offset)
                             \o Octets(mem, c.chain))
          /\ \A v : Looking(w.chain, v) = Looking(c.chain, v)
      BY <1>2, <2>3, <3>2, <3>3, PrependedRight
    <3> QED BY <1>2, <2>1, <2>3, <2>5, <3>1, <3>3, <3>4
  <2>8. PICK r : r = p \o Strings[h]
    OBVIOUS
  <2>9. u # NULL
    BY <2>7, BlockAssumption DEF Gives, Sound
  <2>10. Fine(u, r)
    BY <2>7, <2>8, <2>9 DEF Fine
  <2>11. MemoryFollows /\ refs' \in [Buffers -> Int]
    BY <1>1, UnchangedFollow
  <2>12. ASSUME NEW v \in Buffers PROVE refs'[v] = refs[v] - Share(block[h], v) + Share(u, v)
    <3>1. Share(u, v) = Share(block[h], v)
      BY <1>2, <2>7, <2>9 DEF Share
    <3>2. PICK x \in Nat, y \in Nat : x = refs[v] /\ y = Share(block[h], v)
      BY <1>2 DEF BlockInv, BlockTypes
    <3>3. x - y + y = x
      OBVIOUS
    <3> QED BY <3>1, <3>2, <3>3, <1>1
  <2>13. One(h, u, r)
    BY <2>2, <2>10, <2>11, <2>12 DEF One
  <2>14. BlockInv' /\ Strings' = [Strings EXCEPT ![h] = r]
    BY <2>13, OneBecomes
  <2> QED BY <2>2, <2>3, <2>6, <2>8, <2>14
<1> QED BY <1>3, <1>4

(* The invariant holds before any call,                                    *)
LEMMA InitInv ==
    ASSUME BlockInit
    PROVE  BlockInv
<1>1. block \in Pointers /\ refs \in [Buffers -> Nat] /\ mem \in Memories
  BY DEF BlockInit, Pointers, Memories
<1>2. \A h \in Handles : block[h] = NULL
  BY DEF BlockInit
<1>3. ASSUME NEW s \in Buffers PROVE refs[s] = Cardinality(Seen(block, s))
  <2>1. Seen(block, s) = {}
    BY <1>2 DEF Seen, InUse
  <2> QED BY <2>1, FS_EmptySet DEF BlockInit
<1> QED BY <1>1, <1>2, <1>3 DEF BlockInit, BlockInv, BlockTypes, HeadsSound, RefsCount, MemoryHeld

(* and after each.                                                         *)
LEMMA NextInv ==
    ASSUME BlockInv, [BlockNext]_blockVars
    PROVE  BlockInv'
<1> USE DEF Offsets, Sizes
<1>0. -1..MaxSize \subseteq Int /\ \A n \in -1..MaxSize : n >= -1
  BY BlockAssumption
<1>1. ASSUME NEW h \in Handles, NEW s \in Buffers, Alloc(h, s) PROVE BlockInv'
  BY <1>1, AllocStep
<1>2. ASSUME NEW h \in Handles, Free(h) PROVE BlockInv'
  BY <1>2, FreeStep
<1>3. ASSUME NEW h \in Handles, NEW o \in Offsets, Read(h, o) PROVE BlockInv'
  BY <1>0, <1>3, ReadStep
<1>4. ASSUME NEW h \in Handles, NEW o \in Offsets, TruncateAt(h, o) PROVE BlockInv'
  BY <1>0, <1>4, TruncateStep
<1>5. ASSUME NEW h \in Handles, NEW o \in Offsets, NEW n \in Sizes, DeleteFrom(h, o, n) PROVE BlockInv'
  BY <1>0, <1>5, DeleteStep
<1>6. ASSUME NEW h \in Handles, NEW o \in Offsets, NEW n \in Sizes, ResizeTo(h, o, n) PROVE BlockInv'
  BY <1>0, <1>6, ResizeStep
<1>7. ASSUME NEW h \in Handles, NEW n \in Sizes, PrependTo(h, n) PROVE BlockInv'
  BY <1>0, <1>7, PrependStep
<1>8. ASSUME NEW h \in Handles, NEW i \in Handles, Dup(h, i) PROVE BlockInv'
  BY <1>8, DupStep
<1>9. ASSUME NEW h \in Handles, NEW i \in Handles, AppendTo(h, i) PROVE BlockInv'
  BY <1>9, AppendStep
<1>10. ASSUME NEW h \in Handles, NEW i \in Handles, NEW o \in Offsets, InsertInto(h, o, i) PROVE BlockInv'
  BY <1>0, <1>10, InsertStep
<1>11. ASSUME NEW h \in Handles, NEW i \in Handles, NEW o \in Offsets, SplitAt(h, o, i) PROVE BlockInv'
  BY <1>0, <1>11, SplitStep
<1>12. ASSUME NEW h \in Handles, NEW i \in Handles, NEW o \in Offsets, NEW n \in Sizes, SpliceOut(h, o, n, i)
       PROVE  BlockInv'
  <2>1. o \in Int /\ n \in Int /\ n >= -1
    BY <1>0
  <2>2. Length(block[h], o, n) >= 0
    <3>1. /\ block[h] # NULL /\ Absolute(block[h], o) \in 0..block[h].total_size
      BY <1>12 DEF SpliceOut, IsHeld
    <3>2. block[h].total_size \in Nat
      BY <3>1, StringIs
    <3> QED BY <2>1, <3>1, <3>2 DEF Length
  <2> QED BY <2>1, <2>2, <1>12, SpliceOutStep
<1>13. ASSUME UNCHANGED blockVars PROVE BlockInv'
  BY <1>13, NothingChanges DEF blockVars
<1> QED BY <1>1, <1>2, <1>3, <1>4, <1>5, <1>6, <1>7, <1>8, <1>9, <1>10, <1>11, <1>12, <1>13
        DEF BlockNext

(* In every state that calls lead to, heads are sound and counts are right:*)
(* the inductive invariant, of which the properties below are consequences.*)
THEOREM BlockInvHolds == BlockSpec => []BlockInv
BY InitInv, NextInv, PTL DEF BlockSpec

-----------------------------------------------------------------------------
(* The octets of a handle, as the module and as the proofs name them.      *)
LEMMA ContentIs ==
    ASSUME NEW b, b.chain \in Seq(Views)
    PROVE  Content(b) = Octets(mem, b.chain)
<1>1. ASSUME NEW k \in DOMAIN b.chain PROVE Window(b.chain[k], 0) = View(mem, b.chain[k])
  <2>1. PICK s \in Views : s = b.chain[k]
    BY SizesInNat
  <2>2. PICK x \in Nat : x = s.offset
    BY DEF Views
  <2>3. x + 0 + 1 = x + 1
    OBVIOUS
  <2> QED BY <2>1, <2>2, <2>3 DEF Window, View
<1>2. [k \in DOMAIN b.chain |-> Window(b.chain[k], 0)] = [k \in DOMAIN b.chain |-> View(mem, b.chain[k])]
  BY <1>1
<1> QED BY <1>2 DEF Content, Octets

(* What can be read at once is a part of the octets.                       *)
LEMMA WindowRight ==
    ASSUME NEW c \in Seq(Views), mem \in Memories, Within(mem, c), NEW a \in Nat, NEW g, Found(c, a, g)
    PROVE  \E n \in Nat : /\ n >= 1 /\ a + n <= Total(c)
                          /\ Window(c[g.seg], g.offset) = SubSeq(Octets(mem, c), a + 1, a + n)
<1>1. /\ g.seg \in 1..Len(c) /\ g.offset \in Nat /\ g.offset < c[g.seg].size
      /\ c[g.seg] \in Views /\ c[g.seg].size \in Nat
      /\ Sums(c)[g.seg - 1] \in Nat /\ a = Sums(c)[g.seg - 1] + g.offset
  BY FoundFacts
<1>2. PICK i \in 1..Len(c), o \in Nat, s \in Views : i = g.seg /\ o = g.offset /\ s = c[i]
  BY <1>1
<1>3. PICK x \in Nat, z \in Nat, y \in Nat : x = s.offset /\ z = s.size /\ y = Sums(c)[i - 1]
  BY <1>1, <1>2 DEF Views
<1>4. o < z /\ a = y + o
  BY <1>1, <1>2, <1>3
<1>5. PICK n \in Nat : n = z - o
  BY <1>4
<1>6. PICK q \in Seq(Nat) : q = Octets(mem, c) /\ HasOctets(mem, c, q)
  BY OctetsRight DEF HasOctets
<1>7. PICK l \in Nat : l = Total(c) /\ l = Len(q)
  BY <1>6 DEF HasOctets
<1>8. a + n <= l
  <2>1. z \in 1..c[i].size /\ Len(c) \in i..Len(c)
    BY <1>2, <1>3, <1>4, SizesInNat, SMTT(60)
  <2>2. Sums(c)[i - 1] + z \in 1..Sums(c)[Len(c)] /\ Sums(c)[Len(c)] = l
    BY <2>1, <1>7, Positions DEF Total
  <2>3. y + z <= l
    BY <2>2, <1>3
  <2> QED BY <2>3, <1>4, <1>5
<1>9. /\ SubSeq(q, a + 1, a + n) \in Seq(Nat) /\ Len(SubSeq(q, a + 1, a + n)) = n
      /\ \A p \in 1..n : SubSeq(q, a + 1, a + n)[p] = q[a + p]
  BY <1>7, <1>8, PieceIs
<1>10. PICK m \in Seq(Nat) : m = mem[s.shared]
  BY DEF Memories, Views
<1>11. x + z <= Len(m)
  BY <1>2, <1>3, <1>10 DEF Within
<1>12. PICK w : w = Window(c[g.seg], g.offset)
  OBVIOUS
<1>13. w = SubSeq(m, (x + o) + 1, (x + o) + n)
  <2>1. (x + o) + n = x + z /\ x + o + 1 = (x + o) + 1
    BY <1>5
  <2> QED BY <2>1, <1>2, <1>3, <1>10, <1>12 DEF Window
<1>14. w \in Seq(Nat) /\ Len(w) = n /\ \A p \in 1..n : w[p] = m[(x + o) + p]
  <2>1. PICK t \in Nat : t = x + o
    OBVIOUS
  <2>2. t + n <= Len(m)
    <3>1. t + n = x + z
      BY <2>1, <1>5
    <3> QED BY <3>1, <1>11
  <2>3. /\ SubSeq(m, t + 1, t + n) \in Seq(Nat) /\ Len(SubSeq(m, t + 1, t + n)) = n
        /\ \A p \in 1..n : SubSeq(m, t + 1, t + n)[p] = m[t + p]
    BY <2>2, PieceIs
  <2> QED BY <2>1, <2>3, <1>13
<1>15. ASSUME NEW p \in 1..n PROVE w[p] = SubSeq(q, a + 1, a + n)[p]
  <2>1. PICK j \in 1..z : j = o + p
    BY <1>4, <1>5
  <2>2. q[Sums(c)[i - 1] + j] = mem[c[i].shared][c[i].offset + j]
    BY <2>1, <1>2, <1>3, <1>6 DEF HasOctets
  <2>3. y + j = a + p /\ x + j = (x + o) + p
    BY <2>1, <1>4
  <2>4. q[a + p] = m[(x + o) + p]
    BY <2>2, <2>3, <1>2, <1>3, <1>10
  <2> QED BY <2>4, <1>9, <1>14
<1>16. w = SubSeq(q, a + 1, a + n)
  BY <1>9, <1>14, <1>15, SeqEqual
<1>17. n >= 1
  BY <1>4, <1>5
<1> QED BY <1>6, <1>7, <1>8, <1>12, <1>16, <1>17

(* The total size of a head (ubuf_block.h) is that of its segments, none of*)
(* which is out of its buffer, and a shared buffer (ubuf_block_mem.c) is   *)
(* counted once for each segment that looks at it and freed with the last. *)
THEOREM MemoryStaysExact == BlockSpec => []MemoryExact
<1>1. ASSUME BlockInv PROVE MemoryExact
  <2>1. SizesExact
    <3>1. ASSUME NEW h \in Taken
          PROVE  /\ block[h].total_size = Len(Content(block[h]))
                 /\ {block[h].cached_ubuf, block[h].cached_end_ubuf} \subseteq DOMAIN block[h].chain
                 /\ \A k \in DOMAIN block[h].chain :
                      /\ block[h].chain[k].offset >= 0 /\ block[h].chain[k].size >= 0
                      /\ block[h].chain[k].offset + block[h].chain[k].size
                           <= Len(mem[block[h].chain[k].shared])
      <4>1. PICK b : b = block[h] /\ b # NULL /\ h \in Handles
        BY DEF Taken, IsHeld
      <4>2. Sound(b) /\ Within(mem, b.chain) /\ mem \in Memories /\ b.chain \in Seq(Views)
        BY <1>1, <4>1, HeldFacts DEF BlockInv, BlockTypes
      <4>3. Content(b) = Octets(mem, b.chain)
        BY <4>2, ContentIs
      <4>4. b.total_size = Len(Content(b))
        BY <1>1, <4>1, <4>3, StringIs, HeldFacts
      <4>5. {b.cached_ubuf, b.cached_end_ubuf} \subseteq DOMAIN b.chain
        BY <4>2, SoundFacts
      <4>6. ASSUME NEW k \in DOMAIN b.chain
            PROVE  /\ b.chain[k].offset >= 0 /\ b.chain[k].size >= 0
                   /\ b.chain[k].offset + b.chain[k].size <= Len(mem[b.chain[k].shared])
        <5>1. k \in 1..Len(b.chain) /\ b.chain[k].offset \in Nat /\ b.chain[k].size \in Nat
          BY <4>2, SizesInNat
        <5> QED BY <5>1, <4>2 DEF Within
      <4> QED BY <4>1, <4>4, <4>5, <4>6
    <3> QED BY <3>1 DEF SizesExact
  <2>2. SharedCounted
    <3>1. ASSUME NEW s \in Buffers
          PROVE  {v \in Segments : block[v[1]].chain[v[2]].shared = s} = Seen(block, s)
      BY DEF Segments, Seen, Taken, InUse, IsHeld
    <3> QED BY <1>1, <3>1 DEF SharedCounted, BlockInv, RefsCount, MemoryHeld
  <2> QED BY <2>1, <2>2 DEF MemoryExact
<1> QED BY <1>1, BlockInvHolds, PTL

(* ubuf_block_get finds the octet asked for from either end of the block,  *)
(* whatever its cache remembers of former look-ups, and finds none at the  *)
(* end.                                                                    *)
THEOREM LookupsStayRight == BlockSpec => []LookupsRight
<1>1. ASSUME BlockInv PROVE LookupsRight
  <2>1. ASSUME NEW h \in Taken, NEW o \in -block[h].total_size..block[h].total_size,
               ~Astray(block[h], o)
        PROVE  IF Absolute(block[h], o) = block[h].total_size
               THEN Get(block[h], o) = NULL
               ELSE Window(block[h].chain[Get(block[h], o).seg], Get(block[h], o).offset)[1]
                      = Content(block[h])[Absolute(block[h], o) + 1]
    <3>1. PICK b : b = block[h] /\ b # NULL /\ h \in Handles
      BY DEF Taken, IsHeld
    <3>2. Sound(b) /\ Within(mem, b.chain) /\ mem \in Memories /\ b.chain \in Seq(Views)
      BY <1>1, <3>1, HeldFacts DEF BlockInv, BlockTypes
    <3>3. PICK t \in Nat : t = b.total_size /\ t = Total(b.chain)
      BY <3>2, SoundFacts
    <3>4. PICK a \in 0..t : a = Absolute(b, o)
      <4>1. o \in -t..t
        BY <3>1, <3>3
      <4>2. Absolute(b, o) = IF o < 0 THEN o + t ELSE o
        BY <3>3 DEF Absolute
      <4> QED BY <4>1, <4>2
    <3>5. PICK g : g = Get(b, o)
      OBVIOUS
    <3>6. IF a < t THEN Found(b.chain, a, g) ELSE g = NULL
      <4>1. o \in Int /\ Absolute(b, o) >= 0 /\ ~Astray(b, o)
        BY <2>1, <3>1, <3>3, <3>4
      <4> QED BY <4>1, <3>2, <3>3, <3>4, <3>5, GetRight
    <3>7. CASE a = t
      BY <3>1, <3>3, <3>4, <3>5, <3>6, <3>7
    <3>8. CASE a # t
      <4>1. Found(b.chain, a, g) /\ a \in Nat
        BY <3>6, <3>8
      <4>2. PICK n \in Nat :
              /\ n >= 1 /\ a + n <= Total(b.chain)
              /\ Window(b.chain[g.seg], g.offset) = SubSeq(Octets(mem, b.chain), a + 1, a + n)
        BY <4>1, <3>2, WindowRight
      <4>3. PICK q \in Seq(Nat) : q = Octets(mem, b.chain) /\ Len(q) = Total(b.chain)
        BY <3>2, OctetsRight DEF HasOctets
      <4>4. \A p \in 1..n : SubSeq(q, a + 1, a + n)[p] = q[a + p]
        BY <4>1, <4>2, <4>3, PieceIs
      <4>5. SubSeq(q, a + 1, a + n)[1] = q[a + 1]
        BY <4>2, <4>4
      <4>6. Content(b) = q
        BY <3>2, <4>3, ContentIs
      <4> QED BY <4>2, <4>3, <4>5, <4>6, <3>1, <3>3, <3>4, <3>5, <3>8
    <3> QED BY <3>7, <3>8
  <2> QED BY <2>1 DEF LookupsRight
<1> QED BY <1>1, BlockInvHolds, PTL

(* What the refinement needs to know of a state.                           *)
Mapped == BlockInv /\ Contents = Strings

(* The invariant is enough.                                                *)
LEMMA ContentsAre ==
    ASSUME BlockInv
    PROVE  Mapped
<1>1. ASSUME NEW h \in Handles
      PROVE  (IF IsHeld(h) THEN Content(block[h]) ELSE NULL) = Text(block[h], mem)
  <2>1. CASE block[h] = NULL
    BY <2>1 DEF IsHeld, Text
  <2>2. CASE block[h] # NULL
    <3>1. Content(block[h]) = Octets(mem, block[h].chain)
      BY <2>2, HeldFacts, ContentIs
    <3> QED BY <2>2, <3>1 DEF IsHeld, Text
  <2> QED BY <2>1, <2>2
<1> QED BY <1>1 DEF Mapped, Contents, Strings

(* What the abstract calls know of their arguments is what the code knows. *)
LEMMA Agree ==
    ASSUME Mapped, NEW h \in Handles
    PROVE  /\ Contents[h] = Strings[h] /\ (Abs!IsHeld(h) <=> block[h] # NULL)
           /\ block[h] # NULL =>
                /\ Strings[h] \in Seq(Nat)
                /\ \A o \in Int : /\ Abs!From(Contents[h], o) = Absolute(block[h], o)
                                  /\ Abs!From(Contents[h], o) \in Int
                /\ \A o, n \in Int : Abs!Size(Contents[h], o, n) = Length(block[h], o, n)
                /\ \A o \in Int : Absolute(block[h], o) \in 0..block[h].total_size /\ ~Astray(block[h], o) =>
                     (Abs!InReach(Contents[h], o) <=> Get(block[h], o) # NULL)
<1>1. BlockInv /\ Contents[h] = Strings[h]
  BY DEF Mapped
<1>2. block[h] = NULL => Strings[h] = NULL
  BY DEF Strings, Text
<1>3. block[h] # NULL => /\ Strings[h] \in Seq(Nat) /\ Len(Strings[h]) = block[h].total_size
                         /\ block[h].total_size \in Nat
  BY <1>1, StringIs
<1>4. Abs!IsHeld(h) <=> block[h] # NULL
  BY <1>1, <1>2, <1>3, BlockAssumption DEF Abs!IsHeld
<1>5. ASSUME block[h] # NULL, NEW o \in Int
      PROVE  /\ Abs!From(Contents[h], o) = Absolute(block[h], o)
             /\ Abs!From(Contents[h], o) \in Int
  BY <1>1, <1>3, <1>5 DEF Abs!From, Absolute
<1>6. ASSUME block[h] # NULL, NEW o \in Int, NEW n \in Int
      PROVE  Abs!Size(Contents[h], o, n) = Length(block[h], o, n)
  BY <1>1, <1>3, <1>5, <1>6 DEF Abs!Size, Length
<1>7. ASSUME block[h] # NULL, NEW o \in Int, Absolute(block[h], o) \in 0..block[h].total_size,
             ~Astray(block[h], o)
      PROVE  Abs!InReach(Contents[h], o) <=> Get(block[h], o) # NULL
  <2>1. Get(block[h], o) # NULL <=> Absolute(block[h], o) < Len(Strings[h])
    BY <1>1, <1>7, Reachable
  <2>2. PICK z \in Nat : z = Len(Strings[h]) /\ z = block[h].total_size
    BY <1>3, <1>7
  <2>3. PICK a \in 0..z : a = Absolute(block[h], o)
    BY <2>2, <1>7
  <2>4. Abs!InReach(Contents[h], o) <=> a \in 0..z - 1
    BY <2>2, <2>3, <1>1, <1>5, <1>7 DEF Abs!InReach
  <2> QED BY <2>1, <2>2, <2>3, <2>4
<1> QED BY <1>1, <1>3, <1>4, <1>5, <1>6, <1>7

(* Each call is one of OctetStrings, or fails and changes nothing.         *)
LEMMA FreePromised ==
    ASSUME Mapped, Mapped', NEW h \in Handles, Free(h)
    PROVE  Abs!Next
<1>1. Strings' = [Strings EXCEPT ![h] = NULL]
  BY FreeStep DEF Mapped
<1>2. block[h] # NULL /\ call' = [op |-> "free", on |-> h, args |-> <<>>, ret |-> TRUE]
  BY DEF Free, IsHeld, Called
<1>3. Abs!Free(h)
  BY <1>1, <1>2, Agree DEF Abs!Free, Abs!Returned, Abs!Becomes, Mapped
<1> QED BY <1>2, <1>3 DEF Abs!Next

LEMMA AllocPromised ==
    ASSUME Mapped, Mapped', NEW h \in Handles, NEW s \in Buffers, Alloc(h, s)
    PROVE  Abs!Next
<1>1. Strings' = [Strings EXCEPT ![h] = Payload[s]]
  BY AllocStep DEF Mapped
<1>2. block[h] = NULL /\ call' = [op |-> "alloc", on |-> h, args |-> <<Payload[s]>>, ret |-> TRUE]
  BY DEF Alloc, IsHeld, Called
<1>3. Abs!Alloc(h, Payload[s])
  BY <1>1, <1>2, Agree DEF Abs!Alloc, Abs!Returned, Abs!Becomes, Mapped
<1>4. call'.op = "alloc" /\ Abs!Alloc(call'.on, call'.args[1])
  BY <1>2, <1>3
<1> QED BY <1>4 DEF Abs!Next

LEMMA DupPromised ==
    ASSUME Mapped, Mapped', NEW h \in Handles, NEW i \in Handles, Dup(h, i)
    PROVE  Abs!Next
<1>1. Strings' = [Strings EXCEPT ![i] = Strings[h]]
  BY DupStep DEF Mapped
<1>2. /\ block[h] # NULL /\ block[i] = NULL
      /\ call' = [op |-> "dup", on |-> h, args |-> <<i>>, ret |-> TRUE]
  BY DEF Dup, IsHeld, Called
<1>3. Abs!Dup(h, i)
  BY <1>1, <1>2, Agree DEF Abs!Dup, Abs!Returned, Abs!Becomes, Mapped
<1>4. call'.op = "dup" /\ Abs!Dup(call'.on, call'.args[1])
  BY <1>2, <1>3
<1> QED BY <1>4 DEF Abs!Next

LEMMA AppendPromised ==
    ASSUME Mapped, Mapped', NEW h \in Handles, NEW i \in Handles, AppendTo(h, i)
    PROVE  Abs!Next
<1>0. DOMAIN Strings = Handles
  BY DEF Strings
<1>1. Strings' = [Strings EXCEPT ![i] = NULL, ![h] = Strings[h] \o Strings[i]]
  BY AppendStep DEF Mapped
<1>2. /\ block[h] # NULL /\ block[i] # NULL /\ h # i
      /\ call' = [op |-> "append", on |-> h, args |-> <<i>>, ret |-> TRUE]
  BY DEF AppendTo, IsHeld, Called
<1>3. Strings' = [Strings EXCEPT ![h] = Strings[h] \o Strings[i], ![i] = NULL]
  <2>1. PICK s, q : s = Strings /\ q = Strings[h] \o Strings[i] /\ DOMAIN s = Handles
    BY <1>0
  <2>2. [s EXCEPT ![i] = NULL, ![h] = q] = [s EXCEPT ![h] = q, ![i] = NULL]
    BY <1>2, <2>1
  <2> QED BY <1>1, <2>1, <2>2
<1>4. Abs!AppendTo(h, i)
  BY <1>2, <1>3, Agree DEF Abs!AppendTo, Abs!Returned, Abs!Become, Mapped
<1>5. call'.op = "append" /\ Abs!AppendTo(call'.on, call'.args[1])
  BY <1>2, <1>4
<1> QED BY <1>5 DEF Abs!Next

LEMMA ReadPromised ==
    ASSUME Mapped, Mapped', NEW h \in Handles, NEW o \in Int, Read(h, o)
    PROVE  Abs!Next
<1>1. Strings' = Strings
  BY ReadStep DEF Mapped
<1> DEFINE g == Get(block[h], o)
           r == IF g = NULL THEN NULL ELSE Window(block[h].chain[g.seg], g.offset)
           a == Absolute(block[h], o)
<1>2. /\ block[h] # NULL /\ ~Astray(block[h], o) /\ a \in 0..block[h].total_size
      /\ call' = [op |-> "read", on |-> h, args |-> <<o>>, ret |-> r]
  BY DEF Read, IsHeld, Called
<1>3. /\ Sound(block[h]) /\ Within(mem, block[h].chain) /\ Strings[h] = Octets(mem, block[h].chain)
      /\ block[h].chain \in Seq(Views) /\ mem \in Memories /\ Strings[h] \in Seq(Nat)
      /\ Len(Strings[h]) = block[h].total_size /\ block[h].total_size \in Nat
      /\ block[h].total_size = Total(block[h].chain)
  BY <1>2, HeldFacts, StringIs, SoundFacts DEF Mapped, BlockInv, BlockTypes
<1>4. (Abs!InReach(Contents[h], o) <=> g # NULL) /\ Contents[h] = Strings[h] /\ Abs!IsHeld(h)
      /\ Abs!From(Contents[h], o) = a
  BY <1>2, Agree
<1>5. ASSUME g # NULL
      PROVE  \E n \in 1..Len(Abs!After(Contents[h], o)) : r = SubSeq(Abs!After(Contents[h], o), 1, n)
  <2>1. Found(block[h].chain, a, g) /\ a \in Nat
    <3>1. a \in Nat /\ a >= 0
      BY <1>2, <1>3
    <3>2. IF a < block[h].total_size THEN Found(block[h].chain, a, g) ELSE g = NULL
      BY <1>2, <1>3, <3>1, GetRight
    <3> QED BY <3>1, <3>2, <1>5
  <2> HIDE DEF g, a
  <2>2. PICK n \in Nat :
          /\ n >= 1 /\ a + n <= Total(block[h].chain)
          /\ Window(block[h].chain[g.seg], g.offset) = SubSeq(Strings[h], a + 1, a + n)
    <3>1. PICK c \in Seq(Views) : c = block[h].chain
      BY <1>3
    <3>2. PICK k \in Nat : k = a
      BY <2>1
    <3>3. Within(mem, c) /\ Found(c, k, g) /\ mem \in Memories
      BY <1>3, <2>1, <3>1, <3>2
    <3>4. PICK n \in Nat : /\ n >= 1 /\ k + n <= Total(c)
                           /\ Window(c[g.seg], g.offset) = SubSeq(Octets(mem, c), k + 1, k + n)
      BY <3>3, WindowRight
    <3> QED BY <3>1, <3>2, <3>4, <1>3
  <2>3. PICK q \in Seq(Nat), k \in Nat, l \in Nat : q = Strings[h] /\ k = a /\ l = Len(q) /\ k + n <= l
    <3>1. a + n <= Len(Strings[h]) /\ Len(Strings[h]) \in Nat
      BY <2>2, <1>3
    <3> QED BY <3>1, <2>1, <1>3
  <2>4. PICK rest : rest = Abs!After(Contents[h], o)
    OBVIOUS
  <2>5. rest = SubSeq(q, k + 1, l)
    BY <2>3, <2>4, <1>4 DEF Abs!After
  <2>6. PICK m \in Nat : m = l - k /\ n <= m
    <3>1. l - k \in Nat /\ n <= l - k
      BY <2>3
    <3> QED BY <3>1
  <2>7. rest \in Seq(Nat) /\ Len(rest) = m /\ \A p \in 1..m : rest[p] = q[k + p]
    <3>1. k + m = l /\ k + m <= Len(q)
      BY <2>3, <2>6
    <3>2. /\ SubSeq(q, k + 1, k + m) \in Seq(Nat) /\ Len(SubSeq(q, k + 1, k + m)) = m
          /\ \A p \in 1..m : SubSeq(q, k + 1, k + m)[p] = q[k + p]
      BY <3>1, PieceIs
    <3> QED BY <3>1, <3>2, <2>5
  <2>8. /\ SubSeq(rest, 1, n) \in Seq(Nat) /\ Len(SubSeq(rest, 1, n)) = n
        /\ \A p \in 1..n : SubSeq(rest, 1, n)[p] = rest[p]
    <3>1. PICK w \in Seq(Nat) : w = rest
      BY <2>7
    <3>2. /\ SubSeq(w, 0 + 1, 0 + n) \in Seq(Nat) /\ Len(SubSeq(w, 0 + 1, 0 + n)) = n
          /\ \A p \in 1..n : SubSeq(w, 0 + 1, 0 + n)[p] = w[0 + p]
      <4>1. 0 + n <= Len(w)
        BY <3>1, <2>6, <2>7
      <4> QED BY <4>1, PieceIs
    <3>3. \A p \in 1..n : 0 + p = p
      OBVIOUS
    <3> QED BY <3>1, <3>2, <3>3
  <2>9. /\ SubSeq(q, k + 1, k + n) \in Seq(Nat) /\ Len(SubSeq(q, k + 1, k + n)) = n
        /\ \A p \in 1..n : SubSeq(q, k + 1, k + n)[p] = q[k + p]
    BY <2>3, PieceIs
  <2>10. \A p \in 1..n : p \in 1..m
    BY <2>6
  <2>11. SubSeq(q, k + 1, k + n) = SubSeq(rest, 1, n)
    BY <2>7, <2>8, <2>9, <2>10, SeqEqual
  <2>12. n \in 1..Len(rest)
    BY <2>2, <2>6, <2>7
  <2> QED BY <1>5, <2>2, <2>3, <2>4, <2>11, <2>12
<1> HIDE DEF r, g, a
<1>6. ASSUME g = NULL PROVE r = NULL
  BY <1>6 DEF r
<1>7. Abs!Read(h, o)
  BY <1>1, <1>2, <1>4, <1>5, <1>6 DEF Abs!Read, Abs!Returned, Mapped
<1>8. call'.op = "read" /\ Abs!Read(call'.on, call'.args[1])
  BY <1>2, <1>7
<1> QED BY <1>8 DEF Abs!Next

LEMMA InsertPromised ==
    ASSUME Mapped, Mapped', NEW h \in Handles, NEW i \in Handles, NEW o \in Int, InsertInto(h, o, i)
    PROVE  Abs!Next
<1> DEFINE a == Absolute(block[h], o)
           s == Strings[h]
           q == SubSeq(s, 1, a) \o Strings[i] \o SubSeq(s, a + 1, Len(s))
<1>0. DOMAIN Strings = Handles
  BY DEF Strings
<1>1. IF Get(block[h], o) # NULL THEN Strings' = [Strings EXCEPT ![i] = NULL, ![h] = q]
      ELSE Strings' = Strings
  BY InsertStep DEF Mapped
<1>2. /\ block[h] # NULL /\ ~Astray(block[h], o) /\ block[i] # NULL /\ h # i /\ a \in 0..block[h].total_size
      /\ call' = [op |-> "insert", on |-> h, args |-> <<o, i>>, ret |-> Get(block[h], o) # NULL]
  BY DEF InsertInto, IsHeld, Called
<1>3. (Abs!InReach(Contents[h], o) <=> Get(block[h], o) # NULL) /\ Contents[h] = s
      /\ Contents[i] = Strings[i] /\ Abs!IsHeld(h) /\ Abs!IsHeld(i) /\ Abs!From(Contents[h], o) = a
  BY <1>2, Agree
<1>4. Abs!Before(Contents[h], o) \o Contents[i] \o Abs!After(Contents[h], o) = q
  BY <1>3 DEF Abs!Before, Abs!After
<1> HIDE DEF q
<1>5. [Strings EXCEPT ![i] = NULL, ![h] = q] = [Strings EXCEPT ![h] = q, ![i] = NULL]
  <2>1. PICK z : z = Strings /\ DOMAIN z = Handles
    BY <1>0
  <2>2. [z EXCEPT ![i] = NULL, ![h] = q] = [z EXCEPT ![h] = q, ![i] = NULL]
    BY <1>2, <2>1
  <2> QED BY <2>1, <2>2
<1>6. call'.ret = Abs!InReach(Contents[h], o)
  <2>1. call'.ret = (Get(block[h], o) # NULL)
    BY <1>2
  <2> QED BY <2>1, <1>3 DEF Abs!InReach
<1>7. Abs!InsertInto(h, o, i)
  BY <1>1, <1>2, <1>3, <1>4, <1>5, <1>6 DEF Abs!InsertInto, Abs!Returned, Abs!Become, Mapped
<1>8. call'.op = "insert" /\ Abs!InsertInto(call'.on, call'.args[1], call'.args[2])
  BY <1>2, <1>7
<1> QED BY <1>8 DEF Abs!Next

LEMMA SplitPromised ==
    ASSUME Mapped, Mapped', NEW h \in Handles, NEW i \in Handles, NEW o \in Int, SplitAt(h, o, i)
    PROVE  Abs!Next
<1> DEFINE a == Absolute(block[h], o)
           s == Strings[h]
           p == SubSeq(s, 1, a)
           q == SubSeq(s, a + 1, Len(s))
<1>1. IF Get(block[h], o) # NULL THEN Strings' = [Strings EXCEPT ![h] = p, ![i] = q]
      ELSE Strings' = Strings
  BY SplitStep DEF Mapped
<1>2. /\ block[h] # NULL /\ ~Astray(block[h], o) /\ block[i] = NULL /\ a \in 0..block[h].total_size
      /\ call' = [op |-> "split", on |-> h, args |-> <<o, i>>, ret |-> Get(block[h], o) # NULL]
  BY DEF SplitAt, IsHeld, Called
<1>3. (Abs!InReach(Contents[h], o) <=> Get(block[h], o) # NULL) /\ Contents[h] = s
      /\ Abs!IsHeld(h) /\ ~Abs!IsHeld(i) /\ Abs!From(Contents[h], o) = a
  BY <1>2, Agree
<1>4. Abs!Before(Contents[h], o) = p /\ Abs!After(Contents[h], o) = q
  BY <1>3 DEF Abs!Before, Abs!After
<1> HIDE DEF p, q
<1>6. call'.ret = Abs!InReach(Contents[h], o)
  <2>1. call'.ret = (Get(block[h], o) # NULL)
    BY <1>2
  <2> QED BY <2>1, <1>3 DEF Abs!InReach
<1>7. Abs!SplitAt(h, o, i)
  BY <1>1, <1>2, <1>3, <1>4, <1>6 DEF Abs!SplitAt, Abs!Returned, Abs!Become, Mapped
<1>8. call'.op = "split" /\ Abs!SplitAt(call'.on, call'.args[1], call'.args[2])
  BY <1>2, <1>7
<1> QED BY <1>8 DEF Abs!Next

LEMMA SplicePromised ==
    ASSUME Mapped, Mapped', NEW h \in Handles, NEW i \in Handles, NEW o \in Int, NEW n \in Int,
           n >= -1, SpliceOut(h, o, n, i)
    PROVE  Abs!Next
<1> DEFINE a == Absolute(block[h], o)
           s == Strings[h]
           q == SubSeq(s, a + 1, a + Length(block[h], o, n))
<1>2. /\ block[h] # NULL /\ ~Astray(block[h], o) /\ block[i] = NULL /\ a \in 0..block[h].total_size
      /\ call' = [op |-> "splice", on |-> h, args |-> <<o, n, i>>, ret |-> Get(block[h], o) # NULL]
  BY DEF SpliceOut, IsHeld, Called
<1>9. Length(block[h], o, n) >= 0
  <2>1. block[h].total_size \in Nat
    BY <1>2, StringIs DEF Mapped
  <2> QED BY <1>2, <2>1 DEF Length
<1>1. IF Get(block[h], o) # NULL THEN Strings' = [Strings EXCEPT ![i] = q]
      ELSE Strings' = Strings
  BY <1>9, SpliceOutStep DEF Mapped
<1>3. (Abs!InReach(Contents[h], o) <=> Get(block[h], o) # NULL) /\ Contents[h] = s
      /\ Abs!IsHeld(h) /\ ~Abs!IsHeld(i) /\ Abs!From(Contents[h], o) = a
      /\ Abs!Size(Contents[h], o, n) = Length(block[h], o, n)
  BY <1>2, Agree
<1>4. Abs!Part(Contents[h], o, n) = q
  BY <1>3 DEF Abs!Part
<1> HIDE DEF q
<1>6. call'.ret = Abs!InReach(Contents[h], o)
  <2>1. call'.ret = (Get(block[h], o) # NULL)
    BY <1>2
  <2> QED BY <2>1, <1>3 DEF Abs!InReach
<1>7. Abs!SpliceOut(h, o, n, i)
  BY <1>1, <1>2, <1>3, <1>4, <1>6 DEF Abs!SpliceOut, Abs!Returned, Abs!Becomes, Mapped
<1>8. call'.op = "splice" /\ Abs!SpliceOut(call'.on, call'.args[1], call'.args[2], call'.args[3])
  BY <1>2, <1>7
<1> QED BY <1>8 DEF Abs!Next

LEMMA DeletePromised ==
    ASSUME Mapped, Mapped', NEW h \in Handles, NEW o \in Int, NEW n \in Int, n >= -1, DeleteFrom(h, o, n)
    PROVE  Abs!Next
<1> DEFINE a == Absolute(block[h], o)
           l == Length(block[h], o, n)
           s == Strings[h]
           q == Without(s, a, l)
<1>1. IF Get(block[h], o) # NULL THEN Strings' = [Strings EXCEPT ![h] = q]
      ELSE Strings' = Strings
  BY DeleteStep DEF Mapped
<1>2. /\ block[h] # NULL /\ ~Astray(block[h], o) /\ a \in 0..block[h].total_size
      /\ call' = [op |-> "delete", on |-> h, args |-> <<o, n>>, ret |-> Deleted(block[h], o, n).ok]
  BY DEF DeleteFrom, IsHeld, Called
<1>9. a \in Nat /\ l \in Nat /\ l >= 0
  <2>1. block[h].total_size \in Nat
    BY <1>2, StringIs DEF Mapped
  <2> QED BY <1>2, <2>1 DEF Length
<1>3. (Abs!InReach(Contents[h], o) <=> Get(block[h], o) # NULL) /\ Contents[h] = s
      /\ Abs!IsHeld(h) /\ Abs!From(Contents[h], o) = a
      /\ Abs!Size(Contents[h], o, n) = Length(block[h], o, n)
  BY <1>2, Agree
<1>4. Abs!Before(Contents[h], o)
        \o Abs!After(Contents[h], Abs!From(Contents[h], o) + Abs!Size(Contents[h], o, n)) = q
  <2>1. PICK x \in Nat : x = a + l
    BY <1>9
  <2>2. Abs!From(s, x) = x
    BY DEF Abs!From
  <2>3. Abs!After(s, x) = SubSeq(s, a + l + 1, Len(s))
    BY <2>1, <2>2 DEF Abs!After
  <2>4. Abs!Before(Contents[h], o) = SubSeq(s, 1, a)
    BY <1>3 DEF Abs!Before
  <2> HIDE DEF a, l
  <2> QED BY <2>1, <2>3, <2>4, <1>3 DEF Without, l
<1> HIDE DEF q
<1>6. call'.ret = Abs!InReach(Contents[h], o)
  <2>1. call'.ret = (Get(block[h], o) # NULL)
    <3>1. Deleted(block[h], o, n).ok = (Get(block[h], o) # NULL)
      BY DEF Deleted
    <3> QED BY <1>2, <3>1
  <2> QED BY <2>1, <1>3 DEF Abs!InReach
<1>7. Abs!DeleteFrom(h, o, n)
  BY <1>1, <1>2, <1>3, <1>4, <1>6 DEF Abs!DeleteFrom, Abs!Returned, Abs!Becomes, Mapped
<1>8. call'.op = "delete" /\ Abs!DeleteFrom(call'.on, call'.args[1], call'.args[2])
  BY <1>2, <1>7
<1> QED BY <1>8 DEF Abs!Next

LEMMA TruncatePromised ==
    ASSUME Mapped, Mapped', NEW h \in Handles, NEW o \in Int, TruncateAt(h, o)
    PROVE  Abs!Next
<1>1. /\ Truncated(block[h], o).ok \in BOOLEAN
      /\ Truncated(block[h], o).ok <=> o <= Len(Strings[h])
      /\ IF o <= Len(Strings[h])
         THEN Strings' = [Strings EXCEPT ![h] = SubSeq(Strings[h], 1, o)]
         ELSE Strings' = Strings
  BY TruncateStep DEF Mapped
<1>2. /\ block[h] # NULL /\ o >= 0
      /\ call' = [op |-> "truncate", on |-> h, args |-> <<o>>, ret |-> Truncated(block[h], o).ok]
  BY DEF TruncateAt, IsHeld, Called
<1>3. Contents[h] = Strings[h] /\ Abs!IsHeld(h) /\ Strings[h] \in Seq(Nat)
  BY <1>2, Agree
<1>4. Abs!Before(Contents[h], o) = SubSeq(Strings[h], 1, o)
  BY <1>2, <1>3 DEF Abs!Before, Abs!From
<1>5. PICK z \in Nat : z = Len(Contents[h])
  BY <1>3
<1>6. call'.ret = (o <= Len(Contents[h]))
  <2> DEFINE short == o <= Len(Contents[h])
  <2>1. short \in BOOLEAN
    BY <1>5
  <2>2. call'.ret \in BOOLEAN /\ (call'.ret <=> short)
    BY <1>1, <1>2, <1>3
  <2> HIDE DEF short
  <2>3. call'.ret = short
    BY <2>1, <2>2
  <2> QED BY <2>3 DEF short
<1>7. Abs!TruncateAt(h, o)
  BY <1>1, <1>3, <1>4, <1>6 DEF Abs!TruncateAt, Abs!Returned, Abs!Becomes, Mapped
<1>8. call'.op = "truncate" /\ Abs!TruncateAt(call'.on, call'.args[1])
  BY <1>2, <1>7
<1> QED BY <1>8 DEF Abs!Next

LEMMA ResizePromised ==
    ASSUME Mapped, Mapped', NEW h \in Handles, NEW o \in Int, NEW n \in Int, n >= -1, ResizeTo(h, o, n)
    PROVE  Abs!Next
<1> DEFINE a == Absolute(block[h], o)
           l == Length(block[h], o, n)
           s == Strings[h]
           q == SubSeq(s, a + 1, a + l)
           fits == Abs!From(s, o) >= 0 /\ Abs!From(s, o) + Abs!Size(s, o, n) <= Len(s)
<1>1. /\ call'.ret \in BOOLEAN /\ (call'.ret <=> Fits(block[h], o, n))
      /\ IF Fits(block[h], o, n) THEN Strings' = [Strings EXCEPT ![h] = q] ELSE Strings' = Strings
  BY ResizeStep DEF Mapped
<1>2. /\ block[h] # NULL /\ call'.op = "resize" /\ call'.on = h /\ call'.args = <<o, n>>
  BY DEF ResizeTo, IsHeld, Called
<1>3. /\ Contents[h] = s /\ Abs!IsHeld(h) /\ Abs!From(s, o) = a
      /\ Abs!Size(s, o, n) = l
  BY <1>2, Agree
<1>4. Len(s) = block[h].total_size
  BY <1>2, StringIs DEF Mapped
<1>5. Abs!Part(s, o, n) = q
  BY <1>3 DEF Abs!Part
<1>6. fits \in BOOLEAN /\ (fits <=> Fits(block[h], o, n))
  BY <1>3, <1>4 DEF Fits
<1> HIDE DEF q, fits
<1>7. call'.ret = fits
  BY <1>1, <1>6, Zenon
<1>8. Abs!ResizeTo(h, o, n)
  <2>1. IF fits THEN Contents' = [Contents EXCEPT ![h] = q] ELSE Contents' = Contents
    BY <1>1, <1>6 DEF Mapped
  <2> QED BY <2>1, <1>3, <1>5, <1>7 DEF Abs!ResizeTo, Abs!Returned, Abs!Becomes, fits
<1>9. call'.op = "resize" /\ Abs!ResizeTo(call'.on, call'.args[1], call'.args[2])
  BY <1>2, <1>8
<1> QED BY <1>9 DEF Abs!Next

LEMMA PrependPromised ==
    ASSUME Mapped, Mapped', NEW h \in Handles, NEW n \in Int, PrependTo(h, n)
    PROVE  Abs!Next
<1>1. /\ n > 0
      /\ \/ /\ call'.ret = TRUE
            /\ \E p \in Seq(Nat) : Len(p) = n /\ Strings' = [Strings EXCEPT ![h] = p \o Strings[h]]
         \/ call'.ret = FALSE /\ Strings' = Strings
  BY PrependStep DEF Mapped
<1>2. block[h] # NULL /\ call'.op = "prepend" /\ call'.on = h /\ call'.args = <<n>>
  BY DEF PrependTo, IsHeld, Called
<1>3. Contents[h] = Strings[h] /\ Abs!IsHeld(h) /\ Strings[h] \in Seq(Nat)
  BY <1>2, Agree
<1>4. Abs!PrependTo(h, n)
  <2>1. CASE call'.ret = FALSE /\ Strings' = Strings
    BY <2>1, <1>3 DEF Abs!PrependTo, Abs!Returned, Mapped
  <2>2. CASE /\ call'.ret = TRUE
             /\ \E p \in Seq(Nat) : Len(p) = n /\ Strings' = [Strings EXCEPT ![h] = p \o Strings[h]]
    <3>1. PICK p \in Seq(Nat) : Len(p) = n /\ Strings' = [Strings EXCEPT ![h] = p \o Strings[h]]
      BY <2>2
    <3>2. PICK q \in Seq(Nat) : q = Strings[h]
      BY <1>3
    <3>3. Strings'[h] = p \o q
      BY <3>1, <3>2 DEF Strings
    <3>4. SubSeq(p \o q, 1, n) = p
      <4>1. PICK k \in Nat : k = n
        BY <1>1
      <4>2. PICK w : w = p \o q
        OBVIOUS
      <4>3. /\ w \in Seq(Nat) /\ Len(w) = Len(p) + Len(q)
            /\ \A i \in 1..Len(p) + Len(q) : w[i] = IF i <= Len(p) THEN p[i] ELSE q[i - Len(p)]
        BY <4>2, ConcatProperties
      <4>4. PICK l \in Nat : l = Len(q)
        OBVIOUS
      <4>5. 0 + k <= Len(w) /\ \A i \in 1..k : i \in 1..k + l /\ i <= k /\ 0 + i = i
        BY <3>1, <4>1, <4>3, <4>4
      <4>6. /\ SubSeq(w, 0 + 1, 0 + k) \in Seq(Nat) /\ Len(SubSeq(w, 0 + 1, 0 + k)) = k
            /\ \A i \in 1..k : SubSeq(w, 0 + 1, 0 + k)[i] = w[0 + i]
        BY <4>3, <4>5, PieceIs
      <4>7. /\ SubSeq(w, 1, k) \in Seq(Nat) /\ Len(SubSeq(w, 1, k)) = Len(p)
            /\ \A i \in 1..k : SubSeq(w, 1, k)[i] = p[i]
        BY <3>1, <4>1, <4>3, <4>4, <4>5, <4>6
      <4>8. SubSeq(w, 1, k) = p
        BY <3>1, <4>1, <4>7, SeqEqual
      <4> QED BY <4>1, <4>2, <4>8
    <3>5. Contents'[h] = p \o q /\ SubSeq(Contents'[h], 1, n) = p
      BY <3>3, <3>4 DEF Mapped
    <3>6. Contents' = [Contents EXCEPT ![h] = SubSeq(Contents'[h], 1, n) \o Contents[h]]
      BY <3>1, <3>5, <1>3 DEF Mapped
    <3> QED BY <2>2, <3>1, <3>5, <3>6, <1>3 DEF Abs!PrependTo, Abs!Returned, Abs!Becomes
  <2> QED BY <2>1, <2>2, <1>1
<1>5. call'.op = "prepend" /\ Abs!PrependTo(call'.on, call'.args[1])
  BY <1>2, <1>4
<1> QED BY <1>5 DEF Abs!Next

(* The code implements OctetStrings: each function of ubuf_block.h does to *)
(* the octets of a handle, and to those of no other, what its comment says,*)
(* and fails only when it may.                                             *)
THEOREM KeepsPromises == BlockSpec => Promised
<1>1. ASSUME BlockInit PROVE Abs!Init
  BY <1>1, ContentsAre, InitInv DEF Mapped, BlockInit, Abs!Init, Strings, Text
<1>2. ASSUME Mapped, Mapped', [BlockNext]_blockVars PROVE [Abs!Next]_<<Contents, call>>
  <2> USE DEF Offsets, Sizes
  <2>0. -1..MaxSize \subseteq Int /\ \A n \in -1..MaxSize : n >= -1
    BY BlockAssumption
  <2>1. ASSUME NEW h \in Handles, NEW s \in Buffers, Alloc(h, s) PROVE Abs!Next
    BY <1>2, <2>1, AllocPromised
  <2>2. ASSUME NEW h \in Handles, Free(h) PROVE Abs!Next
    BY <1>2, <2>2, FreePromised
  <2>3. ASSUME NEW h \in Handles, NEW o \in Offsets, Read(h, o) PROVE Abs!Next
    BY <1>2, <2>0, <2>3, ReadPromised
  <2>4. ASSUME NEW h \in Handles, NEW o \in Offsets, TruncateAt(h, o) PROVE Abs!Next
    BY <1>2, <2>0, <2>4, TruncatePromised
  <2>5. ASSUME NEW h \in Handles, NEW o \in Offsets, NEW n \in Sizes, DeleteFrom(h, o, n) PROVE Abs!Next
    BY <1>2, <2>0, <2>5, DeletePromised
  <2>6. ASSUME NEW h \in Handles, NEW o \in Offsets, NEW n \in Sizes, ResizeTo(h, o, n) PROVE Abs!Next
    BY <1>2, <2>0, <2>6, ResizePromised
  <2>7. ASSUME NEW h \in Handles, NEW n \in Sizes, PrependTo(h, n) PROVE Abs!Next
    BY <1>2, <2>0, <2>7, PrependPromised
  <2>8. ASSUME NEW h \in Handles, NEW i \in Handles, Dup(h, i) PROVE Abs!Next
    BY <1>2, <2>8, DupPromised
  <2>9. ASSUME NEW h \in Handles, NEW i \in Handles, AppendTo(h, i) PROVE Abs!Next
    BY <1>2, <2>9, AppendPromised
  <2>10. ASSUME NEW h \in Handles, NEW i \in Handles, NEW o \in Offsets, InsertInto(h, o, i) PROVE Abs!Next
    BY <1>2, <2>0, <2>10, InsertPromised
  <2>11. ASSUME NEW h \in Handles, NEW i \in Handles, NEW o \in Offsets, SplitAt(h, o, i) PROVE Abs!Next
    BY <1>2, <2>0, <2>11, SplitPromised
  <2>12. ASSUME NEW h \in Handles, NEW i \in Handles, NEW o \in Offsets, NEW n \in Sizes, SpliceOut(h, o, n, i)
         PROVE  Abs!Next
    BY <1>2, <2>0, <2>12, SplicePromised
  <2>13. ASSUME UNCHANGED blockVars PROVE UNCHANGED <<Contents, call>>
    <3>1. Strings' = Strings
      BY <1>2, <2>13, NothingChanges DEF blockVars, Mapped
    <3> QED BY <1>2, <2>13, <3>1 DEF blockVars, Mapped
  <2> QED BY <1>2, <2>1, <2>2, <2>3, <2>4, <2>5, <2>6, <2>7, <2>8, <2>9, <2>10, <2>11, <2>12, <2>13
          DEF BlockNext
<1>3. BlockInv => Mapped
  BY ContentsAre
<1> QED BY <1>1, <1>2, <1>3, BlockInvHolds, PTL DEF BlockSpec, Promised, Abs!Spec

-----------------------------------------------------------------------------
(* Division by m, which provers know nothing of if m is not a number.      *)
LEMMA Divided ==
    ASSUME NEW m \in Nat, m > 0, NEW x \in Int
    PROVE  \E q \in Int, r \in 0..m - 1 : r = x % m /\ x = m * q + r
<1>1. PICK q \in Int : q = x \div m
  OBVIOUS
<1>2. PICK r \in 0..m - 1 : r = x % m
  OBVIOUS
<1>3. x = m * q + r
  BY <1>1, <1>2
<1> QED BY <1>2, <1>3

LEMMA Remainder ==
    ASSUME NEW m \in Nat, m > 0, NEW q \in Int, NEW r \in 0..m - 1, NEW x \in Int, x = m * q + r
    PROVE  x % m = r
OBVIOUS

LEMMA SameRemainder ==
    ASSUME NEW m \in Nat, m > 0, NEW x \in Int, NEW y \in Int, NEW q \in Int, x = m * q + y
    PROVE  x % m = y % m
<1>1. PICK k \in Int, r \in 0..m - 1 : r = y % m /\ y = m * k + r
  BY Divided
<1>2. PICK j \in Int : j = q + k
  OBVIOUS
<1>3. x = m * j + r
  BY <1>1, <1>2
<1>4. x % m = r
  <2>1. \A z, p \in Int : \A t \in 0..m - 1 : z = m * p + t => z % m = t
    BY Remainder
  <2> QED BY <2>1, <1>3
<1> QED BY <1>1, <1>4

LEMMA RemainderPlus ==
    ASSUME NEW m \in Nat, m > 0, NEW x \in Int, NEW y \in Int
    PROVE  ((x % m) + y) % m = (x + y) % m
<1>1. PICK q \in Int, r \in 0..m - 1 : r = x % m /\ x = m * q + r
  BY Divided
<1>2. PICK a \in Int, b \in Int : a = x + y /\ b = r + y
  OBVIOUS
<1>3. a = m * q + b
  BY <1>1, <1>2
<1>4. a % m = b % m
  BY <1>3, SameRemainder
<1> QED BY <1>1, <1>2, <1>4

LEMMA RemainderMinus ==
    ASSUME NEW m \in Nat, m > 0, NEW x \in Int, NEW y \in Int
    PROVE  ((x % m) - (y % m)) % m = (x - y) % m
<1>1. PICK k \in Int, r \in 0..m - 1 : r = y % m /\ y = m * k + r
  BY Divided
<1>2. PICK j \in Int, s \in 0..m - 1 : s = x % m /\ x = m * j + s
  BY Divided
<1>3. PICK q \in Int : q = j - k
  OBVIOUS
<1>4. PICK a \in Int, b \in Int : a = x - y /\ b = s - r
  OBVIOUS
<1>5. a = m * q + b
  BY <1>1, <1>2, <1>3, <1>4
<1>6. a % m = b % m
  BY <1>5, SameRemainder
<1> QED BY <1>1, <1>2, <1>4, <1>6

LEMMA RemainderOfLittle ==
    ASSUME NEW m \in Nat, m > 0, NEW x \in Int, -m <= x, x < m
    PROVE  x % m = IF x >= 0 THEN x ELSE x + m
<1>1. CASE x >= 0
  <2>1. x \in 0..m - 1 /\ x = m * 0 + x
    BY <1>1
  <2> QED BY <1>1, <2>1, Remainder
<1>2. CASE x < 0
  <2>1. PICK y \in 0..m - 1 : y = x + m
    BY <1>2
  <2>2. x = m * (-1) + y
    BY <2>1
  <2>3. x % m = y
    BY <2>2, Remainder
  <2> QED BY <1>2, <2>1, <2>3
<1> QED BY <1>1, <1>2

-----------------------------------------------------------------------------
(* Sequence numbers.  That of packet p:                                    *)
Number(p) == Plus(FirstSeqnum, p)

LEMMA HalfIsHalf == Half \in Nat /\ Half > 0 /\ Modulus = 2 * Half /\ Modulus \in Nat /\ Modulus > 0
BY SeqnumAssumption DEF Half

LEMMA NumberType ==
    ASSUME NEW p \in Int
    PROVE  Number(p) \in 0..Modulus - 1
BY SeqnumAssumption DEF Number, Plus

LEMMA NumberPlus ==
    ASSUME NEW p \in Int, NEW n \in Int
    PROVE  Plus(Number(p), n) = Number(p + n)
<1>1. PICK x \in Int : x = FirstSeqnum + p
  BY SeqnumAssumption
<1>2. FirstSeqnum + (p + n) = x + n
  BY <1>1, SeqnumAssumption
<1>3. ((x % Modulus) + n) % Modulus = (x + n) % Modulus
  BY HalfIsHalf, RemainderPlus
<1> QED BY <1>1, <1>2, <1>3 DEF Number, Plus

(* How far a packet is after another one, if that is not too far.          *)
LEMMA Distance ==
    ASSUME NEW a \in Int, NEW b \in Int, -Modulus <= a - b, a - b < Modulus
    PROVE  Diff(Number(a), Number(b)) = IF a >= b THEN a - b ELSE a - b + Modulus
<1>1. PICK x \in Int, y \in Int, d \in Int : x = FirstSeqnum + a /\ y = FirstSeqnum + b /\ d = a - b
  BY SeqnumAssumption
<1>2. x - y = d
  BY <1>1, SeqnumAssumption
<1>3. ((x % Modulus) - (y % Modulus)) % Modulus = d % Modulus
  BY <1>2, HalfIsHalf, RemainderMinus
<1>4. -Modulus <= d /\ d < Modulus
  BY <1>1
<1>5. d % Modulus = IF d >= 0 THEN d ELSE d + Modulus
  BY <1>4, HalfIsHalf, RemainderOfLittle
<1>6. Diff(Number(a), Number(b)) = d % Modulus
  BY <1>1, <1>3 DEF Diff, Number, Plus
<1> QED BY <1>1, <1>5, <1>6

LEMMA NumbersDiffer ==
    ASSUME NEW a \in Int, NEW b \in Int, -Modulus < a - b, a - b < Modulus, Number(a) = Number(b)
    PROVE  a = b
<1>1. Diff(Number(a), Number(b)) = IF a >= b THEN a - b ELSE a - b + Modulus
  BY HalfIsHalf, Distance
<1>2. Diff(Number(b), Number(b)) = 0
  BY HalfIsHalf, Distance
<1> QED BY <1>1, <1>2, HalfIsHalf

(* The numbers between those of two packets are those of the packets       *)
(* between.                                                                *)
LEMMA BetweenNumbers ==
    ASSUME NEW x \in Int, NEW y \in Int, x <= y, y - x < Modulus
    PROVE  Between(Number(x), Number(y)) = {Number(z) : z \in x..y - 1}
<1>1. Diff(Number(y), Number(x)) = y - x
  BY HalfIsHalf, Distance
<1>2. ASSUME NEW z \in x..y - 1
      PROVE  Number(z) \in Between(Number(x), Number(y))
  <2>1. Diff(Number(z), Number(x)) = z - x
    BY HalfIsHalf, Distance
  <2> QED BY <1>1, <2>1, NumberType DEF Between
<1>3. ASSUME NEW s \in Between(Number(x), Number(y))
      PROVE  \E z \in x..y - 1 : s = Number(z)
  <2>1. PICK d \in Int, n \in Int : d = Diff(s, Number(x)) /\ n = Number(x)
    BY NumberType, HalfIsHalf DEF Between, Diff
  <2>2. s \in 0..Modulus - 1 /\ d < y - x /\ d \in 0..Modulus - 1
    BY <1>1, <2>1, NumberType, HalfIsHalf DEF Between, Diff
  <2>3. Plus(n, d) = Number(x + d)
    BY <2>1, NumberPlus
  <2>4. Plus(n, d) = s
    <3>1. PICK e \in Int : e = s - n
      BY <2>1, <2>2
    <3>2. ((e % Modulus) + n) % Modulus = (e + n) % Modulus
      BY HalfIsHalf, RemainderPlus
    <3>3. d = e % Modulus /\ e + n = s
      BY <2>1, <2>2, <3>1 DEF Diff
    <3>4. s % Modulus = s
      BY <2>2, HalfIsHalf, RemainderOfLittle
    <3>5. n + d = (e % Modulus) + n
      BY <3>3, <2>1
    <3> QED BY <3>2, <3>3, <3>4, <3>5 DEF Plus
  <2> QED BY <2>2, <2>3, <2>4
<1> QED BY <1>2, <1>3

-----------------------------------------------------------------------------
(* The invariant.                                                          *)
Pkt == 0..Packets - 1
Stored == [pkt : Pkt, cr_sys : Int]

Typed ==
    /\ now \in Int /\ now >= Start
    /\ rtt \in 0..2 * MaxDelay
    /\ sent \in 0..Packets
    /\ kept \in Seq(Stored) /\ queue \in Seq(Stored) /\ out \in Seq(Pkt)
    /\ \A m \in packets : m.pkt \in Pkt
    /\ last_nack \in [0..Modulus - 1 -> Int]

(* What is held is in order, and behind what was output.                   *)
Sorted ==
    /\ \A i, j \in DOMAIN queue : i < j => queue[i].pkt < queue[j].pkt
    /\ \A i, j \in DOMAIN out : i < j => out[i] < out[j]
    /\ \A i \in DOMAIN out, j \in DOMAIN queue : out[i] < queue[j].pkt

Expecting ==
    /\ buffered = Len(queue)
    /\ IF queue = <<>> THEN expected_seqnum = None
       ELSE expected_seqnum = Number(queue[Len(queue)].pkt + 1)

(* What is too old is still there only until the timer goes off.           *)
Timed ==
    /\ \A i, j \in DOMAIN queue : i < j => queue[i].cr_sys <= queue[j].cr_sys
    /\ \A i \in DOMAIN queue :
         /\ queue[i].cr_sys <= now
         /\ now - queue[i].cr_sys <= IF "timer" \in due THEN Latency + 1 ELSE Latency

(* A packet that is not held, but some before and some behind it are.      *)
Held == {queue[i].pkt : i \in DOMAIN queue}
Missing == {z \in Pkt \ Held : \E x, y \in Held : x < z /\ z < y}
Marked == \A z \in Missing : last_nack[Number(z)] # 0

RInv == Typed /\ Sorted /\ Expecting /\ Timed /\ Marked

(* Sequences that are cut in front, or get an element in the middle.       *)
LEMMA CutInFront ==
    ASSUME NEW S, NEW s \in Seq(S), NEW n \in 0..Len(s)
    PROVE  LET r == SubSeq(s, n + 1, Len(s)) IN
           /\ r \in Seq(S) /\ Len(r) = Len(s) - n
           /\ DOMAIN r = 1..Len(s) - n /\ DOMAIN s = 1..Len(s)
           /\ \A i \in 1..Len(s) - n : r[i] = s[n + i]
<1>1. Len(s) \in Nat /\ n + 1 \in 1..Len(s) + 1 /\ DOMAIN s = 1..Len(s)
  BY LenProperties
<1>2. n \in Nat /\ n <= Len(s)
  BY <1>1
<1>3. \A i \in (n + 1)..Len(s) : s[i] \in S
  BY <1>1, <1>2, ElementOfSeq
<1>4. PICK t : t = SubSeq(s, n + 1, Len(s))
  OBVIOUS
<1>5. /\ t \in Seq(S) /\ Len(t) = IF n + 1 <= Len(s) THEN Len(s) - (n + 1) + 1 ELSE 0
      /\ \A i \in 1..Len(s) - (n + 1) + 1 : t[i] = s[(n + 1) + i - 1]
  BY <1>1, <1>2, <1>3, <1>4, SubSeqProperties
<1>6. PICK l \in Nat : l = Len(s) /\ n <= l
  BY <1>1, <1>2
<1>7. Len(t) = l - n /\ \A i \in 1..l - n : t[i] = s[n + i]
  BY <1>2, <1>5, <1>6
<1>8. DOMAIN t = 1..l - n
  BY <1>5, <1>7, LenProperties
<1> QED BY <1>1, <1>4, <1>5, <1>6, <1>7, <1>8

Inserted(r, s, k, e) ==
    /\ Len(r) = Len(s) + 1 /\ DOMAIN r = 1..Len(s) + 1
    /\ \A i \in 1..Len(s) + 1 :
         r[i] = IF i < k THEN s[i] ELSE IF i = k THEN e ELSE s[i - 1]

LEMMA InsertedBefore ==
    ASSUME NEW S, NEW s \in Seq(S), NEW k \in 1..Len(s), NEW e \in S
    PROVE  /\ InsertAt(s, k, e) \in Seq(S) /\ Inserted(InsertAt(s, k, e), s, k, e)
           /\ DOMAIN s = 1..Len(s)
<1> DEFINE a == SubSeq(s, 1, k - 1)
           b == SubSeq(s, k, Len(s))
           r == (a \o <<e>>) \o b
<1>1. Len(s) \in Nat /\ DOMAIN s = 1..Len(s)
  BY LenProperties
<1>2. a \in Seq(S) /\ Len(a) = k - 1 /\ \A i \in 1..k - 1 : a[i] = s[i]
  BY <1>1, SubSeqProperties
<1>3. b \in Seq(S) /\ Len(b) = Len(s) - k + 1 /\ \A i \in 1..Len(s) - k + 1 : b[i] = s[k + i - 1]
  BY <1>1, SubSeqProperties
<1>4. InsertAt(s, k, e) = r
  BY DEF InsertAt
<1>5. <<e>> \in Seq(S) /\ Len(<<e>>) = 1 /\ <<e>>[1] = e
  OBVIOUS
<1> HIDE DEF a, b
<1> DEFINE c == a \o <<e>>
<1>6. c \in Seq(S) /\ Len(c) = k /\ \A i \in 1..k : c[i] = IF i < k THEN s[i] ELSE e
  BY <1>1, <1>2, <1>5, ConcatProperties
<1> HIDE DEF c
<1>7. c \o b \in Seq(S) /\ Len(c \o b) = Len(s) + 1
      /\ \A i \in 1..Len(s) + 1 : (c \o b)[i] = IF i <= k THEN c[i] ELSE b[i - k]
  BY <1>1, <1>3, <1>6, ConcatProperties
<1>8. r \in Seq(S) /\ Len(r) = Len(s) + 1
      /\ \A i \in 1..Len(s) + 1 : r[i] = IF i <= k THEN c[i] ELSE b[i - k]
  BY <1>7 DEF c
<1> HIDE DEF r
<1>9. \A i \in 1..Len(s) + 1 :
        r[i] = IF i < k THEN s[i] ELSE IF i = k THEN e ELSE s[i - 1]
  <2> TAKE i \in 1..Len(s) + 1
  <2>1. CASE i <= k
    BY <1>1, <1>6, <1>8, <2>1
  <2>2. CASE i > k
    <3>1. i - k \in 1..Len(s) - k + 1 /\ k + (i - k) - 1 = i - 1
      BY <1>1, <2>2
    <3> QED BY <1>1, <1>3, <1>8, <2>2, <3>1, SMTT(60)
  <2> QED BY <1>1, <2>1, <2>2
<1>10. DOMAIN r = 1..Len(s) + 1
  BY <1>8, LenProperties
<1> QED BY <1>1, <1>4, <1>8, <1>9, <1>10 DEF Inserted

LEMMA Updated == \A D, S, x : \A f \in [D -> S], y \in S : [f EXCEPT ![x] = y] \in [D -> S]
OBVIOUS

-----------------------------------------------------------------------------
(* The steps of the receiver.                                              *)
LEMMA Moment ==
    ASSUME Typed
    PROVE  Rtt \in Int /\ now - Rtt # 0
<1>1. /\ Latency \div 7 \in Int /\ Start > Latency \div 7 /\ Start > 2 * MaxDelay
      /\ Start \in Nat /\ MaxDelay \in Nat
  BY NetworkAssumption, SeqnumAssumption
<1> QED BY <1>1 DEF Typed, Rtt

LEMMA SeqnumIs == \A u : Seqnum(u) = Number(u.pkt)
BY DEF Seqnum, Number

LEMMA PktType == \A p \in Pkt : p \in Int /\ p >= 0 /\ p < Half /\ p < Packets
BY NetworkAssumption, HalfIsHalf DEF Pkt

LEMMA QueueIs ==
    ASSUME Typed
    PROVE  /\ queue \in Seq(Stored) /\ Len(queue) \in Nat /\ DOMAIN queue = 1..Len(queue)
           /\ \A i \in 1..Len(queue) : /\ queue[i] \in Stored
                                       /\ queue[i].pkt \in Pkt /\ queue[i].pkt \in Int
                                       /\ queue[i].cr_sys \in Int
           /\ queue = <<>> => Len(queue) = 0
           /\ queue # <<>> => Len(queue) > 0
<1>1. queue \in Seq(Stored)
  BY DEF Typed
<1>2. Len(queue) \in Nat /\ DOMAIN queue = 1..Len(queue)
  BY <1>1, LenProperties
<1>3. \A i \in 1..Len(queue) : queue[i] \in Stored
  BY <1>1, <1>2, ElementOfSeq
<1>4. queue = <<>> <=> Len(queue) = 0
  BY <1>1, EmptySeq
<1> QED BY <1>1, <1>2, <1>3, <1>4, PktType DEF Stored

LEMMA OutIs ==
    ASSUME Typed
    PROVE  /\ out \in Seq(Pkt) /\ Len(out) \in Nat /\ DOMAIN out = 1..Len(out)
           /\ \A i \in DOMAIN out : out[i] \in Pkt /\ out[i] \in Int
<1>1. out \in Seq(Pkt)
  BY DEF Typed
<1>2. Len(out) \in Nat /\ DOMAIN out = 1..Len(out)
  BY <1>1, LenProperties
<1>3. \A i \in 1..Len(out) : out[i] \in Pkt
  BY <1>1, <1>2, ElementOfSeq
<1> QED BY <1>1, <1>2, <1>3, PktType

(* A packet is added behind all the others.  The number x is expected.     *)
LEMMA AddKeeps ==
    ASSUME RInv, NEW u \in Stored, u.cr_sys = now, NEW x \in Int, x <= u.pkt, Add(u, Number(x)),
           \/ queue = <<>> /\ x = u.pkt /\ out' = <<>>
           \/ queue # <<>> /\ x = queue[Len(queue)].pkt + 1 /\ out' = out,
           packets' \subseteq packets, UNCHANGED <<now, kept, rtt, sent, due>>
    PROVE  RInv'
<1> PICK n \in Nat, a \in Int : n = Len(queue) /\ a = u.pkt
  BY PktType, LenProperties DEF RInv, Typed, Stored
<1>1. /\ queue \in Seq(Stored) /\ DOMAIN queue = 1..n /\ a \in Pkt
      /\ \A i \in 1..n : /\ queue[i].pkt \in Pkt /\ queue[i].pkt \in Int
                         /\ queue[i].cr_sys \in Int
      /\ queue = <<>> => n = 0
      /\ queue # <<>> => n > 0
  BY QueueIs DEF RInv, Stored
<1>2. /\ queue' \in Seq(Stored) /\ DOMAIN queue' = 1..n + 1 /\ Len(queue') = n + 1
      /\ queue'[n + 1] = u /\ \A i \in 1..n : queue'[i] = queue[i]
  <2>1. queue' = Append(queue, u)
    BY DEF Add
  <2> QED BY <1>1, <2>1, AppendProperties, LenProperties
<1>3. \A q \in 0..Modulus - 1 :
        last_nack'[q] = IF q = Number(a) THEN 0
                        ELSE IF q \in Between(Number(x), Number(a)) /\ last_nack[q] = 0
                             THEN now - Rtt ELSE last_nack[q]
  BY SeqnumIs DEF Add
<1>4. Typed'
  <2>1. last_nack' \in [0..Modulus - 1 -> Int]
    <3>1. now - Rtt \in Int /\ last_nack \in [0..Modulus - 1 -> Int]
      BY Moment DEF RInv, Typed
    <3> QED BY <3>1 DEF Add
  <2>2. out' \in Seq(Pkt)
    BY EmptySeq DEF RInv, Typed
  <2> QED BY <1>2, <2>1, <2>2 DEF RInv, Typed
<1>5. \A i, j \in 1..n : i < j => queue[i].pkt < queue[j].pkt
  BY <1>1 DEF RInv, Sorted
<1>6. \A i \in 1..n : queue[i].pkt < x /\ queue[i].pkt < a
  <2> TAKE i \in 1..n
  <2>1. n > 0 /\ queue[n].pkt \in Int /\ x = queue[n].pkt + 1
    BY <1>1
  <2>2. i = n \/ queue[i].pkt < queue[n].pkt
    BY <1>5, <2>1
  <2> QED BY <1>1, <2>1, <2>2
<1>7. Sorted'
  <2>1. \A i, j \in DOMAIN queue' : i < j => queue'[i].pkt < queue'[j].pkt
    <3> SUFFICES ASSUME NEW i \in 1..n + 1, NEW j \in 1..n + 1, i < j
                 PROVE  queue'[i].pkt < queue'[j].pkt
      BY <1>2
    <3>1. i \in 1..n /\ queue'[i] = queue[i]
      BY <1>2
    <3>2. CASE j = n + 1
      BY <1>2, <1>6, <3>1, <3>2
    <3>3. CASE j # n + 1
      BY <1>2, <1>5, <3>1, <3>3
    <3> QED BY <3>2, <3>3
  <2>2. CASE queue = <<>> /\ out' = <<>>
    BY <2>1, <2>2 DEF Sorted
  <2>3. CASE queue # <<>> /\ out' = out
    <3>1. n \in 1..n /\ \A i \in DOMAIN out : out[i] \in Int
      BY <1>1, <2>3, OutIs DEF RInv
    <3>2. \A i \in DOMAIN out : \A j \in 1..n : out[i] < queue[j].pkt
      BY <1>1 DEF RInv, Sorted
    <3>3. \A i \in DOMAIN out : out[i] < a
      BY <1>1, <1>6, <3>1, <3>2
    <3>4. \A i \in DOMAIN out : \A j \in 1..n + 1 : out[i] < queue'[j].pkt
      <4> TAKE i \in DOMAIN out
      <4> TAKE j \in 1..n + 1
      <4>1. CASE j = n + 1
        BY <1>2, <3>3, <4>1
      <4>2. CASE j # n + 1
        BY <1>2, <3>2, <4>2
      <4> QED BY <4>1, <4>2
    <3> QED BY <1>2, <2>1, <2>3, <3>4 DEF RInv, Sorted
  <2> QED BY <2>2, <2>3
<1>8. Expecting'
  <2>1. buffered' = n + 1 /\ expected_seqnum' = Plus(Number(a), 1)
    BY SeqnumIs DEF Add, RInv, Expecting
  <2>2. queue' # <<>>
    BY <1>2
  <2>3. Plus(Number(a), 1) = Number(a + 1)
    <3>1. 1 \in Int /\ \A p, m \in Int : Plus(Number(p), m) = Number(p + m)
      BY NumberPlus
    <3> QED BY <3>1
  <2> QED BY <1>2, <2>1, <2>2, <2>3 DEF Expecting
<1>9. Timed'
  <2>1. Latency \in Nat /\ now \in Int /\ u.cr_sys = now
    BY SeqnumAssumption DEF RInv, Typed
  <2>2. ASSUME NEW i \in 1..n + 1
        PROVE  /\ queue'[i].cr_sys <= now
               /\ now - queue'[i].cr_sys <= IF "timer" \in due THEN Latency + 1 ELSE Latency
               /\ \A j \in 1..n + 1 : i < j => queue'[i].cr_sys <= queue'[j].cr_sys
    <3>1. CASE i = n + 1
      BY <1>2, <2>1, <3>1
    <3>2. CASE i # n + 1
      <4>1. i \in 1..n /\ queue'[i] = queue[i]
        BY <1>2, <3>2
      <4>2. /\ queue[i].cr_sys <= now
            /\ now - queue[i].cr_sys <= IF "timer" \in due THEN Latency + 1 ELSE Latency
            /\ \A j \in 1..n : i < j => queue[i].cr_sys <= queue[j].cr_sys
        BY <1>1, <4>1 DEF RInv, Timed
      <4>3. ASSUME NEW j \in 1..n + 1, i < j
            PROVE  queue'[i].cr_sys <= queue'[j].cr_sys
        BY <1>2, <2>1, <4>1, <4>2, <4>3
      <4> QED BY <4>1, <4>2, <4>3
    <3> QED BY <3>1, <3>2
  <2> QED BY <1>2, <2>2 DEF Timed
<1>10. Marked'
  <2> SUFFICES ASSUME NEW z \in Missing' PROVE last_nack'[Number(z)] # 0
    BY DEF Marked
  <2>1. Held' = Held \cup {a}
    BY <1>1, <1>2, SMTT(60) DEF Held
  <2>2. z \in Pkt /\ z \in Int /\ z \notin Held /\ z # a
    BY <2>1, PktType DEF Missing
  <2>3. \A y \in Held : y \in Int /\ y < x /\ y < a
    BY <1>1, <1>6 DEF Held
  <2>4. z < a /\ \E y \in Held : y < z
    BY <2>1, <2>2, <2>3 DEF Missing
  <2>5. -Modulus < z - a /\ z - a < Modulus /\ a - x < Modulus
    <3>1. z >= 0 /\ a < Half /\ x >= 0
      <4>1. \A p \in Pkt : p >= 0 /\ p < Half
        BY PktType
      <4>2. \A y \in Held : y \in Pkt
        BY <1>1 DEF Held
      <4> QED BY <1>1, <2>2, <2>3, <2>4, <4>1, <4>2
    <3> QED BY <2>2, <2>4, <3>1, HalfIsHalf
  <2>6. Number(z) # Number(a) /\ Number(z) \in 0..Modulus - 1
    BY <2>2, <2>5, NumbersDiffer, NumberType
  <2>7. CASE z \in Missing
    BY <1>3, <2>6, <2>7, Moment DEF RInv, Marked
  <2>8. CASE z \notin Missing
    <3>1. x <= z
      <4>1. n > 0 /\ n \in 1..n
        BY <1>1, <2>4 DEF Held
      <4>2. queue[n].pkt \in Held /\ x = queue[n].pkt + 1 /\ queue[n].pkt \in Int
        BY <1>1, <4>1 DEF Held
      <4>3. ~(z < queue[n].pkt) /\ z # queue[n].pkt
        BY <2>2, <2>4, <2>8, <4>2 DEF Missing
      <4> QED BY <2>2, <4>2, <4>3
    <3>2. z \in x..a - 1
      BY <2>2, <2>4, <3>1
    <3>3. Number(z) \in Between(Number(x), Number(a))
      BY <2>5, <3>2, BetweenNumbers
    <3> QED BY <1>3, <2>6, <3>3, Moment DEF RInv
  <2> QED BY <2>7, <2>8
<1> QED BY <1>4, <1>7, <1>8, <1>9, <1>10 DEF RInv

(* A packet from the past is inserted, or there is no place for it.        *)
LEMMA InsertKeeps ==
    ASSUME RInv, NEW u \in Stored, queue # <<>>, u.pkt <= queue[Len(queue)].pkt, Insert(u),
           packets' \subseteq packets, UNCHANGED <<now, kept, rtt, sent, due, out>>
    PROVE  RInv'
<1> PICK n \in Nat, a \in Int : n = Len(queue) /\ a = u.pkt
  BY PktType, LenProperties DEF RInv, Typed, Stored
<1>1. /\ queue \in Seq(Stored) /\ DOMAIN queue = 1..n /\ a \in Pkt /\ n > 0
      /\ \A i \in 1..n : /\ queue[i].pkt \in Pkt /\ queue[i].pkt \in Int
                         /\ queue[i].cr_sys \in Int
  BY QueueIs DEF RInv, Stored
<1> DEFINE T == {i \in DOMAIN queue : Diff(Seqnum(u), Seqnum(queue[i])) \notin 1..Half - 1}
<1>2. T = {i \in 1..n : a <= queue[i].pkt}
  <2>1. ASSUME NEW i \in 1..n
        PROVE  Diff(Seqnum(u), Seqnum(queue[i])) \notin 1..Half - 1 <=> a <= queue[i].pkt
    <3> PICK b \in Int : b = queue[i].pkt
      BY <1>1
    <3>1. a >= 0 /\ a < Half /\ b >= 0 /\ b < Half
      BY <1>1, PktType
    <3>4. -Modulus <= a - b /\ a - b < Modulus
      BY <3>1, HalfIsHalf
    <3>2. Diff(Number(a), Number(b)) = IF a >= b THEN a - b ELSE a - b + Modulus
      BY <3>4, Distance
    <3>3. Seqnum(u) = Number(a) /\ Seqnum(queue[i]) = Number(b)
      BY SeqnumIs
    <3> QED BY <3>1, <3>2, <3>3, HalfIsHalf
  <2> QED BY <1>1, <2>1
<1>3. n \in T /\ T \subseteq Nat
  BY <1>1, <1>2
<1> PICK k \in 1..n : /\ k = Min(T) /\ a <= queue[k].pkt
                      /\ \A i \in 1..n : i < k => queue[i].pkt < a
  <2> HIDE DEF T
  <2>1. Min(T) \in T /\ \A i \in T : Min(T) <= i
    BY <1>3, MinFound
  <2> PICK m \in 1..n : m = Min(T)
    BY <1>2, <2>1
  <2>2. ASSUME NEW i \in 1..n, i < m
        PROVE  queue[i].pkt < a
    <3>1. i \notin T
      BY <2>1, <2>2
    <3> QED BY <1>1, <1>2, <3>1
  <2>3. a <= queue[m].pkt
    BY <1>2, <2>1
  <2> QED BY <2>2, <2>3
<1>4. Seqnum(u) = Seqnum(queue[k]) => a = queue[k].pkt
  <2> PICK b \in Int : b = queue[k].pkt
    BY <1>1
  <2>1. a >= 0 /\ a < Half /\ b >= 0 /\ b < Half
    BY <1>1, PktType
  <2>2. Number(a) = Number(b) => a = b
    BY <2>1, HalfIsHalf, NumbersDiffer
  <2> QED BY <2>2, SeqnumIs
<1>5. CASE UNCHANGED <<queue, last_nack, buffered, expected_seqnum>>
  <2>1. Typed'
    BY <1>5 DEF RInv, Typed
  <2>2. Missing' = Missing
    BY <1>5 DEF Missing, Held
  <2> QED BY <1>5, <2>1, <2>2 DEF RInv, Sorted, Expecting, Timed, Marked
<1> DEFINE c == queue[k - 1].cr_sys
           v == [u EXCEPT !.cr_sys = c]
<1>6. CASE /\ k # 1 /\ a # queue[k].pkt
           /\ queue' = InsertAt(queue, k, v)
           /\ last_nack' = [last_nack EXCEPT ![Seqnum(u)] = 0]
           /\ buffered' = buffered + 1 /\ UNCHANGED expected_seqnum
  <2>1. k - 1 \in 1..n /\ k > 1 /\ c \in Int /\ a < queue[k].pkt
    <3>1. k - 1 \in 1..n /\ k > 1
      BY <1>1, <1>6
    <3>2. c \in Int
      BY <1>1, <3>1
    <3>3. a < queue[k].pkt
      <4>1. PICK b \in Int : b = queue[k].pkt
        BY <1>1
      <4>2. a <= b /\ a # b /\ a \in Int
        BY <1>1, <1>6, <4>1
      <4>3. a < b
        BY <4>2
      <4> QED BY <4>1, <4>3
    <3> QED BY <3>1, <3>2, <3>3
  <2>2. v \in Stored /\ v.pkt = a /\ v.cr_sys = c
    BY <2>1 DEF Stored
  <2> HIDE DEF c, v
  <2>3. /\ queue' \in Seq(Stored) /\ Len(queue') = n + 1 /\ DOMAIN queue' = 1..n + 1
        /\ \A i \in 1..n + 1 :
             queue'[i] = IF i < k THEN queue[i] ELSE IF i = k THEN v ELSE queue[i - 1]
    <3> HIDE DEF T
    <3>1. queue \in Seq(Stored) /\ k \in 1..Len(queue) /\ v \in Stored
      BY <1>1, <2>2
    <3>2. \A s \in Seq(Stored) : \A i \in 1..Len(s) : \A e \in Stored :
            InsertAt(s, i, e) \in Seq(Stored) /\ Inserted(InsertAt(s, i, e), s, i, e)
      BY InsertedBefore
    <3>3. queue' = InsertAt(queue, k, v)
      BY <1>6
    <3>4. queue' \in Seq(Stored) /\ Inserted(queue', queue, k, v)
      BY <3>1, <3>2, <3>3
    <3> QED BY <3>4 DEF Inserted
  <2>4. Typed'
    <3>1. last_nack' \in [0..Modulus - 1 -> Int]
      <4>1. last_nack \in [0..Modulus - 1 -> Int]
        BY DEF RInv, Typed
      <4>2. last_nack' = [last_nack EXCEPT ![Seqnum(u)] = 0]
        BY <1>6
      <4>3. \A f \in [0..Modulus - 1 -> Int] : \A s : [f EXCEPT ![s] = 0] \in [0..Modulus - 1 -> Int]
        <5>1. 0 \in Int
          OBVIOUS
        <5> QED BY <5>1, Updated, Zenon
      <4>4. [last_nack EXCEPT ![Seqnum(u)] = 0] \in [0..Modulus - 1 -> Int]
        BY <4>1, <4>3
      <4> QED BY <4>2, <4>4
    <3> QED BY <2>3, <3>1 DEF RInv, Typed
  <2>5. \A i, j \in 1..n : i < j => queue[i].pkt < queue[j].pkt /\ queue[i].cr_sys <= queue[j].cr_sys
    BY <1>1 DEF RInv, Sorted, Timed
  <2>6. \A i \in 1..n : /\ i < k => queue[i].pkt < a /\ queue[i].cr_sys <= c
                        /\ i >= k => a < queue[i].pkt /\ c <= queue[i].cr_sys
    <3> SUFFICES ASSUME NEW i \in 1..n
                 PROVE  /\ i < k => queue[i].pkt < a /\ queue[i].cr_sys <= c
                        /\ i >= k => a < queue[i].pkt /\ c <= queue[i].cr_sys
      OBVIOUS
    <3>1. ASSUME i < k PROVE queue[i].pkt < a /\ queue[i].cr_sys <= c
      <4>1. i = k - 1 \/ i < k - 1
        BY <3>1
      <4>2. queue[i].cr_sys <= c
        BY <1>1, <2>1, <2>5, <4>1, SMTT(60) DEF c
      <4> QED BY <3>1, <4>2
    <3>2. ASSUME i >= k PROVE a < queue[i].pkt /\ c <= queue[i].cr_sys
      <4>1. c <= queue[i].cr_sys
        BY <2>1, <2>5, <3>2 DEF c
      <4>2. i = k \/ queue[k].pkt < queue[i].pkt
        BY <2>5, <3>2
      <4> QED BY <1>1, <2>1, <4>1, <4>2
    <3> QED BY <3>1, <3>2
  <2>7. ASSUME NEW i \in 1..n + 1, NEW j \in 1..n + 1, i < j
        PROVE  queue'[i].pkt < queue'[j].pkt /\ queue'[i].cr_sys <= queue'[j].cr_sys
    <3>1. CASE j < k
      BY <2>3, <2>5, <2>7, <3>1, SMTT(60)
    <3>2. CASE j = k
      <4>1. i \in 1..n /\ i < k /\ queue'[i] = queue[i] /\ queue'[j] = v
        BY <2>3, <2>7, <3>2
      <4> QED BY <2>2, <2>6, <4>1
    <3>3. CASE j > k
      <4>1. j - 1 \in 1..n /\ j - 1 >= k /\ queue'[j] = queue[j - 1]
        BY <2>3, <2>7, <3>3
      <4>2. CASE i < k
        BY <2>3, <2>5, <4>1, <4>2
      <4>3. CASE i = k
        BY <2>2, <2>3, <2>6, <4>1, <4>3
      <4>4. CASE i > k
        <5>1. i - 1 \in 1..n /\ i - 1 < j - 1 /\ queue'[i] = queue[i - 1]
          BY <2>3, <2>7, <4>1, <4>4
        <5> QED BY <2>5, <4>1, <5>1
      <4> QED BY <4>2, <4>3, <4>4
    <3> QED BY <3>1, <3>2, <3>3
  <2>8. Sorted'
    <3>1. ASSUME NEW i \in DOMAIN out, NEW j \in 1..n + 1
          PROVE  out[i] < queue'[j].pkt
      <4>1. out[i] \in Int /\ \A m \in 1..n : out[i] < queue[m].pkt
        BY <1>1, OutIs DEF RInv, Sorted
      <4>2. CASE j = k
        <5>1. out[i] < queue[k - 1].pkt /\ queue[k - 1].pkt < a /\ queue[k - 1].pkt \in Int
          BY <1>1, <2>1, <2>6, <4>1, SMTT(60)
        <5> QED BY <2>2, <2>3, <4>1, <4>2, <5>1, SMTT(60)
      <4>3. CASE j # k
        BY <2>3, <4>1, <4>3
      <4> QED BY <4>2, <4>3
    <3> QED BY <2>3, <2>7, <3>1 DEF RInv, Sorted
  <2>9. Expecting'
    <3>1. queue'[n + 1] = queue[n] /\ queue' # <<>>
      BY <2>3, EmptySeq
    <3> QED BY <1>1, <1>6, <2>3, <3>1 DEF RInv, Expecting
  <2>10. Timed'
    <3>1. ASSUME NEW i \in 1..n + 1
          PROVE  /\ queue'[i].cr_sys <= now
                 /\ now - queue'[i].cr_sys <= IF "timer" \in due THEN Latency + 1 ELSE Latency
      <4>1. \E j \in 1..n : queue'[i].cr_sys = queue[j].cr_sys
        <5>1. CASE i < k
          <6>1. i \in 1..n /\ queue'[i] = queue[i]
            BY <2>3, <5>1
          <6> QED BY <6>1
        <5>2. CASE i = k
          <6>1. queue'[i] = v
            BY <2>3, <5>2
          <6> QED BY <2>1, <2>2, <6>1 DEF c
        <5>3. CASE i > k
          <6>1. i - 1 \in 1..n /\ queue'[i] = queue[i - 1]
            BY <2>3, <5>3
          <6> QED BY <6>1
        <5> QED BY <5>1, <5>2, <5>3
      <4> QED BY <1>1, <4>1 DEF RInv, Timed
    <3> QED BY <2>3, <2>7, <3>1 DEF Timed
  <2>11. Marked'
    <3> SUFFICES ASSUME NEW z \in Missing' PROVE last_nack'[Number(z)] # 0
      BY DEF Marked
    <3>1. Held' = Held \cup {a}
      <4>2. Held \subseteq Held'
        <5>1. ASSUME NEW i \in 1..n PROVE \E j \in 1..n + 1 : queue'[j] = queue[i]
          <6>1. CASE i < k
            <7>1. i \in 1..n + 1 /\ queue'[i] = queue[i]
              BY <2>3, <6>1
            <7> QED BY <7>1
          <6>2. CASE i >= k
            <7>1. PICK j \in 1..n + 1 : j = i + 1
              OBVIOUS
            <7>2. j > k /\ j - 1 = i
              BY <6>2, <7>1
            <7>3. queue'[j] = queue[i]
              BY <2>3, <7>2
            <7> QED BY <7>3
          <6> QED BY <6>1, <6>2
        <5>2. Held = {queue[i].pkt : i \in 1..n} /\ Held' = {queue'[j].pkt : j \in 1..n + 1}
          BY <1>1, <2>3 DEF Held
        <5> QED BY <5>1, <5>2
      <4>3. a \in Held'
        BY <2>2, <2>3 DEF Held
      <4>5. Held' \subseteq Held \cup {a}
        <5>1. ASSUME NEW i \in 1..n + 1
              PROVE  queue'[i].pkt = a \/ \E j \in 1..n : queue'[i] = queue[j]
          <6>1. CASE i < k
            <7>1. i \in 1..n /\ queue'[i] = queue[i]
              BY <2>3, <6>1
            <7> QED BY <7>1
          <6>2. CASE i = k
            BY <2>2, <2>3, <6>2
          <6>3. CASE i > k
            <7>1. i - 1 \in 1..n /\ queue'[i] = queue[i - 1]
              BY <2>3, <6>3
            <7> QED BY <7>1
          <6> QED BY <6>1, <6>2, <6>3
        <5>2. Held = {queue[i].pkt : i \in 1..n} /\ Held' = {queue'[j].pkt : j \in 1..n + 1}
          BY <1>1, <2>3 DEF Held
        <5> QED BY <5>1, <5>2
      <4> QED BY <4>2, <4>3, <4>5
    <3>2. z \in Pkt /\ z \in Int /\ z \notin Held /\ z # a /\ \A y \in Held : y \in Int
      BY <1>1, <3>1, PktType DEF Missing, Held
    <3>3. queue[k - 1].pkt \in Held /\ queue[k].pkt \in Held
          /\ queue[k - 1].pkt < a /\ a < queue[k].pkt
      <4>1. k - 1 \in 1..n /\ k - 1 < k /\ k \in 1..n
        BY <2>1
      <4>2. queue[k - 1].pkt < a /\ a < queue[k].pkt
        BY <2>1, <2>6, <4>1
      <4>3. queue[k - 1].pkt \in Held /\ queue[k].pkt \in Held
        BY <1>1, <4>1 DEF Held
      <4> QED BY <4>2, <4>3
    <3>4. z \in Missing
      <4>1. \E x \in Held : x < z
        BY <3>1, <3>2, <3>3 DEF Missing
      <4>2. \E y \in Held : z < y
        BY <3>1, <3>2, <3>3 DEF Missing
      <4> QED BY <3>2, <4>1, <4>2 DEF Missing
    <3>5. Number(z) # Number(a)
      <4>1. z >= 0 /\ z < Half /\ a >= 0 /\ a < Half
        BY <1>1, <3>2, PktType
      <4> QED BY <3>2, <4>1, HalfIsHalf, NumbersDiffer
    <3>6. last_nack'[Number(z)] = last_nack[Number(z)]
      BY <1>6, <3>2, <3>5, NumberType, SeqnumIs DEF RInv, Typed
    <3> QED BY <3>4, <3>6 DEF RInv, Marked
  <2> QED BY <2>4, <2>8, <2>9, <2>10, <2>11 DEF RInv
<1> QED
  <2>1. a # queue[k].pkt => Seqnum(u) # Seqnum(queue[k])
    BY <1>4
  <2>2. a = queue[k].pkt => Seqnum(u) = Seqnum(queue[k])
    BY SeqnumIs
  <2> QED BY <1>5, <1>6, <2>1, <2>2 DEF Insert

LEMMA InputKeeps ==
    ASSUME RInv, NEW p \in Int, p \in Pkt, Input(p),
           packets' \subseteq packets, UNCHANGED <<now, kept, rtt, sent, due>>
    PROVE  RInv'
<1> DEFINE u == Uref(p)
<1>1. u \in Stored /\ u.pkt = p /\ u.cr_sys = now /\ Seqnum(u) = Number(p)
  BY SeqnumIs DEF Uref, Stored, RInv, Typed
<1>2. p \in Int /\ p >= 0 /\ p < Half
  BY PktType
<1> HIDE DEF u
<1>3. CASE queue = <<>>
  <2>1. expected_seqnum = None
    BY <1>3 DEF RInv, Expecting
  <2>2. Diff(Number(p), Number(p)) = 0
    BY <1>2, HalfIsHalf, Distance
  <2>3. Add(u, Number(p)) /\ out' = <<>>
    BY <1>1, <2>1, <2>2, HalfIsHalf DEF Input, u
  <2> QED BY <1>1, <1>2, <1>3, <2>3, AddKeeps
<1>4. CASE queue # <<>>
  <2>1. Len(queue) \in 1..Len(queue) /\ queue[Len(queue)].pkt \in Pkt
    BY <1>4, QueueIs DEF RInv
  <2>9. PICK x \in Int : x = queue[Len(queue)].pkt + 1 /\ x > 0 /\ x <= Half
    <3>1. PICK l \in Int : l = queue[Len(queue)].pkt /\ l >= 0 /\ l < Half
      BY <2>1, PktType
    <3>2. PICK x \in Int : x = l + 1
      OBVIOUS
    <3> QED BY <3>1, <3>2, HalfIsHalf
  <2>2. expected_seqnum = Number(x) /\ expected_seqnum # None
    BY <1>4, <2>9, NumberType, FeedbackAssumption, SMTT(60) DEF RInv, Expecting
  <2>3. -Modulus <= p - x /\ p - x < Modulus
    BY <1>2, <2>9, HalfIsHalf
  <2>4. Diff(Number(p), Number(x)) = IF p >= x THEN p - x ELSE p - x + Modulus
    BY <1>2, <2>3, Distance
  <2>5. Diff(Number(p), Number(x)) < Half <=> p >= x
    <3>1. CASE p >= x
      BY <1>2, <2>4, <2>9, <3>1, HalfIsHalf
    <3>2. CASE ~(p >= x)
      <4>1. PICK h \in Nat, m \in Nat : h = Half /\ m = Modulus /\ m = h + h
        BY HalfIsHalf
      <4>2. p >= 0 /\ x <= h
        BY <1>2, <2>9, <4>1
      <4>3. p - x + m >= h
        BY <4>1, <4>2
      <4> QED BY <2>4, <3>2, <4>1, <4>3
    <3> QED BY <3>1, <3>2
  <2>6. out' = out /\ (IF p >= x THEN Add(u, Number(x)) ELSE Insert(u))
    BY <1>1, <2>2, <2>5 DEF Input, u
  <2>7. CASE p >= x
    BY <1>1, <1>4, <2>6, <2>7, <2>9, AddKeeps
  <2>8. CASE ~(p >= x)
    <3>1. u.pkt <= queue[Len(queue)].pkt
      <4>1. PICK l \in Int : l = queue[Len(queue)].pkt
        BY <2>1, PktType
      <4>2. p <= l
        BY <2>8, <2>9, <4>1
      <4> QED BY <1>1, <4>1, <4>2
    <3>2. Insert(u) /\ UNCHANGED out
      BY <2>6, <2>8
    <3> QED BY <1>1, <1>4, <3>1, <3>2, InsertKeeps
  <2> QED BY <2>7, <2>8
<1> QED BY <1>3, <1>4

(* The packets that are old enough are output: the n first ones.           *)
LEMMA OutputIs ==
    ASSUME Typed, Output
    PROVE  \E n \in 0..Len(queue) :
             /\ \A i \in 1..n : now - queue[i].cr_sys > Latency
             /\ n < Len(queue) => ~(now - queue[n + 1].cr_sys > Latency)
             /\ queue' = SubSeq(queue, n + 1, Len(queue))
             /\ out' = out \o [k \in 1..n |-> queue[k].pkt]
             /\ buffered' = buffered - n
             /\ expected_seqnum' = IF n > 0 /\ buffered' = 0 THEN None ELSE expected_seqnum
             /\ UNCHANGED last_nack
<1> DEFINE T == {m \in 0..Len(queue) : \A i \in 1..m : now - queue[i].cr_sys > Latency}
           n == Max(T)
<1>1. /\ queue' = SubSeq(queue, n + 1, Len(queue))
      /\ out' = out \o [k \in 1..n |-> queue[k].pkt]
      /\ buffered' = buffered - n
      /\ expected_seqnum' = IF n > 0 /\ buffered' = 0 THEN None ELSE expected_seqnum
      /\ UNCHANGED last_nack
  BY DEF Output, Leading
<1>2. Len(queue) \in Nat
  BY QueueIs
<1>3. T \subseteq 0..Len(queue) /\ 0 \in T
  BY <1>2
<1>4. n \in T /\ \A m \in T : n >= m
  <2> HIDE DEF T
  <2> QED BY <1>2, <1>3, MaxFound
<1>5. ASSUME n < Len(queue), now - queue[n + 1].cr_sys > Latency PROVE FALSE
  <2> PICK m \in 0..Len(queue) : m = n /\ m \in T /\ m < Len(queue) /\ now - queue[m + 1].cr_sys > Latency
    BY <1>4, <1>5
  <2>1. \A i \in 1..m : now - queue[i].cr_sys > Latency
    OBVIOUS
  <2>2. \A i \in 1..m + 1 : i \in 1..m \/ i = m + 1
    OBVIOUS
  <2>3. m + 1 \in T
    <3>1. m + 1 \in 0..Len(queue)
      BY <1>2
    <3>2. \A i \in 1..m + 1 : now - queue[i].cr_sys > Latency
      BY <2>1, <2>2
    <3> QED BY <3>1, <3>2
  <2> HIDE DEF T
  <2> QED BY <1>4, <2>3
<1> HIDE DEF n
<1> QED BY <1>1, <1>4, <1>5

LEMMA OutputKeeps ==
    ASSUME RInv, Output, due' = due \ {"timer"}, UNCHANGED <<now, kept, rtt, sent, packets>>
    PROVE  RInv'
<1>1. PICK n \in 0..Len(queue) :
        /\ \A i \in 1..n : now - queue[i].cr_sys > Latency
        /\ n < Len(queue) => ~(now - queue[n + 1].cr_sys > Latency)
        /\ queue' = SubSeq(queue, n + 1, Len(queue))
        /\ out' = out \o [k \in 1..n |-> queue[k].pkt]
        /\ buffered' = buffered - n
        /\ expected_seqnum' = IF n > 0 /\ buffered' = 0 THEN None ELSE expected_seqnum
        /\ UNCHANGED last_nack
  BY OutputIs DEF RInv
<1>2. PICK m \in Nat, o \in Nat : m = Len(queue) /\ o = Len(out)
  BY QueueIs, OutIs DEF RInv
<1>3. /\ queue \in Seq(Stored) /\ DOMAIN queue = 1..m /\ n \in 0..m /\ m - n \in Nat
      /\ \A i \in 1..m : /\ queue[i].pkt \in Pkt /\ queue[i].pkt \in Int
                         /\ queue[i].cr_sys \in Int
  BY <1>1, <1>2, QueueIs DEF RInv
<1>4. /\ queue' \in Seq(Stored) /\ Len(queue') = m - n /\ DOMAIN queue' = 1..m - n
      /\ \A i \in 1..m - n : n + i \in 1..m /\ queue'[i] = queue[n + i]
  <2>1. \A k \in 0..Len(queue) :
          LET r == SubSeq(queue, k + 1, Len(queue)) IN
          /\ r \in Seq(Stored) /\ Len(r) = Len(queue) - k
          /\ DOMAIN r = 1..Len(queue) - k
          /\ \A i \in 1..Len(queue) - k : r[i] = queue[k + i]
    BY <1>3, CutInFront
  <2>2. n \in 0..Len(queue)
    BY <1>1
  <2>3. /\ queue' \in Seq(Stored) /\ Len(queue') = m - n /\ DOMAIN queue' = 1..m - n
        /\ \A i \in 1..m - n : queue'[i] = queue[n + i]
    BY <1>1, <1>2, <2>1, <2>2
  <2> QED BY <1>3, <2>3
<1>5. /\ out' \in Seq(Pkt) /\ DOMAIN out' = 1..o + n
      /\ \A i \in 1..o + n : out'[i] = IF i <= o THEN out[i] ELSE queue[i - o].pkt
  <2>1. PICK f : f = [k \in 1..n |-> queue[k].pkt]
    OBVIOUS
  <2>2. f \in Seq(Pkt) /\ Len(f) = n /\ \A i \in 1..n : f[i] = queue[i].pkt
    <3>1. \A k \in 1..n : queue[k].pkt \in Pkt
      BY <1>3
    <3>2. f \in [1..n -> Pkt]
      BY <2>1, <3>1
    <3>3. PICK a \in Nat : a = n
      BY <1>3
    <3>4. \A g \in [1..a -> Pkt] : g \in Seq(Pkt) /\ Len(g) = a
      OBVIOUS
    <3>5. f \in Seq(Pkt) /\ Len(f) = n
      BY <3>2, <3>3, <3>4
    <3> QED BY <2>1, <3>5
  <2>3. out \in Seq(Pkt) /\ out' = out \o f
    BY <1>1, <2>1 DEF RInv, Typed
  <2>4. /\ out \o f \in Seq(Pkt) /\ Len(out \o f) = o + n
        /\ \A i \in 1..o + n : (out \o f)[i] = IF i <= o THEN out[i] ELSE f[i - o]
    BY <1>2, <2>2, <2>3, ConcatProperties
  <2>5. DOMAIN out' = 1..o + n
    BY <2>3, <2>4, LenProperties
  <2>6. ASSUME NEW i \in 1..o + n
        PROVE  out'[i] = IF i <= o THEN out[i] ELSE queue[i - o].pkt
    <3>1. CASE i <= o
      BY <2>3, <2>4, <3>1
    <3>2. CASE ~(i <= o)
      <4>1. i - o \in 1..n
        BY <1>3, <3>2
      <4> QED BY <2>2, <2>3, <2>4, <3>2, <4>1
    <3> QED BY <3>1, <3>2
  <2> QED BY <2>3, <2>4, <2>5, <2>6
<1>6. \A i, j \in 1..m : i < j => queue[i].pkt < queue[j].pkt /\ queue[i].cr_sys <= queue[j].cr_sys
  BY <1>3 DEF RInv, Sorted, Timed
<1>7. Typed'
  BY <1>1, <1>4, <1>5 DEF RInv, Typed
<1>8. Sorted'
  <2>1. \A i, j \in 1..m - n : i < j => queue'[i].pkt < queue'[j].pkt
    BY <1>3, <1>4, <1>6
  <2>2. DOMAIN out = 1..o /\ \A i \in 1..o : out[i] \in Int
    BY <1>2, OutIs DEF RInv
  <2>3. \A i, j \in 1..o : i < j => out[i] < out[j]
    BY <2>2 DEF RInv, Sorted
  <2>4. \A i \in 1..o, j \in 1..m : out[i] < queue[j].pkt
    BY <1>3, <2>2 DEF RInv, Sorted
  <2>5. ASSUME NEW i \in 1..o + n, NEW j \in 1..o + n, i < j
        PROVE  out'[i] < out'[j]
    <3>1. CASE j <= o
      BY <1>5, <2>3, <2>5, <3>1
    <3>2. CASE j > o
      <4>1. j - o \in 1..m /\ out'[j] = queue[j - o].pkt
        BY <1>3, <1>5, <3>2
      <4>2. CASE i <= o
        <5>1. i \in 1..o /\ out'[i] = out[i]
          BY <1>5, <4>2
        <5> QED BY <2>4, <4>1, <5>1
      <4>3. CASE i > o
        <5>1. i - o \in 1..m /\ i - o < j - o /\ out'[i] = queue[i - o].pkt
          BY <1>3, <1>5, <2>5, <4>3
        <5> QED BY <1>6, <4>1, <5>1
      <4> QED BY <4>2, <4>3
    <3> QED BY <3>1, <3>2
  <2>6. ASSUME NEW i \in 1..o + n, NEW j \in 1..m - n
        PROVE  out'[i] < queue'[j].pkt
    <3>1. n + j \in 1..m /\ queue'[j] = queue[n + j]
      BY <1>4
    <3>2. CASE i <= o
      <4>1. i \in 1..o /\ out'[i] = out[i]
        BY <1>5, <3>2
      <4> QED BY <2>4, <3>1, <4>1
    <3>3. CASE i > o
      <4>1. i - o \in 1..m /\ i - o < n + j /\ out'[i] = queue[i - o].pkt
        BY <1>3, <1>5, <3>3
      <4> QED BY <1>6, <3>1, <4>1
    <3> QED BY <3>2, <3>3
  <2> QED BY <1>4, <1>5, <2>1, <2>5, <2>6 DEF Sorted
<1>9. Expecting'
  <2>1. buffered' = m - n
    BY <1>1, <1>2 DEF RInv, Expecting
  <2>2. CASE n = m
    <3>1. queue' = <<>>
      BY <1>4, <2>2, EmptySeq
    <3>2. expected_seqnum' = None
      <4>1. CASE n > 0
        BY <1>1, <2>1, <2>2, <4>1
      <4>2. CASE ~(n > 0)
        <5>1. queue = <<>>
          BY <1>2, <1>3, <2>2, <4>2, QueueIs DEF RInv
        <5> QED BY <1>1, <4>2, <5>1 DEF RInv, Expecting
      <4> QED BY <4>1, <4>2
    <3> QED BY <1>4, <2>1, <3>1, <3>2 DEF Expecting
  <2>3. CASE n # m
    <3>1. m - n \in 1..m - n /\ n + (m - n) = m /\ m > 0
      BY <1>3, <2>3
    <3>2. queue'[m - n] = queue[m] /\ queue' # <<>> /\ queue # <<>>
      BY <1>2, <1>3, <1>4, <3>1, EmptySeq
    <3>3. expected_seqnum' = expected_seqnum
      BY <1>1, <2>1, <3>1
    <3> QED BY <1>2, <1>4, <2>1, <3>2, <3>3 DEF RInv, Expecting
  <2> QED BY <2>2, <2>3
<1>10. Timed'
  <2>1. now \in Int /\ Latency \in Nat /\ now' = now /\ "timer" \notin due'
    BY SeqnumAssumption DEF RInv, Typed
  <2>2. ASSUME NEW i \in 1..m - n
        PROVE  queue'[i].cr_sys <= now /\ now - queue'[i].cr_sys <= Latency
    <3>1. n + i \in 1..m /\ n + 1 \in 1..m /\ queue'[i] = queue[n + i] /\ n < m
      BY <1>3, <1>4
    <3>2. ~(now - queue[n + 1].cr_sys > Latency)
      BY <1>1, <1>2, <3>1
    <3>3. queue[n + 1].cr_sys <= queue[n + i].cr_sys
      <4>1. CASE i = 1
        BY <1>3, <3>1, <4>1
      <4>2. CASE i # 1
        <5>1. n + 1 < n + i
          BY <4>2
        <5> QED BY <1>6, <3>1, <5>1
      <4> QED BY <4>1, <4>2
    <3>4. queue[n + i].cr_sys <= now
      BY <1>3, <3>1 DEF RInv, Timed
    <3> QED BY <1>3, <2>1, <3>1, <3>2, <3>3, <3>4
  <2>3. \A i, j \in 1..m - n : i < j => queue'[i].cr_sys <= queue'[j].cr_sys
    BY <1>3, <1>4, <1>6
  <2> QED BY <1>4, <2>1, <2>2, <2>3 DEF Timed
<1>11. Marked'
  <2> SUFFICES ASSUME NEW z \in Missing' PROVE z \in Missing
    BY <1>1 DEF RInv, Marked
  <2>1. Held = {queue[i].pkt : i \in 1..m} /\ Held' = {queue'[i].pkt : i \in 1..m - n}
    BY <1>3, <1>4 DEF Held
  <2>2. Held' \subseteq Held
    BY <1>4, <2>1
  <2>3. PICK x \in Held', y \in Held' : z \in Pkt /\ z \notin Held' /\ x < z /\ z < y
    BY DEF Missing
  <2>4. z \notin Held
    <3> SUFFICES ASSUME NEW i \in 1..m, z = queue[i].pkt PROVE FALSE
      BY <2>1
    <3>1. i <= n
      <4> SUFFICES ASSUME i > n PROVE FALSE
        BY <1>3
      <4>1. i - n \in 1..m - n /\ n + (i - n) = i
        BY <1>3
      <4>2. queue'[i - n] = queue[i]
        BY <1>4, <4>1
      <4>3. z \in Held'
        BY <2>1, <4>1, <4>2
      <4> QED BY <2>3, <4>3
    <3>2. PICK j \in 1..m - n : x = queue'[j].pkt
      BY <2>1, <2>3
    <3>3. n + j \in 1..m /\ i < n + j /\ x = queue[n + j].pkt
      BY <1>3, <1>4, <3>1, <3>2
    <3>4. z < x /\ x \in Int /\ z \in Int
      BY <1>3, <1>6, <3>3
    <3> QED BY <2>3, <3>4
  <2> QED BY <2>2, <2>3, <2>4 DEF Missing
<1> QED BY <1>7, <1>8, <1>9, <1>10, <1>11 DEF RInv

-----------------------------------------------------------------------------
(* The other steps.                                                        *)
LEMMA AskKeeps ==
    ASSUME RInv, NEW requests, Ask(requests), due' \subseteq due, "timer" \in due => "timer" \in due',
           UNCHANGED <<now, kept, rtt, sent, packets>>
    PROVE  RInv'
<1>1. now \in Int /\ now # 0
  BY NetworkAssumption, SeqnumAssumption, Moment DEF RInv, Typed
<1>2. \A s \in 0..Modulus - 1 : last_nack'[s] = now \/ last_nack'[s] = last_nack[s]
  BY DEF Ask
<1>3. last_nack' \in [0..Modulus - 1 -> Int]
  BY <1>1 DEF Ask, RInv, Typed
<1>4. Typed'
  BY <1>3 DEF Ask, RInv, Typed
<1>5. Missing' = Missing
  BY DEF Ask, Missing, Held
<1>6. Marked'
  <2> SUFFICES ASSUME NEW z \in Missing PROVE last_nack'[Number(z)] # 0
    BY <1>5 DEF Marked
  <2>1. Number(z) \in 0..Modulus - 1
    BY PktType, NumberType DEF Missing
  <2> QED BY <1>1, <1>2, <2>1 DEF RInv, Marked
<1>7. Sorted' /\ Expecting' /\ Timed'
  BY DEF Ask, RInv, Sorted, Expecting, Timed
<1> QED BY <1>4, <1>6, <1>7 DEF RInv

(* What does not concern the receiver.                                     *)
LEMMA ReceiverUntouched ==
    ASSUME RInv, UNCHANGED <<now, due, receiver>>,
           rtt' \in 0..2 * MaxDelay, sent' \in 0..Packets, kept' \in Seq(Stored),
           \A m \in packets' : m.pkt \in Pkt
    PROVE  RInv'
<1>1. UNCHANGED <<queue, expected_seqnum, buffered, last_nack, out>>
  BY DEF receiver
<1>2. Typed'
  BY <1>1 DEF RInv, Typed
<1>3. Missing' = Missing
  BY <1>1 DEF Missing, Held
<1>4. Sorted' /\ Expecting' /\ Timed' /\ Marked'
  BY <1>1, <1>3 DEF RInv, Sorted, Expecting, Timed, Marked
<1> QED BY <1>2, <1>4 DEF RInv

LEMMA TickKeeps ==
    ASSUME RInv, Tick
    PROVE  RInv'
<1>1. UNCHANGED <<queue, expected_seqnum, buffered, last_nack, out>>
  BY DEF Tick, receiver
<1>2. now \in Int /\ now' = now + 1 /\ now' >= Start /\ Start \in Nat /\ Latency \in Nat
  BY NetworkAssumption, SeqnumAssumption, SMTT(60) DEF RInv, Typed, Tick
<1>3. Typed'
  BY <1>1, <1>2 DEF Tick, network, RInv, Typed
<1>4. Missing' = Missing
  BY <1>1 DEF Missing, Held
<1>5. Sorted' /\ Expecting' /\ Marked'
  BY <1>1, <1>4 DEF RInv, Sorted, Expecting, Marked
<1>6. Timed'
  <2>1. "timer" \notin due /\ "timer" \in due'
    BY DEF Tick
  <2>2. ASSUME NEW i \in DOMAIN queue
        PROVE  queue[i].cr_sys <= now' /\ now' - queue[i].cr_sys <= Latency + 1
    <3>1. queue[i].cr_sys \in Int
      BY QueueIs DEF RInv
    <3>2. queue[i].cr_sys <= now /\ now - queue[i].cr_sys <= Latency
      BY <2>1 DEF RInv, Timed
    <3> QED BY <1>2, <3>1, <3>2
  <2> QED BY <1>1, <2>1, <2>2 DEF RInv, Timed
<1> QED BY <1>3, <1>5, <1>6 DEF RInv

LEMMA SendKeeps ==
    ASSUME RInv, Send
    PROVE  RInv'
<1>1. PICK n \in Nat, p \in Nat, s \in Int, t \in Int :
        n = sent /\ p = Packets /\ s = Start /\ t = now /\ t >= s
  <2>1. Packets \in Nat /\ Start \in Nat
    BY NetworkAssumption
  <2>2. sent \in 0..Packets /\ now \in Int /\ now >= Start
    BY DEF RInv, Typed
  <2> QED BY <2>1, <2>2
<1>2. {Packets, now - Start} \subseteq Nat
  BY <1>1
<1>3. Min({Packets, now - Start}) \in Nat /\ Min({Packets, now - Start}) <= Packets
  <2>1. PICK T : T = {Packets, now - Start}
    OBVIOUS
  <2>2. Min(T) \in T /\ \A y \in T : Min(T) <= y
    BY <1>2, <2>1, MinFound
  <2> QED BY <1>2, <2>1, <2>2
<1>4. n < p
  <2>1. PICK k \in Nat : k = Min({Packets, now - Start}) /\ k <= p
    BY <1>1, <1>3
  <2>2. n < k
    BY <1>1, <2>1 DEF Send
  <2> QED BY <2>1, <2>2
<1>5. sent \in Pkt /\ sent' \in 0..Packets
  BY <1>1, <1>4 DEF Send, Pkt
<1>6. Uref(sent) \in Stored
  BY <1>5 DEF Uref, Stored, RInv, Typed
<1>7. kept' \in Seq(Stored)
  BY <1>6, AppendProperties DEF Send, Keep, RInv, Typed
<1>8. \A m \in packets' : m.pkt \in Pkt
  BY <1>5 DEF Send, InFlight, RInv, Typed
<1>9. rtt' \in 0..2 * MaxDelay /\ UNCHANGED <<now, due, receiver>>
  BY DEF Send, RInv, Typed
<1> QED BY <1>5, <1>7, <1>8, <1>9, ReceiverUntouched

LEMMA SenderTimerKeeps ==
    ASSUME RInv, SenderTimer
    PROVE  RInv'
<1>1. kept \in Seq(Stored) /\ Len(kept) \in Nat
  BY LenProperties DEF RInv, Typed
<1> DEFINE T == {m \in 0..Len(kept) : \A i \in 1..m : now - kept[i].cr_sys >= Latency}
<1>2. kept' = SubSeq(kept, Max(T) + 1, Len(kept))
  BY DEF SenderTimer, Forget, Leading
<1>3. T \subseteq 0..Len(kept) /\ 0 \in T
  BY <1>1
<1>4. Max(T) \in 0..Len(kept)
  <2> HIDE DEF T
  <2> QED BY <1>1, <1>3, MaxFound
<1> HIDE DEF T
<1>5. \A n \in 0..Len(kept) : SubSeq(kept, n + 1, Len(kept)) \in Seq(Stored)
  BY <1>1, CutInFront
<1>6. kept' \in Seq(Stored)
  BY <1>2, <1>4, <1>5
<1>7. /\ UNCHANGED <<now, due, receiver>>
      /\ rtt' \in 0..2 * MaxDelay /\ sent' \in 0..Packets /\ \A m \in packets' : m.pkt \in Pkt
  BY DEF SenderTimer, network, RInv, Typed
<1> QED BY <1>6, <1>7, ReceiverUntouched

(* Only packets that are kept are sent again.                              *)
LEMMA ReceiveNackKeeps ==
    ASSUME RInv, NEW m, ReceiveNack(m)
    PROVE  RInv'
<1>1. \A i \in DOMAIN kept : kept[i].pkt \in Pkt
  <2>1. kept \in Seq(Stored) /\ DOMAIN kept = 1..Len(kept)
    BY LenProperties DEF RInv, Typed
  <2>2. \A i \in 1..Len(kept) : kept[i] \in Stored
    BY <2>1, ElementOfSeq
  <2> QED BY <2>1, <2>2 DEF Stored
<1>2. \A first, n : Retransmitted(first, n) \subseteq Pkt
  <2>1. \A p \in Range(Pkts(kept)) : p \in Pkt
    BY <1>1 DEF Range, Pkts
  <2>2. \A first, n : Retransmitted(first, n) \subseteq Range(Pkts(kept))
    BY DEF Retransmitted
  <2> QED BY <2>1, <2>2
<1>3. \A first, n : RetransmittedRange(first, n) \subseteq Pkt
  BY <1>1 DEF RetransmittedRange
<1>4. PICK found : /\ found \in {Retransmitted(m.request.first, m.request.more),
                                 RetransmittedRange(m.request.first, m.request.more + 1)}
                   /\ packets' = packets \cup {InFlight(p) : p \in found}
  BY DEF ReceiveNack
<1>5. found \subseteq Pkt
  BY <1>2, <1>3, <1>4
<1>6. \A k \in packets' : k.pkt \in Pkt
  BY <1>4, <1>5 DEF InFlight, RInv, Typed
<1>7. /\ UNCHANGED <<now, due, receiver>>
      /\ rtt' \in 0..2 * MaxDelay /\ sent' \in 0..Packets /\ kept' \in Seq(Stored)
  BY DEF ReceiveNack, RInv, Typed
<1> QED BY <1>6, <1>7, ReceiverUntouched

LEMMA InitRInv == Init => RInv
<1> SUFFICES ASSUME Init PROVE RInv
  OBVIOUS
<1>1. /\ queue = <<>> /\ out = <<>> /\ kept = <<>> /\ packets = {} /\ expected_seqnum = None
      /\ buffered = 0 /\ sent = 0 /\ rtt = 0 /\ now = Start
      /\ last_nack = [s \in 0..Modulus - 1 |-> 0]
  BY DEF Init
<1>2. Start \in Nat /\ 0 \in 0..Packets /\ 0 \in 0..2 * MaxDelay
  BY NetworkAssumption
<1>3. /\ queue \in Seq(Stored) /\ kept \in Seq(Stored) /\ out \in Seq(Pkt)
      /\ Len(queue) = 0 /\ DOMAIN queue = {} /\ DOMAIN out = {}
  BY <1>1, EmptySeq
<1>4. last_nack \in [0..Modulus - 1 -> Int]
  BY <1>1
<1>5. Typed
  BY <1>1, <1>2, <1>3, <1>4 DEF Typed
<1>6. Missing = {}
  BY <1>3 DEF Missing, Held
<1>7. Sorted /\ Expecting /\ Timed /\ Marked
  BY <1>1, <1>3, <1>6 DEF Sorted, Expecting, Timed, Marked
<1> QED BY <1>5, <1>7 DEF RInv

LEMMA RInvHolds == Spec => []RInv
<1>1. Init => RInv
  BY InitRInv
<1>2. RInv /\ [Next]_vars => RInv'
  <2> SUFFICES ASSUME RInv, [Next]_vars PROVE RInv'
    OBVIOUS
  <2>1. CASE Send
    BY <2>1, SendKeeps
  <2>2. CASE SenderTimer
    BY <2>2, SenderTimerKeeps
  <2>3. CASE Lose
    <3>1. packets' \subseteq packets /\ UNCHANGED <<now, kept, rtt, sent, due, receiver>>
      BY <2>3 DEF Lose
    <3>2. \A m \in packets' : m.pkt \in Pkt
      BY <3>1 DEF RInv, Typed
    <3>3. rtt' \in 0..2 * MaxDelay /\ sent' \in 0..Packets /\ kept' \in Seq(Stored)
      BY <3>1 DEF RInv, Typed
    <3> QED BY <3>1, <3>2, <3>3, ReceiverUntouched
  <2>4. CASE Timer
    BY <2>4, OutputKeeps DEF Timer, network
  <2>5. CASE TimerLost
    <3>1. PICK requests : Ask(requests) /\ due' = due \ {"lost"} /\ UNCHANGED <<now, kept, rtt, sent, packets>>
      BY <2>5 DEF TimerLost
    <3>2. due' \subseteq due /\ ("timer" \in due => "timer" \in due')
      BY <3>1
    <3> QED BY <3>1, <3>2, AskKeeps
  <2>6. CASE Tick
    BY <2>6, TickKeeps
  <2>7. ASSUME NEW m \in packets, ReceivePacket(m) PROVE RInv'
    <3>1. m.pkt \in Pkt /\ m.pkt \in Int
      BY PktType DEF RInv, Typed
    <3>2. Input(m.pkt) /\ packets' \subseteq packets /\ UNCHANGED <<now, kept, rtt, sent, due>>
      BY <2>7 DEF ReceivePacket
    <3> QED BY <3>1, <3>2, InputKeeps
  <2>8. ASSUME NEW m \in nacks, ReceiveNack(m) PROVE RInv'
    BY <2>8, ReceiveNackKeeps
  <2>9. ASSUME NEW r \in 1..2 * MaxDelay, Measure(r) PROVE RInv'
    <3>1. rtt' \in 0..2 * MaxDelay /\ UNCHANGED <<now, kept, sent, due, packets, receiver>>
      BY <2>9, NetworkAssumption DEF Measure, network
    <3>2. sent' \in 0..Packets /\ kept' \in Seq(Stored) /\ \A m \in packets' : m.pkt \in Pkt
      BY <3>1 DEF RInv, Typed
    <3> QED BY <3>1, <3>2, ReceiverUntouched
  <2>10. CASE UNCHANGED vars
    <3>1. UNCHANGED <<now, kept, rtt, sent, due, packets, receiver>>
      BY <2>10 DEF vars, network
    <3>2. /\ rtt' \in 0..2 * MaxDelay /\ sent' \in 0..Packets
          /\ kept' \in Seq(Stored) /\ \A m \in packets' : m.pkt \in Pkt
      BY <3>1 DEF RInv, Typed
    <3> QED BY <3>1, <3>2, ReceiverUntouched
  <2> QED BY <2>1, <2>2, <2>3, <2>4, <2>5, <2>6, <2>7, <2>8, <2>9, <2>10 DEF Next
<1> QED BY <1>1, <1>2, PTL DEF Spec

-----------------------------------------------------------------------------
(* Every packet is output, and held, in the order in which it was sent,    *)
(* whatever the network does: sequence numbers that wrap, as in            *)
(* upipe_rtpfb_input and upipe_rtpfb_insert, are no less than the packets. *)
THEOREM AlwaysOrdered == Spec => []Ordered
<1>1. RInv => Ordered
  <2> SUFFICES ASSUME RInv PROVE Ordered
    OBVIOUS
  <2>1. PICK m \in Nat, o \in Nat : m = Len(queue) /\ o = Len(out)
    BY QueueIs, OutIs DEF RInv
  <2>2. /\ DOMAIN queue = 1..m /\ DOMAIN out = 1..o /\ out \in Seq(Pkt)
        /\ \A i \in 1..m : queue[i].pkt \in Pkt /\ queue[i].pkt \in Int
        /\ \A i \in 1..o : out[i] \in Int
    BY <2>1, QueueIs, OutIs DEF RInv
  <2>3. PICK f : f = Pkts(queue)
    OBVIOUS
  <2>4. f \in Seq(Pkt) /\ Len(f) = m /\ \A i \in 1..m : f[i] = queue[i].pkt
    <3>1. f = [i \in 1..m |-> queue[i].pkt]
      BY <2>2, <2>3 DEF Pkts
    <3>2. f \in [1..m -> Pkt]
      BY <2>2, <3>1
    <3> QED BY <3>1, <3>2
  <2>5. PICK s : s = out \o f
    OBVIOUS
  <2>6. /\ s \in Seq(Pkt) /\ Len(s) = o + m
        /\ \A i \in 1..o + m : s[i] = IF i <= o THEN out[i] ELSE f[i - o]
    <3>1. Len(out) = o /\ out \in Seq(Pkt) /\ f \in Seq(Pkt) /\ Len(f) = m
      BY <2>1, <2>2, <2>4
    <3>2. /\ out \o f \in Seq(Pkt) /\ Len(out \o f) = o + m
          /\ \A i \in 1..o + m : (out \o f)[i] = IF i <= o THEN out[i] ELSE f[i - o]
      BY <3>1, ConcatProperties
    <3> QED BY <2>5, <3>2
  <2>7. ASSUME NEW k \in 2..o + m
        PROVE  s[k - 1] < s[k]
    <3>1. k - 1 \in 1..o + m /\ k \in 1..o + m
      OBVIOUS
    <3>2. CASE k <= o
      <4>1. s[k - 1] = out[k - 1] /\ s[k] = out[k] /\ k - 1 \in 1..o /\ k \in 1..o
        BY <2>6, <3>1, <3>2
      <4> QED BY <2>2, <4>1, SMTT(60) DEF RInv, Sorted
    <3>3. CASE k > o /\ k - 1 <= o
      <4>1. k = o + 1 /\ k - o = 1
        BY <3>3
      <4>2. s[k - 1] = out[o] /\ s[k] = f[1] /\ o \in 1..o /\ 1 \in 1..m
        BY <2>6, <3>1, <3>3, <4>1
      <4> QED BY <2>2, <2>4, <4>2 DEF RInv, Sorted
    <3>4. CASE k - 1 > o
      <4>1. PICK i \in 1..m, j \in 1..m : i = k - 1 - o /\ j = k - o /\ i < j
        BY <3>4
      <4>2. s[k - 1] = f[i] /\ s[k] = f[j]
        BY <2>6, <3>1, <3>4, <4>1
      <4>3. queue[i].pkt < queue[j].pkt
        BY <2>2, <4>1 DEF RInv, Sorted
      <4> QED BY <2>4, <4>1, <4>2, <4>3
    <3> QED BY <3>1, <3>2, <3>3, <3>4
  <2>8. Increasing(out \o Pkts(queue))
    BY <2>3, <2>5, <2>6, <2>7 DEF Increasing
  <2>9. ASSUME queue # <<>> PROVE expected_seqnum = Plus(Seqnum(Last(queue)), 1)
    <3>1. m > 0 /\ m \in 1..m
      BY <2>1, <2>9, QueueIs DEF RInv
    <3>2. PICK a \in Int : a = queue[m].pkt
      BY <2>2, <3>1
    <3>3. expected_seqnum = Number(a + 1)
      BY <2>1, <2>9, <3>2 DEF RInv, Expecting
    <3>4. 1 \in Int /\ \A p, n \in Int : Plus(Number(p), n) = Number(p + n)
      BY NumberPlus
    <3>5. Seqnum(Last(queue)) = Number(a)
      BY <2>1, <3>2, SeqnumIs DEF Last
    <3> QED BY <3>3, <3>4, <3>5
  <2> QED BY <2>8, <2>9 DEF Ordered, RInv, Expecting
<1> QED BY <1>1, RInvHolds, PTL

(* A packet is held for the latency and one tick at most, that it was      *)
(* repaired or not: upipe_rtpfb_insert dates it so that the first ones are *)
(* the oldest, the only ones that upipe_rtpfb_timer looks at.              *)
THEOREM AlwaysOnTime == Spec => []OnTime
<1>1. RInv => OnTime
  <2> SUFFICES ASSUME RInv PROVE OnTime
    OBVIOUS
  <2>1. /\ Len(queue) \in Nat /\ DOMAIN queue = 1..Len(queue)
        /\ \A i \in 1..Len(queue) : queue[i].cr_sys \in Int
        /\ now \in Int /\ Latency \in Nat
    BY QueueIs, SeqnumAssumption DEF RInv, Typed
  <2>2. ASSUME NEW k \in 2..Len(queue) PROVE queue[k - 1].cr_sys <= queue[k].cr_sys
    <3>1. k - 1 \in DOMAIN queue /\ k \in DOMAIN queue /\ k - 1 < k
      BY <2>1
    <3> QED BY <3>1 DEF RInv, Timed
  <2>3. ASSUME NEW k \in DOMAIN queue PROVE now - queue[k].cr_sys <= Latency + 1
    <3>1. now - queue[k].cr_sys <= IF "timer" \in due THEN Latency + 1 ELSE Latency
      BY DEF RInv, Timed
    <3> QED BY <2>1, <3>1
  <2> QED BY <2>2, <2>3 DEF OnTime
<1> QED BY <1>1, RInvHolds, PTL

(* The receiver knows of each packet that is missing between two others    *)
(* that it needs to ask for it: upipe_rtpfb_input marks it when a later    *)
(* one arrives, and nothing clears that but the packet itself.             *)
THEOREM AlwaysMarked == Spec => []HolesMarked
<1>1. RInv => HolesMarked
  <2> SUFFICES ASSUME RInv, NEW k \in Holes, NEW s \in Hole(k)
               PROVE  last_nack[s] # 0
    BY DEF HolesMarked
  <2>1. Len(queue) \in Nat /\ DOMAIN queue = 1..Len(queue)
        /\ \A i \in 1..Len(queue) : queue[i].pkt \in Pkt /\ queue[i].pkt \in Int
    BY QueueIs DEF RInv
  <2>2. PICK j \in Int, i \in Int : j = k /\ i = k - 1 /\ i \in 1..Len(queue) /\ j \in 1..Len(queue) /\ i < j
    BY <2>1 DEF Holes
  <2>3. PICK a \in Int, b \in Int : a = queue[i].pkt /\ b = queue[j].pkt
    BY <2>1, <2>2
  <2>4. a \in Pkt /\ b \in Pkt /\ a < b /\ b - (a + 1) < Modulus
    <3>1. a \in Pkt /\ b \in Pkt
      BY <2>1, <2>2, <2>3
    <3>2. a >= 0 /\ b < Half
      BY <3>1, PktType
    <3>3. a < b
      BY <2>1, <2>2, <2>3 DEF RInv, Sorted
    <3> QED BY <3>1, <3>2, <3>3, HalfIsHalf
  <2>5. Hole(k) = Between(Number(a + 1), Number(b))
    <3>1. 1 \in Int /\ \A p, n \in Int : Plus(Number(p), n) = Number(p + n)
      BY NumberPlus
    <3>2. Plus(Number(a), 1) = Number(a + 1)
      BY <3>1
    <3> QED BY <2>2, <2>3, <3>2, SeqnumIs DEF Hole
  <2>6. PICK x \in Int : x = a + 1
    OBVIOUS
  <2>7. PICK z \in x..b - 1 : s = Number(z)
    <3>1. x <= b /\ b - x < Modulus
      BY <2>4, <2>6
    <3> QED BY <2>5, <2>6, <3>1, BetweenNumbers
  <2>8. z \in Pkt /\ a < z /\ z < b
    <3>1. a < z /\ z < b /\ z \in Int
      BY <2>6, <2>7
    <3> QED BY <2>4, <3>1, PktType, NetworkAssumption DEF Pkt
  <2>9. z \notin Held
    <3> SUFFICES ASSUME NEW m \in 1..Len(queue), z = queue[m].pkt PROVE FALSE
      BY <2>1 DEF Held
    <3>1. CASE m < i
      <4>1. z < a
        BY <2>1, <2>2, <2>3, <3>1 DEF RInv, Sorted
      <4> QED BY <2>8, <4>1
    <3>2. CASE m = i
      BY <2>3, <2>8, <3>2
    <3>3. CASE m > j
      <4>1. b < z
        BY <2>1, <2>2, <2>3, <3>3 DEF RInv, Sorted
      <4> QED BY <2>8, <4>1
    <3>4. CASE m = j
      BY <2>3, <2>8, <3>4
    <3> QED BY <2>1, <2>2, <3>1, <3>2, <3>3, <3>4
  <2>10. z \in Missing
    <3>1. a \in Held /\ b \in Held
      BY <2>1, <2>2, <2>3 DEF Held
    <3> QED BY <2>8, <2>9, <3>1 DEF Missing
  <2> QED BY <2>7, <2>10 DEF RInv, Marked
<1> QED BY <1>1, RInvHolds, PTL
=============================================================================
