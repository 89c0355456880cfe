---------------------------- MODULE ReceptionProofs ----------------------------
(***************************************************************************)
(* Theorems about the two ends of a reception.  Arrivals, what follows a      *)
(* delivery: which files the watcher finds, which previews a prune may remove, *)
(* and whom a closing window kills, for any number of handlers, of records and *)
(* of names.  And Advertiser, being found: what BlueZ is given to transmit,    *)
(* and when the responder replies, for any number of identifiers, any burst   *)
(* and any number of frames.  The two share no state.                         *)
(***************************************************************************)
EXTENDS Arrivals, Advertiser, FiniteSetTheorems, SequenceTheorems, WellFoundedInduction, TLAPS

-----------------------------------------------------------------------------
(* Arrivals: positions and sequences *)

\* A set of positions that is not empty has a least and a greatest one.
LEMMA EndsOf ==
  ASSUME NEW n \in Nat, NEW S \in SUBSET (1 .. n), S # {}
  PROVE  /\ \E x \in S : \A y \in S : x <= y
         /\ \E x \in S : \A y \in S : y <= x
<1>1. \A T \in SUBSET Nat : T # {} => \E x \in T : \A y \in T : x <= y
  <2> SUFFICES ASSUME NEW T \in SUBSET Nat, T # {} PROVE \E x \in T : \A y \in T : x <= y
    OBVIOUS
  <2>1. \E x \in T : \A y \in T : ~ (<<y, x>> \in OpToRel(<, Nat))
    BY NatLessThanWellFounded, WFMin
  <2>2. \E x \in T : \A y \in T : ~ (y < x)
    BY <2>1 DEF OpToRel
  <2> QED
    BY <2>2
<1>2. \E x \in S : \A y \in S : x <= y
  BY <1>1
<1> DEFINE T == {n - x : x \in S}
<1>3. T \in SUBSET Nat /\ T # {}
  <2>1. \A x \in S : x \in Nat /\ n - x \in Nat
    OBVIOUS
  <2> QED
    BY <2>1
<1>4. PICK t \in T : \A y \in T : t <= y
  BY <1>1, <1>3
<1>5. PICK x \in S : t = n - x
  OBVIOUS
<1>6. \A y \in S : n - x <= n - y
  BY <1>4, <1>5
<1>7. \A y \in S : y <= x
  BY <1>6
<1> QED
  BY <1>2, <1>7

\* Two sequences with the same elements at the same positions.
LEMMA SameSeq ==
  ASSUME NEW S, NEW s \in Seq(S), NEW T, NEW t \in Seq(T), Len(s) = Len(t),
         \A i \in 1 .. Len(s) : s[i] = t[i]
  PROVE  s = t
<1>1. DOMAIN s = 1 .. Len(s) /\ DOMAIN t = 1 .. Len(t)
  OBVIOUS
<1>2. s = [i \in DOMAIN s |-> s[i]] /\ t = [i \in DOMAIN t |-> t[i]]
  BY SeqDef
<1> QED
  BY <1>1, <1>2

\* Two sequences, one after the other.
LEMMA ConcatIs ==
  ASSUME NEW S, NEW s \in Seq(S), NEW t \in Seq(S)
  PROVE  /\ s \o t \in Seq(S) /\ Len(s \o t) = Len(s) + Len(t)
         /\ \A i \in 1 .. Len(s) : (s \o t)[i] = s[i]
         /\ \A i \in 1 .. Len(t) : (s \o t)[Len(s) + i] = t[i]
<1>1. s \o t \in Seq(S) /\ Len(s \o t) = Len(s) + Len(t) /\ Len(s) \in Nat /\ Len(t) \in Nat
  OBVIOUS
<1>2. \A i \in 1 .. Len(s) + Len(t) : (s \o t)[i] = IF i <= Len(s) THEN s[i] ELSE t[i - Len(s)]
  OBVIOUS
<1>3. ASSUME NEW i \in 1 .. Len(s) PROVE (s \o t)[i] = s[i]
  <2>1. i \in 1 .. Len(s) + Len(t) /\ i <= Len(s)
    BY <1>1
  <2> QED
    BY <1>2, <2>1
<1>4. ASSUME NEW i \in 1 .. Len(t) PROVE (s \o t)[Len(s) + i] = t[i]
  <2>1. Len(s) + i \in 1 .. Len(s) + Len(t) /\ ~ (Len(s) + i <= Len(s)) /\ (Len(s) + i) - Len(s) = i
    BY <1>1
  <2> QED
    BY <1>2, <2>1
<1> QED
  BY <1>1, <1>3, <1>4

\* An element, and a sequence after it.
LEMMA FirstIs ==
  ASSUME NEW S, NEW a \in S, NEW t \in Seq(S)
  PROVE  /\ <<a>> \o t \in Seq(S) /\ Len(<<a>> \o t) = 1 + Len(t) /\ (<<a>> \o t)[1] = a
         /\ \A i \in 1 .. Len(t) : (<<a>> \o t)[1 + i] = t[i]
<1> DEFINE u == <<a>>
           w == u \o t
<1>1. u \in Seq(S) /\ Len(u) = 1 /\ u[1] = a
  OBVIOUS
<1> HIDE DEF u
<1>2. w = u \o t
  OBVIOUS
<1> HIDE DEF w
<1>3. /\ w \in Seq(S) /\ Len(w) = Len(u) + Len(t)
      /\ \A i \in 1 .. Len(u) : w[i] = u[i]
      /\ \A i \in 1 .. Len(t) : w[Len(u) + i] = t[i]
  <2>1. u \in Seq(S) /\ t \in Seq(S)
    BY <1>1
  <2>2. w \in Seq(S)
    BY <1>2, <2>1
  <2>3. Len(w) = Len(u) + Len(t)
    BY <1>2, <2>1
  <2>4. \A i \in 1 .. Len(u) : w[i] = u[i]
    BY <1>2, <2>1, ConcatIs
  <2>5. \A i \in 1 .. Len(t) : w[Len(u) + i] = t[i]
    BY <1>2, <2>1, ConcatIs
  <2> QED
    BY <2>2, <2>3, <2>4, <2>5
<1>4. 1 \in 1 .. Len(u)
  BY <1>1
<1>5. w \in Seq(S) /\ Len(w) = 1 + Len(t) /\ w[1] = a /\ \A i \in 1 .. Len(t) : w[1 + i] = t[i]
  BY <1>1, <1>3, <1>4
<1> QED
  BY <1>5 DEF w, u

\* A part of a sequence.
LEMMA PartIs ==
  ASSUME NEW S, NEW s \in Seq(S), NEW m \in 1 .. Len(s) + 1, NEW n \in m - 1 .. Len(s)
  PROVE  /\ SubSeq(s, m, n) \in Seq(S) /\ Len(SubSeq(s, m, n)) = n - m + 1
         /\ \A i \in 1 .. n - m + 1 : SubSeq(s, m, n)[i] = s[m + i - 1]
<1>1. Len(s) \in Nat /\ m \in Int /\ n \in Int
  OBVIOUS
<1>2. \A i \in m .. n : s[i] \in S
  BY <1>1
<1>3. /\ SubSeq(s, m, n) \in Seq(S)
      /\ Len(SubSeq(s, m, n)) = IF m <= n THEN n - m + 1 ELSE 0
      /\ \A i \in 1 .. n - m + 1 : SubSeq(s, m, n)[i] = s[m + i - 1]
  BY <1>1, <1>2, SubSeqProperties
<1> QED
  BY <1>1, <1>3

\* A sequence defined from its end: of each position, a part and the position to go on at.
Linked(n, add, to, f, m) == f[n + 1] = <<>> /\ \A i \in m .. n : f[i] = add[i] \o f[to[i]]

LEMMA ChainLonger ==
  ASSUME NEW S, NEW n \in Nat, NEW add \in [1 .. n -> Seq(S)], NEW to \in [1 .. n -> 1 .. n + 1],
         \A i \in 1 .. n : to[i] > i,
         NEW k \in 1 .. n, NEW f \in [1 .. n + 1 -> Seq(S)], Linked(n, add, to, f, k + 1)
  PROVE  \E g \in [1 .. n + 1 -> Seq(S)] : Linked(n, add, to, g, k)
<1> DEFINE new == add[k] \o f[to[k]]
           g   == [i \in 1 .. n + 1 |-> IF i = k THEN new ELSE f[i]]
<1>1. new \in Seq(S)
  <2>1. to[k] \in 1 .. n + 1 /\ add[k] \in Seq(S)
    OBVIOUS
  <2>2. f[to[k]] \in Seq(S)
    BY <2>1
  <2> QED
    BY <2>1, <2>2
<1> HIDE DEF new
<1>2. g \in [1 .. n + 1 -> Seq(S)]
  BY <1>1
<1>3. /\ k \in 1 .. n + 1 /\ g[k] = new
      /\ \A i \in 1 .. n + 1 : i # k => g[i] = f[i]
  OBVIOUS
<1> HIDE DEF g
<1>4. g[n + 1] = <<>>
  <2>1. n + 1 \in 1 .. n + 1 /\ n + 1 # k
    OBVIOUS
  <2> QED
    BY <1>3, <2>1 DEF Linked
<1>5. ASSUME NEW i \in k .. n PROVE g[i] = add[i] \o g[to[i]]
  <2>1. i \in 1 .. n
    OBVIOUS
  <2>2. to[i] \in 1 .. n + 1 /\ to[i] # k
    BY <2>1
  <2>3. g[to[i]] = f[to[i]]
    BY <1>3, <2>2
  <2>4. CASE i = k
    BY <1>3, <2>3, <2>4 DEF new
  <2>5. CASE i # k
    <3>1. i \in k + 1 .. n /\ i \in 1 .. n + 1
      BY <2>1, <2>5
    <3>2. f[i] = add[i] \o f[to[i]]
      BY <3>1 DEF Linked
    <3> QED
      BY <1>3, <2>3, <2>5, <3>1, <3>2
  <2> QED
    BY <2>4, <2>5
<1> QED
  BY <1>2, <1>4, <1>5 DEF Linked

LEMMA ChainExists ==
  ASSUME NEW S, NEW n \in Nat, NEW add \in [1 .. n -> Seq(S)], NEW to \in [1 .. n -> 1 .. n + 1],
         \A i \in 1 .. n : to[i] > i
  PROVE  \E f \in [1 .. n + 1 -> Seq(S)] : Linked(n, add, to, f, 1)
<1> DEFINE M == {m \in 1 .. n + 1 : \E f \in [1 .. n + 1 -> Seq(S)] : Linked(n, add, to, f, m)}
<1>1. n + 1 \in M
  <2> DEFINE f == [i \in 1 .. n + 1 |-> <<>>]
  <2>1. f \in [1 .. n + 1 -> Seq(S)] /\ n + 1 \in 1 .. n + 1 /\ f[n + 1] = <<>>
    OBVIOUS
  <2> HIDE DEF f
  <2>2. Linked(n, add, to, f, n + 1)
    <3>1. n + 1 .. n = {}
      OBVIOUS
    <3> QED
      BY <2>1, <3>1 DEF Linked
  <2> QED
    BY <2>1, <2>2
<1>2. PICK m \in M : \A k \in M : m <= k
  <2>1. M \in SUBSET (1 .. n + 1)
    OBVIOUS
  <2>2. n + 1 \in Nat
    OBVIOUS
  <2> HIDE DEF M
  <2> QED
    BY <1>1, <2>1, <2>2, EndsOf
<1>3. m \in 1 .. n + 1 /\ \E f \in [1 .. n + 1 -> Seq(S)] : Linked(n, add, to, f, m)
  BY <1>2
<1>4. ASSUME NEW k \in 1 .. n, m = k + 1 PROVE FALSE
  <2>1. \E g \in [1 .. n + 1 -> Seq(S)] : Linked(n, add, to, g, k)
    BY <1>3, <1>4, ChainLonger
  <2>2. k \in M
    BY <2>1
  <2> HIDE DEF M
  <2> QED
    BY <1>2, <1>4, <2>2
<1>5. m = 1
  <2>1. CASE m # 1
    <3>1. m - 1 \in 1 .. n /\ m = (m - 1) + 1
      BY <1>3, <2>1
    <3> QED
      BY <1>4, <3>1
  <2> QED
    BY <2>1
<1> QED
  BY <1>3, <1>5

\* The sequences of a sequence, put one after the other.
Grown(s, f, m) == f[1] = s[1] /\ \A i \in 2 .. m : f[i] = f[i - 1] \o s[i]

LEMMA GrownLonger ==
  ASSUME NEW P, NEW s \in Seq(Seq(P)), NEW k \in 1 .. Len(s) - 1,
         NEW f \in [1 .. Len(s) -> Seq(P)], Grown(s, f, k)
  PROVE  \E g \in [1 .. Len(s) -> Seq(P)] : Grown(s, g, k + 1)
<1> DEFINE new == f[k] \o s[k + 1]
           g   == [i \in 1 .. Len(s) |-> IF i = k + 1 THEN new ELSE f[i]]
<1>1. Len(s) \in Nat /\ k \in 1 .. Len(s) /\ k + 1 \in 1 .. Len(s)
  OBVIOUS
<1>2. new \in Seq(P)
  <2>1. \A i \in 1 .. Len(s) : s[i] \in Seq(P)
    BY ElementOfSeq
  <2>2. f[k] \in Seq(P) /\ s[k + 1] \in Seq(P)
    BY <1>1, <2>1
  <2> QED
    BY <2>2
<1> HIDE DEF new
<1>3. g \in [1 .. Len(s) -> Seq(P)]
  BY <1>2
<1>4. g[k + 1] = new /\ \A i \in 1 .. Len(s) : i # k + 1 => g[i] = f[i]
  BY <1>1
<1> HIDE DEF g
<1>5. g[1] = s[1]
  <2>1. 1 \in 1 .. Len(s) /\ 1 # k + 1
    BY <1>1
  <2> QED
    BY <1>4, <2>1 DEF Grown
<1>6. ASSUME NEW i \in 2 .. k + 1 PROVE g[i] = g[i - 1] \o s[i]
  <2>1. i - 1 \in 1 .. Len(s) /\ i - 1 # k + 1
    BY <1>1
  <2>2. g[i - 1] = f[i - 1]
    BY <1>4, <2>1
  <2>3. CASE i = k + 1
    <3>1. i - 1 = k
      BY <2>3
    <3> QED
      BY <1>4, <2>2, <2>3, <3>1 DEF new
  <2>4. CASE i # k + 1
    <3>1. i \in 2 .. k /\ i \in 1 .. Len(s)
      BY <1>1, <2>4
    <3>2. f[i] = f[i - 1] \o s[i]
      BY <3>1 DEF Grown
    <3> QED
      BY <1>4, <2>2, <2>4, <3>1, <3>2
  <2> QED
    BY <2>3, <2>4
<1> QED
  BY <1>3, <1>5, <1>6 DEF Grown

LEMMA FlattenIs ==
  ASSUME NEW P, NEW s \in Seq(Seq(P)), s # <<>>
  PROVE  \E f \in [1 .. Len(s) -> Seq(P)] : Grown(s, f, Len(s)) /\ FlattenSeq(s) = f[Len(s)]
<1> DEFINE n == Len(s)
           M == {m \in 1 .. n : \E f \in [1 .. n -> Seq(P)] : Grown(s, f, m)}
<1>1. n \in Nat \ {0}
  OBVIOUS
<1> HIDE DEF n
<1>2. 1 \in M
  <2> DEFINE f == [i \in 1 .. n |-> s[1]]
  <2>1. 1 \in 1 .. n /\ s[1] \in Seq(P)
    BY <1>1 DEF n
  <2>2. f \in [1 .. n -> Seq(P)] /\ f[1] = s[1]
    BY <2>1
  <2> HIDE DEF f
  <2>3. Grown(s, f, 1)
    BY <2>2 DEF Grown
  <2> QED
    BY <2>1, <2>2, <2>3
<1>3. PICK m \in M : \A k \in M : k <= m
  <2>1. M \in SUBSET (1 .. n)
    OBVIOUS
  <2> HIDE DEF M
  <2> QED
    BY <1>1, <1>2, <2>1, EndsOf
<1>4. m \in 1 .. n /\ \E f \in [1 .. n -> Seq(P)] : Grown(s, f, m)
  BY <1>3
<1>5. m = n
  <2> SUFFICES ASSUME m # n PROVE FALSE
    OBVIOUS
  <2>1. m \in 1 .. Len(s) - 1 /\ m + 1 \in 1 .. n
    BY <1>1, <1>4 DEF n
  <2>2. \E g \in [1 .. n -> Seq(P)] : Grown(s, g, m + 1)
    BY <1>4, <2>1, GrownLonger DEF n
  <2>3. m + 1 \in M
    BY <2>1, <2>2
  <2> HIDE DEF M
  <2> QED
    BY <1>3, <1>4, <2>3
<1>6. PICK f \in [1 .. n -> Seq(P)] : Grown(s, f, n)
  BY <1>4, <1>5
<1> DEFINE Next1(g) == [i \in 1 .. n |-> IF i = 1 THEN s[i] ELSE g[i - 1] \o s[i]]
           c == CHOOSE g : g = Next1(g)
<1>7. FlattenSeq(s) = c[n]
  BY <1>1 DEF FlattenSeq, n
<1>8. f = Next1(f)
  <2>1. ASSUME NEW i \in 1 .. n PROVE f[i] = Next1(f)[i]
    <3>1. i # 1 => i \in 2 .. n
      OBVIOUS
    <3> QED
      BY <1>6, <3>1 DEF Grown
  <2> QED
    BY <2>1
<1>9. c = Next1(c)
  BY <1>8
<1>10. \A i \in 1 .. n : c[i] = IF i = 1 THEN s[i] ELSE c[i - 1] \o s[i]
  <2> HIDE DEF c
  <2> QED
    BY <1>9
<1>11. \A i \in 1 .. n : f[i] = IF i = 1 THEN s[i] ELSE f[i - 1] \o s[i]
  BY <1>8
<1> HIDE DEF c, Next1
<1>12. c[n] = f[n]
  <2> DEFINE D == {i \in 1 .. n : c[i] # f[i]}
  <2> SUFFICES ASSUME D # {} PROVE FALSE
    <3>1. n \in 1 .. n
      BY <1>1
    <3> QED
      BY <3>1
  <2>1. PICK i \in D : \A j \in D : i <= j
    <3>1. D \in SUBSET (1 .. n)
      OBVIOUS
    <3> HIDE DEF D
    <3> QED
      BY <1>1, <3>1, EndsOf
  <2>2. i # 1 => i - 1 \in 1 .. n /\ i - 1 \notin D
    BY <1>1, <2>1
  <2> QED
    BY <1>10, <1>11, <2>1, <2>2
<1> QED
  BY <1>6, <1>7, <1>12 DEF n

\* resolve_arrivals: the recursion has a solution, a sequence of names for each position.
Hits(dir, joined, i) == {j \in i .. Len(joined) : ArrivedFile(dir, SubSeq(joined, i, j))}
Resolving(dir, joined, at) ==
  /\ at[Len(joined) + 1] = <<>>
  /\ \A i \in 1 .. Len(joined) :
       at[i] = IF Hits(dir, joined, i) = {} THEN at[i + 1]
               ELSE <<SubSeq(joined, i, Min(Hits(dir, joined, i)))>> \o at[Min(Hits(dir, joined, i)) + 1]

LEMMA HitIs ==
  ASSUME NEW P, NEW joined \in Seq(P), NEW dir, NEW i \in 1 .. Len(joined), Hits(dir, joined, i) # {}
  PROVE  LET j == Min(Hits(dir, joined, i))
         IN  /\ j \in i .. Len(joined) /\ ArrivedFile(dir, SubSeq(joined, i, j))
             /\ \A k \in i .. j - 1 : ~ ArrivedFile(dir, SubSeq(joined, i, k))
<1> DEFINE H == Hits(dir, joined, i)
           j == Min(H)
<1>1. H \in SUBSET (1 .. Len(joined)) /\ Len(joined) \in Nat /\ H # {}
  BY DEF Hits
<1>2. \E x \in H : \A y \in H : x <= y
  <2> HIDE DEF H
  <2> QED
    BY <1>1, EndsOf
<1>3. j \in H /\ \A y \in H : j <= y
  BY <1>2 DEF Min
<1> HIDE DEF j
<1>4. j \in i .. Len(joined) /\ ArrivedFile(dir, SubSeq(joined, i, j))
  BY <1>3 DEF Hits
<1>5. ASSUME NEW k \in i .. j - 1 PROVE ~ ArrivedFile(dir, SubSeq(joined, i, k))
  <2>1. k \in i .. Len(joined) /\ ~ (j <= k)
    BY <1>1, <1>4
  <2>2. k \notin H
    BY <1>3, <2>1
  <2> QED
    BY <2>1, <2>2 DEF Hits
<1> QED
  BY <1>4, <1>5 DEF j

LEMMA ResolveIs ==
  ASSUME NEW P, NEW joined \in Seq(P), NEW dir
  PROVE  \E at \in [1 .. Len(joined) + 1 -> Seq(Names)] :
            Resolving(dir, joined, at) /\ ResolveArrivals(dir, joined) = at[1]
<1> DEFINE n == Len(joined)
           H(i) == Hits(dir, joined, i)
           add == [i \in 1 .. n |-> IF H(i) = {} THEN <<>> ELSE <<SubSeq(joined, i, Min(H(i)))>>]
           to  == [i \in 1 .. n |-> IF H(i) = {} THEN i + 1 ELSE Min(H(i)) + 1]
<1>1. n \in Nat
  OBVIOUS
<1>2. ASSUME NEW i \in 1 .. n, H(i) # {}
      PROVE  Min(H(i)) \in i .. n /\ SubSeq(joined, i, Min(H(i))) \in Names
  BY <1>2, HitIs DEF ArrivedFile
<1> HIDE DEF n, H
<1>3. /\ add \in [1 .. n -> Seq(Names)] /\ to \in [1 .. n -> 1 .. n + 1]
      /\ \A i \in 1 .. n : to[i] > i
  <2>1. ASSUME NEW i \in 1 .. n
        PROVE  /\ (IF H(i) = {} THEN <<>> ELSE <<SubSeq(joined, i, Min(H(i)))>>) \in Seq(Names)
               /\ (IF H(i) = {} THEN i + 1 ELSE Min(H(i)) + 1) \in i + 1 .. n + 1
    BY <1>1, <1>2
  <2> QED
    BY <2>1
<1>4. \A i \in 1 .. n : /\ add[i] = IF H(i) = {} THEN <<>> ELSE <<SubSeq(joined, i, Min(H(i)))>>
                        /\ to[i] = IF H(i) = {} THEN i + 1 ELSE Min(H(i)) + 1
  OBVIOUS
<1> HIDE DEF add, to
<1>5. PICK f \in [1 .. n + 1 -> Seq(Names)] : Linked(n, add, to, f, 1)
  BY <1>1, <1>3, ChainExists
<1> DEFINE Go(g) == [i \in 1 .. n + 1 |->
                       IF i > n THEN <<>>
                       ELSE IF H(i) = {} THEN g[i + 1]
                       ELSE <<SubSeq(joined, i, Min(H(i)))>> \o g[Min(H(i)) + 1]]
           c == CHOOSE g : g = Go(g)
<1>6. ResolveArrivals(dir, joined) = c[1]
  BY Zenon DEF ResolveArrivals, Hits, n, H
<1>7. \A i \in 1 .. n + 1 : Go(f)[i] = f[i]
  <2> SUFFICES ASSUME NEW i \in 1 .. n + 1 PROVE Go(f)[i] = f[i]
    OBVIOUS
  <2>0. Go(f)[i] = IF i > n THEN <<>>
                   ELSE IF H(i) = {} THEN f[i + 1]
                   ELSE <<SubSeq(joined, i, Min(H(i)))>> \o f[Min(H(i)) + 1]
    OBVIOUS
  <2> HIDE DEF Go
  <2>1. CASE i > n
    <3>1. i = n + 1
      BY <1>1, <2>1
    <3>2. f[i] = <<>>
      BY <1>5, <3>1 DEF Linked
    <3> QED
      BY <2>0, <2>1, <3>2
  <2>2. CASE i \in 1 .. n
    <3>1. f[i] = add[i] \o f[to[i]] /\ to[i] \in 1 .. n + 1
      BY <1>3, <1>5, <2>2 DEF Linked
    <3>2. CASE H(i) = {}
      <4>1. f[i] = <<>> \o f[i + 1] /\ f[i + 1] \in Seq(Names)
        BY <1>4, <2>2, <3>1, <3>2
      <4>2. f[i] = f[i + 1]
        BY <4>1
      <4> QED
        BY <1>1, <2>0, <2>2, <3>2, <4>2
    <3>3. CASE H(i) # {}
      <4>1. add[i] = <<SubSeq(joined, i, Min(H(i)))>> /\ to[i] = Min(H(i)) + 1 /\ ~ (i > n)
        <5>1. ~ (i > n)
          BY <1>1, <2>2
        <5> QED
          BY <1>4, <2>2, <3>3, <5>1
      <4> QED
        BY <2>0, <3>1, <3>3, <4>1
    <3> QED
      BY <3>2, <3>3
  <2>3. i > n \/ i \in 1 .. n
    BY <1>1
  <2> QED
    BY <2>1, <2>2, <2>3
<1>8. f = Go(f)
  <2>1. f = [i \in 1 .. n + 1 |-> f[i]]
    OBVIOUS
  <2> QED
    BY <1>7, <2>1
<1>9. c = Go(c)
  BY <1>8
<1>10. \A i \in 1 .. n + 1 : c[i] = IF i > n THEN <<>>
                                 ELSE IF H(i) = {} THEN c[i + 1]
                                 ELSE <<SubSeq(joined, i, Min(H(i)))>> \o c[Min(H(i)) + 1]
  <2> HIDE DEF c
  <2> QED
    BY <1>9
<1>11. \A i \in 1 .. n + 1 : f[i] = IF i > n THEN <<>>
                                 ELSE IF H(i) = {} THEN f[i + 1]
                                 ELSE <<SubSeq(joined, i, Min(H(i)))>> \o f[Min(H(i)) + 1]
  BY <1>8
<1> HIDE DEF c, Go
<1>12. c[1] = f[1]
  <2> DEFINE D == {i \in 1 .. n + 1 : c[i] # f[i]}
  <2> SUFFICES ASSUME D # {} PROVE FALSE
    BY <1>1
  <2>1. PICK i \in D : \A j \in D : j <= i
    <3>1. D \in SUBSET (1 .. n + 1) /\ n + 1 \in Nat
      BY <1>1
    <3> HIDE DEF D
    <3> QED
      BY <3>1, EndsOf
  <2>2. i \in 1 .. n + 1 /\ c[i] # f[i]
    OBVIOUS
  <2>3. i \in 1 .. n
    <3>1. CASE i > n
      BY <1>10, <1>11, <2>2, <3>1
    <3> QED
      BY <1>1, <2>2, <3>1
  <2>4. c[i + 1] = f[i + 1]
    BY <1>1, <2>1, <2>3
  <2>5. H(i) # {} => c[Min(H(i)) + 1] = f[Min(H(i)) + 1]
    <3> SUFFICES ASSUME H(i) # {} PROVE c[Min(H(i)) + 1] = f[Min(H(i)) + 1]
      OBVIOUS
    <3>1. Min(H(i)) + 1 \in 1 .. n + 1 /\ ~ (Min(H(i)) + 1 <= i)
      BY <1>1, <1>2, <2>3
    <3> QED
      BY <2>1, <3>1
  <2> QED
    BY <1>1, <1>10, <1>11, <2>2, <2>3, <2>4, <2>5
<1>13. Resolving(dir, joined, f)
  <2>1. f[n + 1] = <<>>
    BY <1>5 DEF Linked
  <2>2. ASSUME NEW i \in 1 .. n
        PROVE  f[i] = IF H(i) = {} THEN f[i + 1] ELSE <<SubSeq(joined, i, Min(H(i)))>> \o f[Min(H(i)) + 1]
    <3>1. i \in 1 .. n + 1 /\ ~ (i > n)
      BY <1>1
    <3> QED
      BY <1>11, <3>1
  <2> QED
    BY <2>1, <2>2 DEF Resolving, n, H
<1> QED
  BY <1>5, <1>6, <1>12, <1>13 DEF n

\* Where each of the sequences ends in what they make together.
Cuts(s, J, e) ==
  /\ e[0] = 0 /\ e[Len(s)] = Len(J)
  /\ \A k \in 1 .. Len(s) :
       /\ e[k] = e[k - 1] + Len(s[k]) /\ e[k] <= Len(J)
       /\ \A m \in 1 .. Len(s[k]) : J[e[k - 1] + m] = s[k][m]

LEMMA GrownCuts ==
  ASSUME NEW P, NEW s \in Seq(Seq(P)), s # <<>>,
         NEW f \in [1 .. Len(s) -> Seq(P)], Grown(s, f, Len(s))
  PROVE  \E e \in [0 .. Len(s) -> Nat] : Cuts(s, f[Len(s)], e)
<1> DEFINE n == Len(s)
           J == f[n]
           e == [k \in 0 .. n |-> IF k = 0 THEN 0 ELSE Len(f[k])]
<1>1. n \in Nat \ {0} /\ \A k \in 1 .. n : f[k] \in Seq(P)
  <2>1. n \in Nat \ {0}
    OBVIOUS
  <2> HIDE DEF n
  <2>2. f \in [1 .. n -> Seq(P)]
    BY DEF n
  <2> QED
    BY <2>1, <2>2
<1>2. \A k \in 1 .. n : s[k] \in Seq(P)
  BY ElementOfSeq
<1>3. /\ f[1] = s[1]
      /\ \A k \in 2 .. n : f[k] = f[k - 1] \o s[k]
  BY DEF Grown
<1> HIDE DEF n
<1>4. e \in [0 .. n -> Nat]
  <2>1. \A k \in 1 .. n : Len(f[k]) \in Nat
    BY <1>1
  <2> QED
    BY <2>1
<1>5. e[0] = 0 /\ \A k \in 1 .. n : e[k] = Len(f[k])
  BY <1>1
<1> HIDE DEF e
<1>0. \A k \in 0 .. n : e[k] \in Nat
  BY <1>4
<1>6. ASSUME NEW k \in 1 .. n
      PROVE  /\ e[k] = e[k - 1] + Len(s[k])
             /\ \A m \in 1 .. Len(s[k]) : f[k][e[k - 1] + m] = s[k][m]
             /\ k # 1 => \A m \in 1 .. e[k - 1] : f[k][m] = f[k - 1][m]
  <2>1. CASE k = 1
    BY <1>1, <1>2, <1>3, <1>5, <2>1
  <2>2. CASE k # 1
    <3>1. k \in 2 .. n /\ k - 1 \in 1 .. n
      BY <1>1, <2>2
    <3>2. f[k] = f[k - 1] \o s[k] /\ f[k - 1] \in Seq(P) /\ s[k] \in Seq(P) /\ e[k - 1] = Len(f[k - 1])
      BY <1>1, <1>2, <1>3, <1>5, <3>1
    <3>3. /\ Len(f[k]) = Len(f[k - 1]) + Len(s[k])
          /\ \A m \in 1 .. Len(s[k]) : f[k][Len(f[k - 1]) + m] = s[k][m]
          /\ \A m \in 1 .. Len(f[k - 1]) : f[k][m] = f[k - 1][m]
      <4> DEFINE u == f[k - 1]
                 v == s[k]
      <4>1. u \in Seq(P) /\ v \in Seq(P) /\ f[k] = u \o v
        BY <3>2
      <4> HIDE DEF u, v
      <4>2. /\ Len(f[k]) = Len(u) + Len(v)
            /\ \A m \in 1 .. Len(v) : f[k][Len(u) + m] = v[m]
            /\ \A m \in 1 .. Len(u) : f[k][m] = u[m]
        BY <4>1, ConcatIs
      <4> QED
        BY <4>2 DEF u, v
    <3> QED
      BY <1>5, <3>2, <3>3
  <2> QED
    BY <2>1, <2>2
<1>7. \A k \in 1 .. n : e[k] <= e[n] /\ \A m \in 1 .. e[k] : f[n][m] = f[k][m]
  <2> DEFINE Fits(k) == e[k] <= e[n] /\ \A m \in 1 .. e[k] : f[n][m] = f[k][m]
             B == {k \in 1 .. n : ~ Fits(k)}
  <2> SUFFICES ASSUME B # {} PROVE FALSE
    OBVIOUS
  <2>1. PICK k \in B : \A j \in B : j <= k
    <3>1. B \in SUBSET (1 .. n)
      OBVIOUS
    <3> HIDE DEF B
    <3> QED
      BY <1>1, <3>1, EndsOf
  <2>2. k \in 1 .. n /\ ~ Fits(k)
    BY <2>1
  <2>3. k # n
    <3>1. n \in 0 .. n
      BY <1>1
    <3>2. e[n] \in Nat
      BY <1>4, <3>1
    <3>3. Fits(n)
      BY <3>2
    <3> QED
      BY <2>2, <3>3
  <2>4. k + 1 \in 1 .. n /\ k + 1 # 1 /\ (k + 1) - 1 = k
    BY <1>1, <2>2, <2>3
  <2>5. Fits(k + 1)
    <3>1. k + 1 \notin B
      BY <2>1, <2>2, <2>4
    <3> QED
      BY <2>4, <3>1
  <2>6. /\ e[k + 1] = e[k] + Len(s[k + 1]) /\ \A m \in 1 .. e[k] : f[k + 1][m] = f[k][m]
        /\ e[k] \in Nat /\ e[k + 1] \in Nat /\ e[n] \in Nat /\ Len(s[k + 1]) \in Nat
    <3>0. k \in 0 .. n /\ k + 1 \in 0 .. n /\ n \in 0 .. n
      BY <1>1, <2>2, <2>4
    <3>1. e[k] \in Nat /\ e[k + 1] \in Nat /\ e[n] \in Nat
      BY <1>4, <3>0
    <3>2. s[k + 1] \in Seq(P)
      BY <1>2, <2>4
    <3> QED
      BY <1>6, <2>4, <3>1, <3>2
  <2>7. Fits(k)
    <3>1. e[k] <= e[k + 1] /\ e[k + 1] <= e[n]
      BY <2>5, <2>6
    <3>2. ASSUME NEW m \in 1 .. e[k] PROVE f[n][m] = f[k][m]
      <4>1. m \in 1 .. e[k + 1]
        BY <2>6, <3>1
      <4>2. f[n][m] = f[k + 1][m] /\ f[k + 1][m] = f[k][m]
        BY <2>5, <2>6, <4>1
      <4> QED
        BY <4>2
    <3>3. e[k] <= e[n]
      BY <2>6, <3>1
    <3> QED
      BY <3>2, <3>3
  <2> QED
    BY <2>2, <2>7
<1>8. e[n] = Len(J)
  BY <1>1, <1>5
<1>9. ASSUME NEW k \in 1 .. n, NEW m \in 1 .. Len(s[k])
      PROVE  J[e[k - 1] + m] = s[k][m]
  <2>1. e[k - 1] \in Nat /\ e[k] \in Nat /\ Len(s[k]) \in Nat
    <3>1. k - 1 \in 0 .. n /\ k \in 0 .. n
      BY <1>1
    <3>2. s[k] \in Seq(P)
      BY <1>2
    <3> QED
      BY <1>0, <3>1, <3>2
  <2>2. e[k - 1] + m \in 1 .. e[k]
    BY <1>6, <2>1
  <2>3. f[n][e[k - 1] + m] = f[k][e[k - 1] + m]
    BY <1>7, <2>2
  <2> QED
    BY <1>6, <2>3
<1>10. Cuts(s, J, e)
  BY <1>5, <1>6, <1>7, <1>8, <1>9 DEF Cuts, n
<1> QED
  BY <1>4, <1>10 DEF n

LEMMA FlattenCuts ==
  ASSUME NEW P, NEW s \in Seq(Seq(P))
  PROVE  FlattenSeq(s) \in Seq(P) /\ \E e \in [0 .. Len(s) -> Nat] : Cuts(s, FlattenSeq(s), e)
<1>1. CASE s = <<>>
  <2> DEFINE e == [k \in 0 .. 0 |-> 0]
  <2>1. Len(s) = 0 /\ FlattenSeq(s) = <<>>
    BY <1>1 DEF FlattenSeq
  <2>2. e \in [0 .. Len(s) -> Nat] /\ e[0] = 0 /\ e[Len(s)] = 0 /\ 1 .. Len(s) = {}
    BY <2>1
  <2> HIDE DEF e
  <2>3. Cuts(s, FlattenSeq(s), e)
    BY <2>1, <2>2 DEF Cuts
  <2> QED
    BY <2>1, <2>2, <2>3
<1>2. CASE s # <<>>
  <2>1. PICK f \in [1 .. Len(s) -> Seq(P)] : Grown(s, f, Len(s)) /\ FlattenSeq(s) = f[Len(s)]
    BY <1>2, FlattenIs
  <2>2. Len(s) \in 1 .. Len(s)
    BY <1>2
  <2>3. f[Len(s)] \in Seq(P)
    BY <2>2
  <2> QED
    BY <1>2, <2>1, <2>3, GrownCuts
<1> QED
  BY <1>1, <1>2

-----------------------------------------------------------------------------
(* Arrivals: what the watcher finds *)

Pieces == UNION {Range(n) : n \in Names}

LEMMA NameIs ==
  ASSUME NEW n \in Names
  PROVE  n \in Seq(Pieces) /\ n # <<>> /\ Len(n) \in Nat \ {0}
<1>1. n \in Seq(Range(n)) /\ n # <<>>
  BY ArrivalsAssumption
<1>2. Range(n) \subseteq Pieces
  BY DEF Pieces
<1>3. n \in Seq(Pieces)
  BY <1>1, <1>2, SeqMonotonic
<1> QED
  BY <1>1, <1>3

LEMMA ResolveFinds ==
  ASSUME NEW dir, NEW names \in Seq(Names), Plain(dir, names)
  PROVE  ResolveArrivals(dir, FlattenSeq(names)) = names
<1> DEFINE n == Len(names)
           J == FlattenSeq(names)
           Rest(k) == SubSeq(names, k, n)
<1>1. n \in Nat /\ names \in Seq(Seq(Pieces)) /\ \A k \in 1 .. n : names[k] \in Names
  <2>1. Names \subseteq Seq(Pieces)
    BY NameIs
  <2>2. names \in Seq(Seq(Pieces))
    BY <2>1, SeqMonotonic
  <2> QED
    BY <2>2, ElementOfSeq
<1>2. J \in Seq(Pieces) /\ \E e \in [0 .. n -> Nat] : Cuts(names, J, e)
  BY <1>1, FlattenCuts
<1>3. PICK e \in [0 .. n -> Nat] : Cuts(names, J, e)
  BY <1>2
<1> HIDE DEF n, J
<1>4. PICK at \in [1 .. Len(J) + 1 -> Seq(Names)] :
        Resolving(dir, J, at) /\ ResolveArrivals(dir, J) = at[1]
  BY <1>2, ResolveIs
<1>5. ASSUME NEW k \in 1 .. n, at[e[k] + 1] = Rest(k + 1)
      PROVE  at[e[k - 1] + 1] = Rest(k)
  <2> DEFINE d == e[k - 1]
             i == d + 1
             name == names[k]
             l == Len(name)
  <2>1. name \in Names /\ name \in Seq(Pieces) /\ l \in Nat \ {0}
    BY <1>1, NameIs
  <2>2. d \in Nat /\ e[k] \in Nat /\ Len(J) \in Nat
    <3>1. k - 1 \in 0 .. n /\ k \in 0 .. n
      BY <1>1
    <3>2. \A x \in 0 .. n : e[x] \in Nat
      OBVIOUS
    <3> QED
      BY <1>2, <3>1, <3>2
  <2>3. /\ e[k] = d + l /\ e[k] <= Len(J)
        /\ \A m \in 1 .. l : J[d + m] = name[m]
    BY <1>3 DEF Cuts, n
  <2> HIDE DEF name, l, d
  <2>0. i = d + 1 /\ i \in Nat
    BY <2>2
  <2> HIDE DEF i
  <2>4. ASSUME NEW m \in 1 .. l
        PROVE  SubSeq(J, i, d + m) = SubSeq(name, 1, m)
    <3>1. i \in 1 .. Len(J) + 1 /\ d + m \in i - 1 .. Len(J) /\ (d + m) - i + 1 = m
      BY <2>0, <2>1, <2>2, <2>3
    <3>2. 1 \in 1 .. Len(name) + 1 /\ m \in 1 - 1 .. Len(name) /\ m - 1 + 1 = m
      BY <2>1 DEF l
    <3> DEFINE s == SubSeq(J, i, d + m)
               t == SubSeq(name, 1, m)
    <3>3. s \in Seq(Pieces) /\ Len(s) = m /\ \A x \in 1 .. m : s[x] = J[i + x - 1]
      BY <1>2, <3>1, PartIs
    <3>4. t \in Seq(Pieces) /\ Len(t) = m /\ \A x \in 1 .. m : t[x] = name[1 + x - 1]
      BY <2>1, <3>2, PartIs
    <3> HIDE DEF s, t
    <3>5. ASSUME NEW x \in 1 .. m PROVE s[x] = t[x]
      <4>1. x \in 1 .. l /\ i + x - 1 = d + x /\ 1 + x - 1 = x
        BY <2>0, <2>1, <2>2
      <4> QED
        BY <2>3, <3>3, <3>4, <4>1
    <3>6. s = t
      BY <3>3, <3>4, <3>5, SameSeq
    <3> QED
      BY <3>6 DEF s, t
  <2>5. ASSUME NEW m \in 1 .. l
        PROVE  ArrivedFile(dir, SubSeq(J, i, d + m)) <=> m = l
    <3>1. m \in 1 .. Len(J) /\ m <= Len(name)
      BY <2>1, <2>2, <2>3 DEF l
    <3>2. k \in DOMAIN names
      BY <1>1 DEF n
    <3>3. ArrivedFile(dir, SubSeq(name, 1, m)) <=> m = Len(name)
      BY <3>1, <3>2 DEF Plain, J, name
    <3> QED
      BY <2>4, <3>3 DEF l
  <2>6. i \in 1 .. Len(J) /\ e[k] \in i .. Len(J)
    BY <2>0, <2>1, <2>2, <2>3
  <2>7. ArrivedFile(dir, SubSeq(J, i, e[k]))
    <3>1. l \in 1 .. l
      BY <2>1
    <3>2. ArrivedFile(dir, SubSeq(J, i, d + l))
      BY <2>5, <3>1
    <3> QED
      BY <2>3, <3>2
  <2>8. Hits(dir, J, i) # {}
    BY <2>6, <2>7 DEF Hits
  <2> DEFINE j == Min(Hits(dir, J, i))
  <2>9. /\ j \in i .. Len(J) /\ ArrivedFile(dir, SubSeq(J, i, j))
        /\ \A x \in i .. j - 1 : ~ ArrivedFile(dir, SubSeq(J, i, x))
    BY <1>2, <2>6, <2>8, HitIs
  <2>10. at[i] = <<SubSeq(J, i, j)>> \o at[j + 1]
    BY <1>4, <2>6, <2>8 DEF Resolving
  <2> HIDE DEF j
  <2>11. j = e[k]
    <3>1. ~ (e[k] \in i .. j - 1)
      BY <2>7, <2>9
    <3>2. j <= e[k]
      BY <2>2, <2>6, <2>9, <3>1
    <3>3. j - d \in 1 .. l /\ d + (j - d) = j
      BY <2>0, <2>1, <2>2, <2>3, <2>9, <3>2
    <3>4. j - d = l
      BY <2>5, <2>9, <3>3
    <3> QED
      BY <2>0, <2>1, <2>2, <2>3, <2>9, <3>4
  <2>12. SubSeq(J, i, e[k]) = name
    <3>1. SubSeq(J, i, e[k]) = SubSeq(name, 1, l)
      <4>1. l \in 1 .. l
        BY <2>1
      <4> QED
        BY <2>3, <2>4, <4>1
    <3>2. SubSeq(name, 1, l) = name
      <4> DEFINE t == SubSeq(name, 1, l)
      <4>1. 1 \in 1 .. Len(name) + 1 /\ l \in 1 - 1 .. Len(name) /\ l - 1 + 1 = l
        BY <2>1 DEF l
      <4>2. t \in Seq(Pieces) /\ Len(t) = l /\ \A x \in 1 .. l : t[x] = name[1 + x - 1]
        BY <2>1, <4>1, PartIs
      <4> HIDE DEF t
      <4>3. t = name
        <5>1. \A x \in 1 .. Len(t) : t[x] = name[x]
          BY <2>1, <4>2
        <5> QED
          BY <2>1, <4>2, <5>1, SameSeq DEF l
      <4> QED
        BY <4>3 DEF t
    <3> QED
      BY <3>1, <3>2
  <2>13. at[i] = <<name>> \o Rest(k + 1)
    BY <1>5, <2>10, <2>11, <2>12
  <2>14. <<name>> \o Rest(k + 1) = Rest(k)
    <3> DEFINE r == Rest(k + 1)
               q == Rest(k)
    <3>1. k + 1 \in 1 .. Len(names) + 1 /\ n \in (k + 1) - 1 .. Len(names) /\ n - (k + 1) + 1 = n - k
      BY <1>1 DEF n
    <3>2. k \in 1 .. Len(names) + 1 /\ n \in k - 1 .. Len(names)
      BY <1>1 DEF n
    <3>3. r \in Seq(Names) /\ Len(r) = n - k /\ \A x \in 1 .. n - k : r[x] = names[(k + 1) + x - 1]
      BY <3>1, PartIs
    <3>4. q \in Seq(Names) /\ Len(q) = n - k + 1 /\ \A x \in 1 .. n - k + 1 : q[x] = names[k + x - 1]
      BY <3>2, PartIs
    <3> HIDE DEF r, q
    <3> DEFINE p == <<name>> \o r
    <3>5. p \in Seq(Names) /\ Len(p) = 1 + (n - k) /\ p[1] = name /\ \A x \in 1 .. n - k : p[1 + x] = r[x]
      <4>1. \A x \in 1 .. Len(r) : <<name>> \o r \in Seq(Names) /\ Len(<<name>> \o r) = 1 + Len(r)
                                 /\ (<<name>> \o r)[1] = name /\ (<<name>> \o r)[1 + x] = r[x]
        BY <2>1, <3>3, FirstIs
      <4>2. <<name>> \o r \in Seq(Names) /\ Len(<<name>> \o r) = 1 + Len(r) /\ (<<name>> \o r)[1] = name
        BY <2>1, <3>3, FirstIs
      <4> QED
        BY <3>3, <4>1, <4>2
    <3>6. ASSUME NEW x \in 1 .. Len(p) PROVE p[x] = q[x]
      <4>1. CASE x = 1
        <5>1. q[1] = names[k + 1 - 1] /\ k + 1 - 1 = k
          BY <1>1, <3>4
        <5> QED
          BY <3>5, <4>1, <5>1 DEF name
      <4>2. CASE x # 1
        <5>0. n - k \in Nat /\ k \in Nat
          BY <1>1
        <5>1. 1 + (x - 1) = x /\ x - 1 \in 1 .. n - k /\ x \in 1 .. n - k + 1
          BY <3>5, <4>2, <5>0
        <5>2. r[x - 1] = names[(k + 1) + (x - 1) - 1] /\ (k + 1) + (x - 1) - 1 = k + x - 1
          BY <3>3, <5>0, <5>1
        <5> QED
          BY <3>4, <3>5, <5>1, <5>2
      <4> QED
        BY <4>1, <4>2
    <3>7. p = q
      <4>1. Len(p) = Len(q)
        <5>1. n - k \in Nat
          BY <1>1
        <5> QED
          BY <3>4, <3>5, <5>1
      <4> QED
        BY <3>4, <3>5, <3>6, <4>1, SameSeq
    <3> QED
      BY <3>7 DEF p, q, r
  <2> QED
    BY <2>13, <2>14 DEF i, d
<1>6. \A k \in 1 .. n + 1 : at[e[k - 1] + 1] = Rest(k)
  <2> DEFINE B == {k \in 1 .. n + 1 : at[e[k - 1] + 1] # Rest(k)}
  <2> SUFFICES ASSUME B # {} PROVE FALSE
    OBVIOUS
  <2>1. PICK k \in B : \A x \in B : x <= k
    <3>1. B \in SUBSET (1 .. n + 1)
      OBVIOUS
    <3>2. n + 1 \in Nat
      BY <1>1
    <3> HIDE DEF B
    <3> QED
      BY <3>1, <3>2, EndsOf
  <2>2. k \in 1 .. n + 1 /\ at[e[k - 1] + 1] # Rest(k)
    BY <2>1
  <2>3. CASE k = n + 1
    <3>1. e[k - 1] = Len(J) /\ k - 1 = n
      BY <1>1, <1>3, <2>3 DEF Cuts, n
    <3>2. at[Len(J) + 1] = <<>>
      BY <1>4 DEF Resolving
    <3>3. Rest(k) = <<>>
      BY <1>1, <2>3
    <3> QED
      BY <2>2, <3>1, <3>2, <3>3
  <2>4. CASE k # n + 1
    <3>1. k \in 1 .. n /\ k + 1 \in 1 .. n + 1 /\ (k + 1) - 1 = k
      BY <1>1, <2>2, <2>4
    <3>2. k + 1 \notin B
      BY <2>1, <3>1
    <3>3. at[e[k] + 1] = Rest(k + 1)
      BY <3>1, <3>2
    <3> QED
      BY <1>5, <2>2, <3>1, <3>3
  <2> QED
    BY <2>3, <2>4
<1>7. at[1] = Rest(1)
  <2>1. 1 \in 1 .. n + 1 /\ e[1 - 1] = 0
    BY <1>1, <1>3 DEF Cuts
  <2> QED
    BY <1>6, <2>1
<1>8. Rest(1) = names
  BY <1>1 DEF n
<1> QED
  BY <1>4, <1>7, <1>8 DEF J

LEMMA ArrivedTyped ==
  ASSUME NEW dir, NEW r \in Records
  PROVE  Arrived(dir, r) \in Seq(Names)
<1>1. r.names \in Seq(Names)
  BY ArrivalsAssumption DEF Record
<1>2. r.names \in Seq(Seq(Pieces))
  <2>1. Names \subseteq Seq(Pieces)
    BY NameIs
  <2> QED
    BY <1>1, <2>1, SeqMonotonic
<1>3. FlattenSeq(r.names) \in Seq(Pieces)
  BY <1>2, FlattenCuts
<1>4. ResolveArrivals(dir, FlattenSeq(r.names)) \in Seq(Names)
  <2> DEFINE J == FlattenSeq(r.names)
  <2> HIDE DEF J
  <2>1. J \in Seq(Pieces)
    BY <1>3 DEF J
  <2>2. PICK at \in [1 .. Len(J) + 1 -> Seq(Names)] : ResolveArrivals(dir, J) = at[1]
    BY <2>1, ResolveIs
  <2>3. 1 \in 1 .. Len(J) + 1
    BY <2>1
  <2>4. ResolveArrivals(dir, J) \in Seq(Names)
    BY <2>2, <2>3
  <2> QED
    BY <2>4 DEF J
<1> QED
  BY <1>4 DEF Arrived

\* "a piece that is not a file is joined with the pieces after it until one is"
\* (resolve_arrivals): for records of any length, in a folder where no file's name is the
\* beginning of one of theirs, up to a comma.
THEOREM EveryRecordIsFound ==
  \A dir \in Folders, names \in Seq(Names) :
    Plain(dir, names) => ResolveArrivals(dir, FlattenSeq(names)) = names
  BY ResolveFinds

-----------------------------------------------------------------------------
(* Arrivals: the invariant *)

Early == {"idle", "clip", "work", "decode", "shrink"}
Completed(g) == \E i \in DOMAIN finishing : finishing[i] = g

\* The watcher: a record in hand has files, nobody is killed before the watcher is
\* gone, and it goes when no child runs, unless it is stopped.
Watching ==
  /\ watch = "spawn" => found # <<>>
  /\ watch # "gone" => ~ closed /\ \A h \in Handlers : hpc[h] # "killed"
  /\ watch = "off" => \A h \in Handlers : unit[h] \/ Ended(h)
  /\ ClosingLosesNothing

\* The modification times tell the order in which previews were complete.
Ordered ==
  /\ \A i, j \in DOMAIN finishing : i < j => mtime[finishing[i]] < mtime[finishing[j]]
  /\ \A i \in DOMAIN finishing : mtime[finishing[i]] < clock /\ hpc[finishing[i]] \notin Early

\* What a handler's place says of its preview and of its notification's image.
Placed ==
  \A h \in Handlers :
    /\ hpc[h] \in Early \cup {"rename"} => image[h] # "preview" /\ preview[h] # "finished"
    /\ hpc[h] = "rename" \/ preview[h] = "finished" => Completed(h)
    /\ preview[h] = "finished" => image[h] = "preview"
    /\ image[h] = "preview" => Completed(h) /\ preview[h] \in {"finished", "gone"}

\* What a prune has chosen, and what is gone: left behind, or with Keep completed after it.
Pruned ==
  /\ \A h \in Handlers : \A g \in doomed[h] :
       (hpc[g] = "killed" /\ image[g] # "preview") \/ Cardinality(Later(g)) >= Keep
  /\ \A g \in Handlers : image[g] = "preview" /\ preview[g] = "gone" => Cardinality(Later(g)) >= Keep

ArrivalsInv == TypeOK /\ Watching /\ Ordered /\ Placed /\ Pruned

-----------------------------------------------------------------------------
(* Arrivals: the order in which previews are complete *)

LEMMA FinishingIs ==
  ASSUME TypeOK
  PROVE  /\ Len(finishing) \in Nat /\ DOMAIN finishing = 1 .. Len(finishing)
         /\ \A i \in DOMAIN finishing : finishing[i] \in Handlers
  BY DEF TypeOK

LEMMA LaterFinite ==
  ASSUME NEW g
  PROVE  IsFiniteSet(Later(g)) /\ Cardinality(Later(g)) \in Nat
<1>1. Later(g) \subseteq Handlers
  BY DEF Later
<1> QED
  BY <1>1, ArrivalsAssumption, FS_Subset, FS_CardinalityType

\* A preview completed after g's stays so.
LEMMA LaterGrows ==
  ASSUME TypeOK, finishing' = finishing \/ (\E h \in Handlers : finishing' = Append(finishing, h)),
         \A f \in Handlers : image[f] = "preview" => image'[f] = "preview", NEW g
  PROVE  /\ Later(g) \subseteq Later(g)'
         /\ Cardinality(Later(g)) >= Keep => Cardinality(Later(g)') >= Keep
         /\ Completed(g) => Completed(g)'
<1>1. ASSUME NEW i \in DOMAIN finishing PROVE i \in DOMAIN finishing' /\ finishing'[i] = finishing[i]
  <2>1. CASE finishing' = finishing
    BY <2>1
  <2>2. ASSUME NEW h \in Handlers, finishing' = Append(finishing, h)
        PROVE  i \in DOMAIN finishing' /\ finishing'[i] = finishing[i]
    <3>1. finishing \in Seq(Handlers) /\ i \in 1 .. Len(finishing)
      BY DEF TypeOK
    <3> QED
      BY <2>2, <3>1, AppendProperties
  <2> QED
    BY <2>1, <2>2
<1>2. Later(g) \subseteq Later(g)'
  BY <1>1 DEF Later
<1>3. Completed(g) => Completed(g)'
  BY <1>1 DEF Completed
<1>4. Cardinality(Later(g)) >= Keep => Cardinality(Later(g)') >= Keep
  <2>1. Later(g)' \subseteq Handlers
    BY DEF Later
  <2>2. IsFiniteSet(Later(g)') /\ Cardinality(Later(g)') \in Nat
    BY <2>1, ArrivalsAssumption, FS_Subset, FS_CardinalityType
  <2>3. Cardinality(Later(g)) <= Cardinality(Later(g)')
    BY <1>2, <2>2, FS_Subset
  <2>4. Keep \in Nat /\ Cardinality(Later(g)) \in Nat
    BY ArrivalsAssumption, LaterFinite
  <2> QED
    BY <2>2, <2>3, <2>4
<1> QED
  BY <1>2, <1>3, <1>4

\* By their modification times, newer previews were complete later.
LEMMA NewerIsLater ==
  ASSUME TypeOK, Ordered, Placed, NEW g \in Finished
  PROVE  Newer(g) \subseteq Later(g)
<1> SUFFICES ASSUME NEW f \in Finished, mtime[f] > mtime[g] PROVE f \in Later(g)
  BY DEF Newer
<1>1. PICK i \in DOMAIN finishing : finishing[i] = g
  BY DEF Placed, Finished, Completed
<1>2. PICK j \in DOMAIN finishing : finishing[j] = f
  BY DEF Placed, Finished, Completed
<1>3. mtime[f] \in Nat /\ mtime[g] \in Nat /\ f \in Handlers
  BY DEF TypeOK, Finished
<1>4. i \in Nat /\ j \in Nat
  BY FinishingIs
<1>5. i # j
  BY <1>1, <1>2, <1>3
<1>6. ~ (j < i)
  <2> SUFFICES ASSUME j < i PROVE FALSE
    OBVIOUS
  <2>1. mtime[f] < mtime[g]
    BY <1>1, <1>2 DEF Ordered
  <2> QED
    BY <1>3, <2>1
<1> QED
  <2>1. image[f] = "preview"
    BY <1>3 DEF Placed, Finished
  <2> QED
    BY <1>1, <1>2, <1>3, <1>4, <1>5, <1>6, <2>1 DEF Later

LEMMA ChosenIsOld ==
  ASSUME TypeOK, Ordered, Placed, NEW g \in Finished, Cardinality(Newer(g)) >= Keep
  PROVE  Cardinality(Later(g)) >= Keep
<1>1. Newer(g) \subseteq Later(g) /\ IsFiniteSet(Later(g)) /\ Cardinality(Later(g)) \in Nat
  BY NewerIsLater, LaterFinite
<1>2. Cardinality(Newer(g)) <= Cardinality(Later(g)) /\ Cardinality(Newer(g)) \in Nat
  BY <1>1, FS_Subset, FS_CardinalityType
<1>3. Keep \in Nat
  BY ArrivalsAssumption
<1> QED
  BY <1>1, <1>2, <1>3

-----------------------------------------------------------------------------
(* Arrivals: every step keeps the types *)

LEMMA ArrivalsInit == Init => ArrivalsInv
<1> SUFFICES ASSUME Init PROVE ArrivalsInv
  OBVIOUS
<1>1. finishing \in Seq(Handlers) /\ found \in Seq(Names) /\ DOMAIN finishing = {}
  BY DEF Init
<1>2. TypeOK
  BY <1>1 DEF Init, TypeOK, HPcs
<1>3. Watching
  BY DEF Init, Watching, Ended, ClosingLosesNothing
<1>4. Ordered
  BY <1>1 DEF Ordered
<1>5. Placed
  BY DEF Init, Placed, Early
<1>6. Pruned
  BY DEF Init, Pruned
<1> QED
  BY <1>2, <1>3, <1>4, <1>5, <1>6 DEF ArrivalsInv

LEMMA GoneIs ==
  ASSUME TypeOK, Gone
  PROVE  /\ hpc' \in [Handlers -> HPcs]
         /\ \A h \in Handlers : hpc'[h] = IF unit[h] \/ Ended(h) THEN hpc[h] ELSE "killed"
  BY DEF TypeOK, Gone, HPcs

\* Where a handler's step leads.
LEMMA HandlerMoves ==
  ASSUME TypeOK, NEW h \in Handlers, HandlerStep(h)
  PROVE  /\ UNCHANGED <<watchVars, file, unit>> /\ ~ Ended(h)
         /\ \E p \in HPcs \ {"idle", "killed"} : hpc' = [hpc EXCEPT ![h] = p]
         /\ (hpc'[h] \in Early => hpc[h] \in Early)
<1>1. hpc \in [Handlers -> HPcs]
  BY DEF TypeOK
<1>2. CASE Copy(h)
  BY <1>1, <1>2 DEF Copy, Ended, HPcs, Early
<1>3. CASE Work(h)
  BY <1>1, <1>3 DEF Work, Ended, HPcs, Early, watchVars
<1>4. CASE Decode(h)
  BY <1>1, <1>4 DEF Decode, Ended, HPcs, Early, watchVars
<1>5. CASE Shrink(h)
  BY <1>1, <1>5 DEF Shrink, Ended, HPcs, Early, watchVars
<1>6. CASE Rename(h)
  BY <1>1, <1>6 DEF Rename, Ended, HPcs, Early, watchVars
<1>7. CASE PruneList(h)
  BY <1>1, <1>7 DEF PruneList, Ended, HPcs, Early, watchVars
<1>8. CASE PruneRemove(h)
  BY <1>1, <1>8 DEF PruneRemove, Ended, HPcs, Early, watchVars
<1>9. CASE Toast(h)
  BY <1>1, <1>9 DEF Toast, Ended, HPcs, Early, watchVars
<1> QED
  BY <1>2, <1>3, <1>4, <1>5, <1>6, <1>7, <1>8, <1>9
    DEF HandlerStep, PreviewStep

\* What a handler's step does to its image and to the previews.
LEMMA HandlerTypes ==
  ASSUME TypeOK, NEW h \in Handlers, HandlerStep(h)
  PROVE  /\ image' \in [Handlers -> {"none", "own", "preview"}]
         /\ preview' \in [Handlers -> {"none", "working", "finished", "gone"}]
         /\ mtime' \in [Handlers -> Nat] /\ clock' \in Nat
         /\ doomed' \in [Handlers -> SUBSET Handlers] /\ finishing' \in Seq(Handlers)
<1> USE DEF TypeOK
<1>2. CASE Copy(h)
  BY <1>2 DEF Copy, viewVars
<1>3. CASE Work(h)
  BY <1>3 DEF Work
<1>4. CASE Decode(h)
  <2>1. CASE Write(h) /\ UNCHANGED preview
    BY <1>4, <2>1 DEF Decode, Write
  <2>2. CASE preview' = [preview EXCEPT ![h] = "gone"] /\ UNCHANGED <<mtime, clock>>
    BY <1>4, <2>2 DEF Decode
  <2> QED
    BY <1>4, <2>1, <2>2 DEF Decode
<1>5. CASE Shrink(h)
  BY <1>5, AppendProperties DEF Shrink, Write
<1>6. CASE Rename(h)
  BY <1>6 DEF Rename
<1>7. CASE PruneList(h)
  <2>1. PICK left \in SUBSET {g \in Handlers : preview[g] = "working" /\ hpc[g] = "killed"} :
          doomed' = [doomed EXCEPT ![h] = left \cup {g \in Finished : Cardinality(Newer(g)) >= Keep}]
    BY <1>7 DEF PruneList
  <2>2. left \cup {g \in Finished : Cardinality(Newer(g)) >= Keep} \in SUBSET Handlers
    BY DEF Finished
  <2>3. doomed' \in [Handlers -> SUBSET Handlers]
    BY <2>1, <2>2
  <2> QED
    BY <1>7, <2>3 DEF PruneList
<1>8. CASE PruneRemove(h)
  BY <1>8 DEF PruneRemove
<1>9. CASE Toast(h)
  BY <1>9 DEF Toast, viewVars
<1> QED
  BY <1>2, <1>3, <1>4, <1>5, <1>6, <1>7, <1>8, <1>9
    DEF HandlerStep, PreviewStep

LEMMA TypesKept ==
  ASSUME TypeOK, Watching, [Next]_vars
  PROVE  TypeOK'
<1>1. CASE WatchRead
  <2>1. PICK r \in Records, dir \in Folders : read' = read \cup {r} /\ found' = Arrived(dir, r)
    BY <1>1 DEF WatchRead
  <2>2. found' \in Seq(Names) /\ read' \subseteq Records
    BY <2>1, ArrivedTyped DEF TypeOK
  <2> QED
    BY <1>1, <2>2 DEF WatchRead, TypeOK, procVars, viewVars
<1>2. CASE WatchSpawn
  <2>2. found # <<>> /\ found \in Seq(Names)
    BY <1>2 DEF WatchSpawn, Watching, TypeOK
  <2>3. Head(found) \in Names /\ Tail(found) \in Seq(Names)
    BY <2>2
  <2>4. /\ hpc' \in [Handlers -> HPcs] /\ file' \in [Handlers -> Names \cup {None}]
        /\ unit' \in [Handlers -> BOOLEAN]
    <3>1. CASE UNCHANGED <<hpc, file, unit>>
      BY <3>1 DEF TypeOK
    <3>2. ASSUME NEW h \in Handlers, NEW own \in BOOLEAN,
                 hpc' = [hpc EXCEPT ![h] = "clip"], file' = [file EXCEPT ![h] = Head(found)],
                 unit' = [unit EXCEPT ![h] = own]
          PROVE  /\ hpc' \in [Handlers -> HPcs] /\ file' \in [Handlers -> Names \cup {None}]
                 /\ unit' \in [Handlers -> BOOLEAN]
      BY <2>3, <3>2 DEF TypeOK, HPcs
    <3> QED
      BY <1>2, <3>1, <3>2 DEF WatchSpawn
  <2> QED
    BY <1>2, <2>3, <2>4 DEF WatchSpawn, TypeOK, viewVars
<1>3. CASE WatchWait
  BY <1>3 DEF WatchWait, TypeOK, procVars, viewVars
<1>4. CASE Gone /\ (closed' = TRUE \/ UNCHANGED closed)
  <2>1. hpc' \in [Handlers -> HPcs]
    BY <1>4, GoneIs
  <2>2. found' \in Seq(Names) /\ closed' \in BOOLEAN
    <3>1. found' = <<>> /\ <<>> \in Seq(Names)
      BY <1>4 DEF Gone
    <3>2. closed' \in BOOLEAN
      BY <1>4, Zenon DEF TypeOK
    <3> QED
      BY <3>1, <3>2
  <2>3. watch' \in {"read", "spawn", "wait", "off", "gone"}
    BY <1>4 DEF Gone
  <2> QED
    BY <1>4, <2>1, <2>2, <2>3 DEF Gone, TypeOK, viewVars
<1>5. ASSUME NEW h \in Handlers, HandlerStep(h) PROVE TypeOK'
  <2>1. PICK p \in HPcs : hpc' = [hpc EXCEPT ![h] = p]
    BY <1>5, HandlerMoves
  <2>2. hpc' \in [Handlers -> HPcs]
    BY <2>1 DEF TypeOK
  <2>3. UNCHANGED <<watchVars, file, unit>>
    BY <1>5, HandlerMoves
  <2> QED
    BY <1>5, <2>2, <2>3, HandlerTypes DEF TypeOK, watchVars
<1>6. CASE UNCHANGED vars
  BY <1>6 DEF vars, TypeOK, watchVars, procVars, viewVars
<1> QED
  BY <1>1, <1>2, <1>3, <1>4, <1>5, <1>6 DEF Next, WatchStep, WatchOff, WatchStopped, Quiet

-----------------------------------------------------------------------------
(* Arrivals: every step keeps the rest *)

LEMMA WatchingKept ==
  ASSUME TypeOK, Watching, [Next]_vars
  PROVE  Watching'
<1>0. hpc \in [Handlers -> HPcs] /\ unit \in [Handlers -> BOOLEAN] /\ closed \in BOOLEAN
  BY DEF TypeOK
<1>1. CASE WatchRead
  BY <1>1 DEF WatchRead, Watching, ClosingLosesNothing, procVars, Ended
<1>2. CASE WatchSpawn
  <2>1. hpc' = hpc \/ \E h \in Handlers : hpc' = [hpc EXCEPT ![h] = "clip"]
    BY <1>2 DEF WatchSpawn
  <2>2. \A g \in Handlers : hpc'[g] # "killed"
    BY <1>0, <1>2, <2>1 DEF WatchSpawn, Watching
  <2>3. ~ closed'
    BY <1>2 DEF WatchSpawn, Watching
  <2>4. watch' # "off" /\ (watch' = "spawn" => found' # <<>>)
    BY <1>2 DEF WatchSpawn
  <2> QED
    BY <2>2, <2>3, <2>4 DEF Watching, ClosingLosesNothing
<1>3. CASE WatchWait
  BY <1>3 DEF WatchWait, Watching, ClosingLosesNothing, procVars, Ended
<1>4. CASE WatchOff
  <2>1. Gone /\ watch' = "gone"
    BY <1>4 DEF WatchOff, Gone
  <2>2. \A h \in Handlers : hpc'[h] # "killed"
    BY <1>4, <2>1, GoneIs DEF WatchOff, Watching
  <2> QED
    BY <2>1, <2>2 DEF Watching, ClosingLosesNothing
<1>5. CASE WatchStopped
  <2>1. watch' = "gone" /\ ~ closed'
    BY <1>5 DEF WatchStopped, Gone, Watching
  <2> QED
    BY <2>1 DEF Watching, ClosingLosesNothing
<1>6. ASSUME NEW h \in Handlers, HandlerStep(h) PROVE Watching'
  <2>1. UNCHANGED <<watchVars, unit>> /\ ~ Ended(h)
    BY <1>6, HandlerMoves
  <2>2. PICK p \in HPcs \ {"idle", "killed"} : hpc' = [hpc EXCEPT ![h] = p]
    BY <1>6, HandlerMoves
  <2>3. \A g \in Handlers : /\ hpc[g] # "killed" => hpc'[g] # "killed"
                            /\ unit[g] \/ Ended(g) => unit'[g] \/ Ended(g)'
    BY <1>0, <2>1, <2>2 DEF Ended
  <2> QED
    BY <2>1, <2>3 DEF Watching, ClosingLosesNothing, watchVars
<1>7. CASE UNCHANGED vars
  BY <1>7 DEF vars, Watching, ClosingLosesNothing, watchVars, procVars, Ended
<1> QED
  BY <1>1, <1>2, <1>3, <1>4, <1>5, <1>6, <1>7 DEF Next, WatchStep, Quiet

LEMMA StillOrdered ==
  ASSUME TypeOK, Ordered, UNCHANGED <<mtime, clock, finishing>>,
         \A g \in Handlers : hpc'[g] \in Early => hpc[g] \in Early
  PROVE  Ordered'
  BY FinishingIs DEF Ordered

\* A write to a preview that is not complete.
LEMMA WriteOrdered ==
  ASSUME TypeOK, Ordered, NEW h \in Handlers, hpc[h] \in Early, Write(h), UNCHANGED finishing,
         \A g \in Handlers : hpc'[g] \in Early => hpc[g] \in Early
  PROVE  Ordered'
<1>1. mtime \in [Handlers -> Nat] /\ clock \in Nat
  BY DEF TypeOK
<1>2. ASSUME NEW i \in DOMAIN finishing
      PROVE  /\ finishing[i] \in Handlers /\ mtime[finishing[i]] \in Nat
             /\ mtime'[finishing[i]] = mtime[finishing[i]]
  <2>1. finishing[i] # h /\ finishing[i] \in Handlers
    BY FinishingIs DEF Ordered
  <2> QED
    BY <1>1, <2>1 DEF Write
<1>3. \A i, j \in DOMAIN finishing : i < j => mtime'[finishing[i]] < mtime'[finishing[j]]
  BY <1>2 DEF Ordered
<1>4. ASSUME NEW i \in DOMAIN finishing
      PROVE  mtime'[finishing[i]] < clock' /\ hpc'[finishing[i]] \notin Early
  <2>1. mtime[finishing[i]] < clock /\ hpc[finishing[i]] \notin Early
    BY DEF Ordered
  <2> QED
    BY <1>1, <1>2, <2>1 DEF Write
<1> QED
  BY <1>3, <1>4 DEF Ordered

\* And the last write, which makes it complete: the newest of all.
LEMMA ShrinkOrdered ==
  ASSUME TypeOK, Ordered, NEW h \in Handlers, Shrink(h)
  PROVE  Ordered'
<1>1. /\ mtime \in [Handlers -> Nat] /\ clock \in Nat /\ hpc \in [Handlers -> HPcs]
      /\ hpc[h] = "shrink" /\ hpc' = [hpc EXCEPT ![h] = "rename"]
      /\ mtime' = [mtime EXCEPT ![h] = clock] /\ clock' = clock + 1
  BY DEF TypeOK, Shrink, Write
<1> DEFINE n == Len(finishing)
<1>2. n \in Nat /\ DOMAIN finishing = 1 .. n /\ \A i \in 1 .. n : finishing[i] \in Handlers
  BY FinishingIs
<1>3. /\ finishing' \in Seq(Handlers) /\ Len(finishing') = n + 1
      /\ \A i \in 1 .. n : finishing'[i] = finishing[i]
      /\ finishing'[n + 1] = h
  BY AppendProperties DEF Shrink, TypeOK
<1>4. DOMAIN finishing' = 1 .. n + 1
  BY <1>3
<1> HIDE DEF n
<1>5. ASSUME NEW i \in 1 .. n
      PROVE  /\ mtime'[finishing'[i]] = mtime[finishing[i]] /\ mtime[finishing[i]] < clock
             /\ mtime[finishing[i]] \in Nat
             /\ hpc'[finishing'[i]] = hpc[finishing[i]] /\ hpc[finishing[i]] \notin Early
  <2>1. mtime[finishing[i]] < clock /\ hpc[finishing[i]] \notin Early
    BY <1>2 DEF Ordered
  <2>2. finishing[i] # h /\ finishing[i] \in Handlers /\ finishing'[i] = finishing[i]
    BY <1>1, <1>2, <1>3, <2>1 DEF Early
  <2> QED
    BY <1>1, <2>1, <2>2
<1>6. mtime'[finishing'[n + 1]] = clock /\ hpc'[finishing'[n + 1]] = "rename"
  BY <1>1, <1>3
<1>7. ASSUME NEW i \in 1 .. n + 1, NEW j \in 1 .. n + 1, i < j
      PROVE  mtime'[finishing'[i]] < mtime'[finishing'[j]]
  <2>1. i \in 1 .. n
    BY <1>2, <1>7
  <2>2. CASE j = n + 1
    BY <1>5, <1>6, <2>1, <2>2
  <2>3. CASE j # n + 1
    <3>1. j \in 1 .. n
      BY <1>2, <2>3
    <3>2. mtime[finishing[i]] < mtime[finishing[j]]
      BY <1>2, <1>7, <2>1, <3>1 DEF Ordered
    <3> QED
      BY <1>5, <2>1, <3>1, <3>2
  <2> QED
    BY <2>2, <2>3
<1>8. ASSUME NEW i \in 1 .. n + 1
      PROVE  mtime'[finishing'[i]] < clock' /\ hpc'[finishing'[i]] \notin Early
  <2>1. CASE i = n + 1
    BY <1>1, <1>6, <2>1 DEF Early
  <2>2. CASE i # n + 1
    <3>1. i \in 1 .. n
      BY <1>2, <2>2
    <3> QED
      BY <1>1, <1>5, <3>1
  <2> QED
    BY <2>1, <2>2
<1> QED
  BY <1>4, <1>7, <1>8 DEF Ordered

\* A step that is not a handler's leaves every preview alone.
LEMMA OthersLeave ==
  ASSUME TypeOK, WatchRead \/ WatchStep \/ WatchStopped \/ UNCHANGED vars
  PROVE  /\ UNCHANGED <<image, viewVars>>
         /\ \A g \in Handlers : \/ hpc'[g] = hpc[g]
                                \/ hpc[g] = "idle" /\ hpc'[g] = "clip"
                                \/ hpc'[g] = "killed"
<1>0. hpc \in [Handlers -> HPcs]
  BY DEF TypeOK
<1>1. CASE WatchRead
  BY <1>1 DEF WatchRead, procVars
<1>2. CASE WatchSpawn
  BY <1>0, <1>2 DEF WatchSpawn
<1>3. CASE WatchWait
  BY <1>3 DEF WatchWait, procVars
<1>4. CASE Gone
  BY <1>4, GoneIs DEF Gone
<1>5. CASE UNCHANGED vars
  BY <1>5 DEF vars, procVars
<1> QED
  BY <1>1, <1>2, <1>3, <1>4, <1>5 DEF WatchStep, WatchOff, WatchStopped

\* A handler's step changes its own place and image, and nothing of the other handlers'.
LEMMA HandlerOwn ==
  ASSUME TypeOK, NEW h \in Handlers, HandlerStep(h), NEW g \in Handlers, g # h
  PROVE  hpc'[g] = hpc[g] /\ image'[g] = image[g] /\ (preview'[g] = preview[g] \/ PruneRemove(h))
<1>0. hpc \in [Handlers -> HPcs]
  BY DEF TypeOK
<1>1. hpc'[g] = hpc[g]
  BY <1>0, HandlerMoves
<1>2. image'[g] = image[g]
  BY DEF HandlerStep, PreviewStep, Copy, Work, Decode, Shrink, Rename, PruneList, PruneRemove, Toast, TypeOK
<1>3. preview'[g] = preview[g] \/ PruneRemove(h)
  BY DEF HandlerStep, PreviewStep, Copy, Work, Decode, Shrink, Rename, PruneList, Toast, TypeOK, viewVars
<1> QED
  BY <1>1, <1>2, <1>3

LEMMA OrderedKept ==
  ASSUME TypeOK, Ordered, [Next]_vars
  PROVE  Ordered'
<1>1. CASE WatchRead \/ WatchStep \/ WatchStopped \/ UNCHANGED vars
  BY <1>1, OthersLeave, StillOrdered DEF viewVars, Early
<1>2. ASSUME NEW h \in Handlers, HandlerStep(h) PROVE Ordered'
  <2>1. \A g \in Handlers : hpc'[g] \in Early => hpc[g] \in Early
    BY <1>2, HandlerMoves, HandlerOwn
  <2>2. CASE UNCHANGED <<mtime, clock, finishing>>
    BY <2>1, <2>2, StillOrdered
  <2>3. CASE Decode(h) /\ Write(h)
    BY <2>1, <2>3, WriteOrdered DEF Decode, Early
  <2>4. CASE Shrink(h)
    BY <2>4, ShrinkOrdered
  <2>5. UNCHANGED <<mtime, clock, finishing>> \/ (Decode(h) /\ Write(h)) \/ Shrink(h)
    BY <1>2 DEF HandlerStep, PreviewStep, Copy, Work, Decode, Rename, PruneList, PruneRemove, Toast, viewVars
  <2> QED
    BY <2>2, <2>3, <2>4, <2>5
<1> QED
  BY <1>1, <1>2 DEF Next, Quiet

LEMMA FinishingGrows ==
  ASSUME TypeOK, [Next]_vars
  PROVE  finishing' = finishing \/ \E h \in Handlers : finishing' = Append(finishing, h)
<1>1. CASE WatchRead \/ WatchStep \/ WatchStopped \/ UNCHANGED vars
  BY <1>1, OthersLeave DEF viewVars
<1>2. ASSUME NEW h \in Handlers, HandlerStep(h)
      PROVE  finishing' = finishing \/ finishing' = Append(finishing, h)
  BY <1>2 DEF HandlerStep, PreviewStep, Copy, Work, Decode, Shrink, Rename, PruneList, PruneRemove, Toast, viewVars
<1> QED
  BY <1>1, <1>2 DEF Next, Quiet

\* A notification that has a preview keeps it for its image.
LEMMA ImagesKept ==
  ASSUME TypeOK, Placed, [Next]_vars, NEW f \in Handlers, image[f] = "preview"
  PROVE  image'[f] = "preview"
<1>1. CASE WatchRead \/ WatchStep \/ WatchStopped \/ UNCHANGED vars
  BY <1>1, OthersLeave
<1>2. ASSUME NEW h \in Handlers, HandlerStep(h) PROVE image'[f] = "preview"
  <2>1. CASE f # h
    BY <1>2, <2>1, HandlerOwn
  <2>2. CASE f = h
    <3>1. hpc[h] # "clip" /\ hpc[h] # "rename"
      BY <2>2 DEF Placed, Early
    <3> QED
      BY <1>2, <2>2, <3>1 DEF HandlerStep, PreviewStep, Copy, Work, Decode, Shrink, Rename,
        PruneList, PruneRemove, Toast
  <2> QED
    BY <2>1, <2>2
<1> QED
  BY <1>1, <1>2 DEF Next, Quiet

\* Placed, of one handler.
PlacedAt(h) ==
  /\ hpc[h] \in Early \cup {"rename"} => image[h] # "preview" /\ preview[h] # "finished"
  /\ hpc[h] = "rename" \/ preview[h] = "finished" => Completed(h)
  /\ preview[h] = "finished" => image[h] = "preview"
  /\ image[h] = "preview" => Completed(h) /\ preview[h] \in {"finished", "gone"}

LEMMA PlacedKept ==
  ASSUME TypeOK, Placed, [Next]_vars
  PROVE  Placed'
<1>0. \A g \in Handlers : PlacedAt(g) /\ (Completed(g) => Completed(g)')
  BY FinishingGrows, ImagesKept, LaterGrows DEF Placed, PlacedAt
<1>1. CASE WatchRead \/ WatchStep \/ WatchStopped \/ UNCHANGED vars
  <2>1. ASSUME NEW g \in Handlers PROVE PlacedAt(g)'
    <3>1. image' = image /\ preview' = preview
      BY <1>1, OthersLeave DEF viewVars
    <3>2. hpc'[g] = hpc[g] \/ (hpc[g] = "idle" /\ hpc'[g] = "clip") \/ hpc'[g] = "killed"
      BY <1>1, OthersLeave
    <3> QED
      BY <1>0, <3>1, <3>2 DEF PlacedAt, Early
  <2> QED
    BY <2>1 DEF Placed, PlacedAt
<1>2. ASSUME NEW h \in Handlers, HandlerStep(h) PROVE Placed'
  <2>1. ASSUME NEW g \in Handlers, g # h PROVE PlacedAt(g)'
    <3>1. hpc'[g] = hpc[g] /\ image'[g] = image[g]
      BY <1>2, <2>1, HandlerOwn
    <3>2. preview'[g] = preview[g] \/ preview'[g] = "gone"
      BY <1>2, <2>1, HandlerOwn DEF PruneRemove
    <3> QED
      BY <1>0, <3>1, <3>2 DEF PlacedAt
  <2>2. PlacedAt(h)'
    <3>1. hpc \in [Handlers -> HPcs] /\ image \in [Handlers -> {"none", "own", "preview"}]
          /\ preview \in [Handlers -> {"none", "working", "finished", "gone"}]
      BY DEF TypeOK
    <3>2. CASE Copy(h)
      BY <1>0, <3>1, <3>2 DEF Copy, PlacedAt, Early, viewVars
    <3>3. CASE Work(h)
      BY <1>0, <3>1, <3>3 DEF Work, PlacedAt, Early
    <3>4. CASE Decode(h)
      BY <1>0, <3>1, <3>4 DEF Decode, PlacedAt, Early
    <3>5. CASE Shrink(h)
      <4>1. Completed(h)'
        <5>1. finishing' \in Seq(Handlers) /\ finishing'[Len(finishing) + 1] = h
              /\ Len(finishing') = Len(finishing) + 1 /\ Len(finishing) \in Nat
          BY <3>5, AppendProperties DEF Shrink, TypeOK
        <5>2. Len(finishing) + 1 \in DOMAIN finishing'
          BY <5>1
        <5> QED
          BY <5>1, <5>2 DEF Completed
      <4> QED
        BY <1>0, <3>1, <3>5, <4>1 DEF Shrink, PlacedAt, Early
    <3>6. CASE Rename(h)
      <4>1. Completed(h)' /\ hpc[h] = "rename" /\ image[h] # "preview"
        BY <1>0, <3>6 DEF Rename, PlacedAt
      <4>2. \/ preview'[h] = "finished" /\ image'[h] = "preview" /\ hpc'[h] = "list"
            \/ preview'[h] = "gone" /\ image'[h] = image[h] /\ hpc'[h] = "toast"
        BY <3>1, <3>6 DEF Rename
      <4> QED
        BY <4>1, <4>2 DEF PlacedAt, Early
    <3>7. CASE PruneList(h)
      BY <1>0, <3>1, <3>7 DEF PruneList, PlacedAt, Early
    <3>8. CASE PruneRemove(h)
      <4>1. preview'[h] = preview[h] \/ preview'[h] = "gone"
        BY <3>8 DEF PruneRemove
      <4> QED
        BY <1>0, <3>1, <3>8, <4>1 DEF PruneRemove, PlacedAt, Early
    <3>9. CASE Toast(h)
      BY <1>0, <3>1, <3>9 DEF Toast, PlacedAt, Early, viewVars
    <3> QED
      BY <1>2, <3>2, <3>3, <3>4, <3>5, <3>6, <3>7, <3>8, <3>9
        DEF HandlerStep, PreviewStep
  <2> QED
    BY <2>1, <2>2 DEF Placed, PlacedAt
<1> QED
  BY <1>1, <1>2 DEF Next, Quiet

Old(g) == Cardinality(Later(g)) >= Keep
Left(g) == hpc[g] = "killed" /\ image[g] # "preview"

\* What a prune may remove may still be removed when it does so.
LEMMA StaysOld ==
  ASSUME TypeOK, Placed, [Next]_vars, NEW g \in Handlers
  PROVE  (Left(g) => Left(g)') /\ (Old(g) => Old(g)')
<1>1. Old(g) => Old(g)'
  BY FinishingGrows, ImagesKept, LaterGrows DEF Old
<1>2. CASE WatchRead \/ WatchStep \/ WatchStopped \/ UNCHANGED vars
  BY <1>1, <1>2, OthersLeave DEF Left
<1>3. ASSUME NEW h \in Handlers, HandlerStep(h), Left(g) PROVE Left(g)'
  <2>1. g # h
    BY <1>3, HandlerMoves DEF Left, Ended
  <2> QED
    BY <1>3, <2>1, HandlerOwn DEF Left
<1> QED
  BY <1>1, <1>2, <1>3 DEF Next, Quiet

LEMMA PrunedKept ==
  ASSUME ArrivalsInv, [Next]_vars
  PROVE  Pruned'
<1> USE DEF ArrivalsInv
<1>1. ASSUME NEW h \in Handlers, NEW g \in doomed'[h] PROVE g \in Handlers /\ (Left(g)' \/ Old(g)')
  <2>1. g \in doomed[h] \/ (PruneList(h) /\ g \in doomed'[h])
    <3>1. CASE WatchRead \/ WatchStep \/ WatchStopped \/ UNCHANGED vars
      BY <1>1, <3>1, OthersLeave DEF viewVars
    <3>2. ASSUME NEW f \in Handlers, HandlerStep(f) PROVE g \in doomed[h] \/ PruneList(h)
      <4>1. CASE PruneList(f)
        BY <1>1, <4>1 DEF PruneList, TypeOK
      <4>2. CASE PruneRemove(f)
        BY <1>1, <4>2 DEF PruneRemove, TypeOK
      <4>3. CASE UNCHANGED doomed
        BY <1>1, <4>3
      <4> QED
        BY <3>2, <4>1, <4>2, <4>3 DEF HandlerStep, PreviewStep, Copy, Work, Decode, Shrink, Rename, Toast, viewVars
    <3> QED
      BY <1>1, <3>1, <3>2 DEF Next, Quiet
  <2>2. CASE g \in doomed[h]
    <3>1. g \in Handlers /\ (Left(g) \/ Old(g))
      BY <2>2 DEF Pruned, TypeOK, Left, Old
    <3> QED
      BY <3>1, StaysOld
  <2>3. CASE PruneList(h)
    <3>1. PICK left \in SUBSET {f \in Handlers : preview[f] = "working" /\ hpc[f] = "killed"} :
            doomed' = [doomed EXCEPT ![h] = left \cup {f \in Finished : Cardinality(Newer(f)) >= Keep}]
      BY <2>3 DEF PruneList
    <3>2. g \in left \/ (g \in Finished /\ Cardinality(Newer(g)) >= Keep)
      BY <1>1, <3>1 DEF TypeOK
    <3>3. CASE g \in left
      <4>1. g \in Handlers /\ preview[g] = "working" /\ hpc[g] = "killed"
        BY <3>1, <3>3
      <4>2. Left(g)
        BY <4>1 DEF Placed, Left
      <4> QED
        BY <4>1, <4>2, StaysOld
    <3>4. CASE g \in Finished /\ Cardinality(Newer(g)) >= Keep
      <4>1. Old(g) /\ g \in Handlers
        BY <3>4, ChosenIsOld DEF Old, Finished
      <4> QED
        BY <4>1, StaysOld
    <3> QED
      BY <3>2, <3>3, <3>4
  <2> QED
    BY <2>1, <2>2, <2>3
<1>2. ASSUME NEW g \in Handlers, image'[g] = "preview", preview'[g] = "gone" PROVE Old(g)'
  <2>1. CASE image[g] = "preview" /\ preview[g] = "gone"
    BY <2>1, StaysOld DEF Pruned, Old
  <2>2. CASE ~ (image[g] = "preview" /\ preview[g] = "gone")
    <3>1. ~ (WatchRead \/ WatchStep \/ WatchStopped \/ UNCHANGED vars)
      BY <1>2, <2>2, OthersLeave DEF viewVars
    <3>2. PICK h \in Handlers : HandlerStep(h)
      BY <3>1 DEF Next, Quiet
    <3>3. CASE PruneRemove(h)
      <4>1. image[g] = "preview" /\ g \in doomed[h]
        BY <1>2, <2>2, <3>3 DEF PruneRemove
      <4>2. Old(g)
        BY <4>1 DEF Pruned, Old
      <4> QED
        BY <4>2, StaysOld
    <3>4. CASE ~ PruneRemove(h)
      <4>1. g = h
        BY <1>2, <2>2, <3>2, <3>4, HandlerOwn
      <4>2. Copy(h) \/ Rename(h) \/ Decode(h) \/ Work(h)
        BY <1>2, <2>2, <3>2, <3>4, <4>1 DEF HandlerStep, PreviewStep, Shrink, PruneList, Toast, viewVars
      <4>3. hpc[h] \in Early \cup {"rename"} /\ image[h] # "preview"
        <5>1. hpc[h] \in Early \cup {"rename"}
          BY <4>2 DEF Copy, Rename, Decode, Work, Early
        <5> QED
          BY <5>1 DEF Placed
      <4>4. Rename(h)
        BY <1>2, <4>1, <4>2, <4>3 DEF Copy, Decode, Work, TypeOK
      <4>5. preview'[h] = "finished" \/ image'[h] = image[h]
        BY <4>4 DEF Rename, TypeOK
      <4> QED
        BY <1>2, <4>1, <4>3, <4>5
    <3> QED
      BY <3>3, <3>4
  <2> QED
    BY <2>1, <2>2
<1> QED
  BY <1>1, <1>2 DEF Pruned, Left, Old

LEMMA ArrivalsKept == ArrivalsInv /\ [Next]_vars => ArrivalsInv'
  BY TypesKept, WatchingKept, OrderedKept, PlacedKept, PrunedKept DEF ArrivalsInv

LEMMA ArrivalsAlways == Spec => []ArrivalsInv
  BY ArrivalsInit, ArrivalsKept, PTL DEF Spec

-----------------------------------------------------------------------------
(* Arrivals: its theorems *)

\* Every variable has its type, and what the watcher finds are names.
THEOREM ArrivalsTyping == Spec => []TypeOK
<1>1. ArrivalsInv => TypeOK
  BY DEF ArrivalsInv
<1> QED
  BY <1>1, ArrivalsAlways, PTL

\* The watcher finds the files that the receiver stored, each once and in order, where no
\* other file's name is the beginning of one of theirs, up to a comma.
THEOREM ArrivalsFoundAlways == Spec => []ArrivalsFound
<1>1. ArrivalsFound
  <2>1. ASSUME NEW names \in BoundedSeq(Names, 3) PROVE names \in Seq(Names)
    <3>1. PICK m \in 0 .. 3 : names \in [1 .. m -> Names]
      BY DEF BoundedSeq, SeqOf
    <3> QED
      BY <3>1, SeqDef
  <2> QED
    BY <2>1, ResolveFinds DEF ArrivalsFound
<1> QED
  BY <1>1, PTL

\* A notification's preview is pruned only when Keep were completed after it.
THEOREM BurstKeepsPreviewsAlways == Spec => []BurstKeepsPreviews
<1>1. ArrivalsInv => BurstKeepsPreviews
  BY DEF ArrivalsInv, Pruned, BurstKeepsPreviews
<1> QED
  BY <1>1, ArrivalsAlways, PTL

\* The off that a file's arrival brings about kills no handler.
THEOREM ClosingLosesNothingAlways == Spec => []ClosingLosesNothing
<1>1. ArrivalsInv => ClosingLosesNothing
  BY DEF ArrivalsInv, Watching
<1> QED
  BY <1>1, ArrivalsAlways, PTL

-----------------------------------------------------------------------------
(* Advertiser: what Slots puts into the advert *)

\* The identifiers beyond those with a slot of their own: emails, then phones.
SpareEmails(e) == [k \in 1..(IF e > 3 THEN e - 3 ELSE 0) |-> <<"email", k + 3>>]
SparePhones(p) == [k \in 1..(IF p > 1 THEN p - 1 ELSE 0) |-> <<"phone", k + 1>>]
Spare(e, p) == SpareEmails(e) \o SparePhones(p)

LEMMA SpareFacts ==
  ASSUME NEW e \in Nat, NEW p \in Nat
  PROVE  LET m == IF e > 3 THEN e - 3 ELSE 0
             n == IF p > 1 THEN p - 1 ELSE 0
         IN  /\ Spare(e, p) \in Seq({"email", "phone"} \X Nat)
             /\ Len(Spare(e, p)) = m + n
             /\ \A k \in 1..(m + n) :
                  Spare(e, p)[k] = IF k <= m THEN <<"email", k + 3>> ELSE <<"phone", k - m + 1>>
<1> DEFINE m == IF e > 3 THEN e - 3 ELSE 0
           n == IF p > 1 THEN p - 1 ELSE 0
           S == {"email", "phone"} \X Nat
<1>1. m \in Nat /\ n \in Nat
  OBVIOUS
<1>2. /\ SpareEmails(e) = [k \in 1..m |-> <<"email", k + 3>>]
      /\ SparePhones(p) = [k \in 1..n |-> <<"phone", k + 1>>]
  BY DEF SpareEmails, SparePhones
<1> HIDE DEF m, n
<1>3. SpareEmails(e) \in [1..m -> S] /\ SparePhones(p) \in [1..n -> S]
  BY <1>1, <1>2
<1>4. /\ SpareEmails(e) \in Seq(S) /\ Len(SpareEmails(e)) = m
      /\ SparePhones(p) \in Seq(S) /\ Len(SparePhones(p)) = n
  <2>1. SpareEmails(e) \in Seq(S) /\ SparePhones(p) \in Seq(S)
    BY <1>1, <1>3, SeqDef
  <2> QED
    BY <1>1, <1>3, <2>1, LenProperties
<1> HIDE DEF S
<1>5. /\ Spare(e, p) \in Seq(S) /\ Len(Spare(e, p)) = m + n
      /\ \A k \in 1..(m + n) :
           Spare(e, p)[k] = IF k <= m THEN SpareEmails(e)[k] ELSE SparePhones(p)[k - m]
  BY <1>4, ConcatProperties DEF Spare
<1>6. ASSUME NEW k \in 1..(m + n)
      PROVE  Spare(e, p)[k] = IF k <= m THEN <<"email", k + 3>> ELSE <<"phone", k - m + 1>>
  <2>1. CASE k <= m
    <3>1. SpareEmails(e)[k] = <<"email", k + 3>>
      BY <1>1, <1>2, <2>1
    <3> QED
      BY <1>5, <2>1, <3>1
  <2>2. CASE k > m
    <3>1. k - m \in 1..n
      BY <1>1, <2>2
    <3>2. SparePhones(p)[k - m] = <<"phone", k - m + 1>>
      BY <1>2, <3>1
    <3>3. Spare(e, p)[k] = SparePhones(p)[k - m]
      BY <1>1, <1>5, <2>2
    <3> QED
      BY <1>1, <2>2, <3>2, <3>3
  <2> QED
    BY <1>1, <2>1, <2>2
<1> QED
  BY <1>5, <1>6 DEF m, n, S

\* How many of the first k are in S.
LEMMA CountUp ==
  ASSUME NEW S, NEW k \in Nat
  PROVE  /\ IsFiniteSet({j \in 1..k : j \in S}) /\ Cardinality({j \in 1..k : j \in S}) \in Nat
         /\ Cardinality({j \in 1..(k + 1) : j \in S})
              = Cardinality({j \in 1..k : j \in S}) + IF k + 1 \in S THEN 1 ELSE 0
<1>1. IsFiniteSet({j \in 1..k : j \in S}) /\ Cardinality({j \in 1..k : j \in S}) \in Nat
  <2>1. IsFiniteSet(1..k) /\ {j \in 1..k : j \in S} \in SUBSET (1..k)
    BY FS_Interval
  <2>2. IsFiniteSet({j \in 1..k : j \in S})
    BY <2>1, FS_Subset
  <2> QED
    BY <2>2, FS_CardinalityType
<1>2. CASE k + 1 \in S
  <2>1. {j \in 1..(k + 1) : j \in S} = {j \in 1..k : j \in S} \cup {k + 1}
    BY <1>2
  <2>2. k + 1 \notin {j \in 1..k : j \in S}
    OBVIOUS
  <2>3. Cardinality({j \in 1..k : j \in S} \cup {k + 1}) = Cardinality({j \in 1..k : j \in S}) + 1
    BY <1>1, <2>2, FS_AddElement
  <2> QED
    BY <1>1, <1>2, <2>1, <2>3
<1>3. CASE k + 1 \notin S
  <2>1. {j \in 1..(k + 1) : j \in S} = {j \in 1..k : j \in S}
    BY <1>3
  <2> QED
    BY <1>1, <1>3, <2>1
<1> QED
  BY <1>1, <1>2, <1>3

LEMMA CountFour ==
  ASSUME NEW S
  PROVE  LET in(k) == IF k \in S THEN 1 ELSE 0
             c(k) == Cardinality({j \in 1..k : j \in S})
         IN  /\ c(1) = in(1)
             /\ c(2) = in(1) + in(2)
             /\ c(3) = in(1) + in(2) + in(3)
             /\ c(4) = in(1) + in(2) + in(3) + in(4)
<1> DEFINE in(k) == IF k \in S THEN 1 ELSE 0
           c(k) == Cardinality({j \in 1..k : j \in S})
<1>1. c(0) = 0
  <2>1. {j \in 1..0 : j \in S} = {}
    OBVIOUS
  <2> QED
    BY <2>1, FS_EmptySet
<1>2. \A k \in Nat : c(k) \in Nat /\ c(k + 1) = c(k) + in(k + 1)
  BY CountUp
<1>3. \A k \in Nat : in(k) \in Nat
  OBVIOUS
<1> HIDE DEF c, in
<1>4. c(1) = in(1)
  <2>1. c(0 + 1) = c(0) + in(0 + 1)
    BY <1>2
  <2> QED
    BY <1>1, <1>3, <2>1
<1>5. c(2) = c(1) + in(2)
  <2>1. c(1 + 1) = c(1) + in(1 + 1)
    BY <1>2
  <2> QED
    BY <2>1
<1>6. c(3) = c(2) + in(3)
  <2>1. c(2 + 1) = c(2) + in(2 + 1)
    BY <1>2
  <2> QED
    BY <2>1
<1>7. c(4) = c(3) + in(4)
  <2>1. c(3 + 1) = c(3) + in(3 + 1)
    BY <1>2
  <2> QED
    BY <2>1
<1>8. c(1) = in(1) /\ c(2) = in(1) + in(2) /\ c(3) = in(1) + in(2) + in(3)
      /\ c(4) = in(1) + in(2) + in(3) + in(4)
  BY <1>4, <1>5, <1>6, <1>7
<1> QED
  BY <1>8 DEF c, in

\* The spare identifier that a slot without one of its own takes, if there is one.
Filler(e, p, n) == IF n <= Len(Spare(e, p)) THEN Spare(e, p)[n] ELSE Zero

\* The four slots, each with the number of empty ones up to it.
LEMMA SlotValues ==
  ASSUME NEW e \in Nat, NEW p \in Nat
  PROVE  LET e1 == IF e >= 1 THEN 0 ELSE 1
             p1 == IF p >= 1 THEN 0 ELSE 1
             e2 == IF e >= 2 THEN 0 ELSE 1
             e3 == IF e >= 3 THEN 0 ELSE 1
         IN  /\ Slots(e, p) = [k \in 1..4 |-> Slots(e, p)[k]]
             /\ Slots(e, p)[1] = IF e >= 1 THEN <<"email", 1>> ELSE Filler(e, p, e1)
             /\ Slots(e, p)[2] = IF p >= 1 THEN <<"phone", 1>> ELSE Filler(e, p, e1 + p1)
             /\ Slots(e, p)[3] = IF e >= 2 THEN <<"email", 2>> ELSE Filler(e, p, e1 + p1 + e2)
             /\ Slots(e, p)[4] = IF e >= 3 THEN <<"email", 3>> ELSE Filler(e, p, e1 + p1 + e2 + e3)
<1> DEFINE slots == <<<<"email", 1>>, <<"phone", 1>>, <<"email", 2>>, <<"email", 3>>>>
           has(i) == i[2] <= IF i[1] = "email" THEN e ELSE p
           empty(k) == Cardinality({j \in 1..k : ~has(slots[j])})
           S == {j \in 1..4 : ~has(slots[j])}
<1>1. Slots(e, p) = [k \in 1..4 |-> CASE has(slots[k]) -> slots[k]
                         [] ~has(slots[k]) /\ empty(k) <= Len(Spare(e, p)) -> Spare(e, p)[empty(k)]
                         [] OTHER -> Zero]
  BY DEF Slots, Spare, SpareEmails, SparePhones
<1>2. /\ slots[1] = <<"email", 1>> /\ slots[2] = <<"phone", 1>>
      /\ slots[3] = <<"email", 2>> /\ slots[4] = <<"email", 3>>
  OBVIOUS
<1>3. /\ has(slots[1]) <=> e >= 1
      /\ has(slots[2]) <=> p >= 1
      /\ has(slots[3]) <=> e >= 2
      /\ has(slots[4]) <=> e >= 3
  BY <1>2
<1>4. \A k \in 1..4 : {j \in 1..k : ~has(slots[j])} = {j \in 1..k : j \in S}
  OBVIOUS
<1>5. /\ 1 \in S <=> ~(e >= 1)
      /\ 2 \in S <=> ~(p >= 1)
      /\ 3 \in S <=> ~(e >= 2)
      /\ 4 \in S <=> ~(e >= 3)
  BY <1>3
<1> HIDE DEF S, has, slots
<1>6. \A k \in 1..4 : empty(k) = Cardinality({j \in 1..k : j \in S})
  BY <1>4
<1> HIDE DEF empty
<1> DEFINE e1 == IF e >= 1 THEN 0 ELSE 1
           p1 == IF p >= 1 THEN 0 ELSE 1
           e2 == IF e >= 2 THEN 0 ELSE 1
           e3 == IF e >= 3 THEN 0 ELSE 1
<1>7. /\ empty(1) = e1 /\ empty(2) = e1 + p1
      /\ empty(3) = e1 + p1 + e2 /\ empty(4) = e1 + p1 + e2 + e3
  <2>1. /\ empty(1) = Cardinality({j \in 1..1 : j \in S})
        /\ empty(2) = Cardinality({j \in 1..2 : j \in S})
        /\ empty(3) = Cardinality({j \in 1..3 : j \in S})
        /\ empty(4) = Cardinality({j \in 1..4 : j \in S})
    BY <1>6
  <2>2. /\ Cardinality({j \in 1..1 : j \in S}) = e1
        /\ Cardinality({j \in 1..2 : j \in S}) = e1 + p1
        /\ Cardinality({j \in 1..3 : j \in S}) = e1 + p1 + e2
        /\ Cardinality({j \in 1..4 : j \in S}) = e1 + p1 + e2 + e3
    BY <1>5, CountFour
  <2> QED
    BY <2>1, <2>2
<1>8. \A k \in 1..4 : Slots(e, p)[k] = IF has(slots[k]) THEN slots[k] ELSE Filler(e, p, empty(k))
  BY <1>1 DEF Filler
<1> HIDE DEF e1, p1, e2, e3
<1>9. /\ Slots(e, p)[1] = IF e >= 1 THEN <<"email", 1>> ELSE Filler(e, p, e1)
      /\ Slots(e, p)[2] = IF p >= 1 THEN <<"phone", 1>> ELSE Filler(e, p, e1 + p1)
      /\ Slots(e, p)[3] = IF e >= 2 THEN <<"email", 2>> ELSE Filler(e, p, e1 + p1 + e2)
      /\ Slots(e, p)[4] = IF e >= 3 THEN <<"email", 3>> ELSE Filler(e, p, e1 + p1 + e2 + e3)
  BY <1>2, <1>3, <1>7, <1>8
<1> QED
  BY <1>1, <1>9 DEF e1, p1, e2, e3

\* The identifiers a set of hashes tells of.
ToldBy(h) == {h[k] : k \in 1..4} \ {Zero}

LEMMA SizeTwo == \A a, b : a # b => IsFiniteSet({a, b}) /\ Cardinality({a, b}) = 2
<1> TAKE a, b
<1> HAVE a # b
<1>1. {a, b} = {a} \cup {b} /\ b \notin {a}
  OBVIOUS
<1>2. IsFiniteSet({a}) /\ Cardinality({a}) = 1
  BY FS_Singleton
<1> QED
  BY <1>1, <1>2, FS_AddElement

LEMMA SizeThree ==
  \A a, b, c : a # b /\ a # c /\ b # c => IsFiniteSet({a, b, c}) /\ Cardinality({a, b, c}) = 3
<1> TAKE a, b, c
<1> HAVE a # b /\ a # c /\ b # c
<1>1. {a, b, c} = {a, b} \cup {c} /\ c \notin {a, b}
  OBVIOUS
<1>2. IsFiniteSet({a, b}) /\ Cardinality({a, b}) = 2
  BY SizeTwo
<1> QED
  BY <1>1, <1>2, FS_AddElement

\* "spare identifiers of either kind fill an empty slot rather than a zero the
\* receiver cannot match": every identifier has a slot of its own, up to four.
LEMMA SlotsTellAll ==
  ASSUME NEW e \in Nat, NEW p \in Nat, e + p > 0
  PROVE  /\ Slots(e, p) \in [1..4 -> ({"email", "phone"} \X Nat) \cup {Zero}]
         /\ Cardinality(ToldBy(Slots(e, p))) = Least2(4, e + p)
<1> DEFINE h == Slots(e, p)
<1> DEFINE Em(k) == <<"email", k>>
           Ph(k) == <<"phone", k>>
<1>0. h = [k \in 1..4 |-> h[k]] /\ ToldBy(h) = {h[1], h[2], h[3], h[4]} \ {Zero}
  BY SlotValues DEF ToldBy
<1>d1. \A j \in Nat : Em(j) # Zero /\ Ph(j) # Zero
  BY DEF Zero
<1>d2. \A j, k \in Nat : Em(j) # Ph(k)
  OBVIOUS
<1>d3. \A j, k \in Nat : j # k => Em(j) # Em(k)
  OBVIOUS
<1>d4. \A j, k \in Nat : j # k => Ph(j) # Ph(k)
  OBVIOUS
<1> DEFINE T == {"email", "phone"} \X Nat
<1>t. \A k \in Nat : Em(k) \in T /\ Ph(k) \in T
  OBVIOUS
<1> HIDE DEF Em, Ph, T
<1>s. LET m == IF e > 3 THEN e - 3 ELSE 0
          n == IF p > 1 THEN p - 1 ELSE 0
      IN  /\ Len(Spare(e, p)) = m + n
          /\ \A k \in 1..(m + n) : Spare(e, p)[k] = IF k <= m THEN Em(k + 3) ELSE Ph(k - m + 1)
  BY SpareFacts DEF Em, Ph
<1>f. \A k \in Nat \ {0} :
        Filler(e, p, k) = IF e > 3 /\ k <= e - 3 THEN Em(k + 3)
                          ELSE IF e > 3 /\ p > 1 /\ k <= e - 3 + p - 1 THEN Ph(k - (e - 3) + 1)
                          ELSE IF e <= 3 /\ p > 1 /\ k <= p - 1 THEN Ph(k + 1)
                          ELSE Zero
  BY <1>s DEF Filler
<1>1. CASE e = 0
  <2>1. h[1] = Filler(e, p, 1) /\ h[2] = Ph(1) /\ h[3] = Filler(e, p, 2) /\ h[4] = Filler(e, p, 3)
    BY <1>1, SlotValues DEF Ph
  <2>2. CASE p = 1
    <3>1. h[1] = Zero /\ h[2] = Ph(1) /\ h[3] = Zero /\ h[4] = Zero
      BY <1>1, <1>f, <2>1, <2>2
    <3>2. Ph(1) # Zero
      BY <1>d1, <1>d2, <1>d3, <1>d4
    <3>3. ToldBy(h) = {Ph(1)}
      BY <1>0, <3>1, <3>2
    <3>4. Cardinality({Ph(1)}) = 1
      BY <3>2, FS_Singleton
    <3>5. \A k \in 1..4 : h[k] \in T \cup {Zero}
      BY <1>t, <3>1
    <3>6. Least2(4, e + p) = 1
      BY <1>1, <2>2 DEF Least2
    <3> QED
      BY <1>0, <3>3, <3>4, <3>5, <3>6 DEF T
  <2>3. CASE p = 2
    <3>1. h[1] = Ph(2) /\ h[2] = Ph(1) /\ h[3] = Zero /\ h[4] = Zero
      BY <1>1, <1>f, <2>1, <2>3
    <3>2. Ph(2) # Ph(1) /\ Ph(2) # Zero /\ Ph(1) # Zero
      BY <1>d1, <1>d2, <1>d3, <1>d4
    <3>3. ToldBy(h) = {Ph(2), Ph(1)}
      BY <1>0, <3>1, <3>2
    <3>4. Cardinality({Ph(2), Ph(1)}) = 2
      BY <3>2, SizeTwo
    <3>5. \A k \in 1..4 : h[k] \in T \cup {Zero}
      BY <1>t, <3>1
    <3>6. Least2(4, e + p) = 2
      BY <1>1, <2>3 DEF Least2
    <3> QED
      BY <1>0, <3>3, <3>4, <3>5, <3>6 DEF T
  <2>4. CASE p = 3
    <3>1. h[1] = Ph(2) /\ h[2] = Ph(1) /\ h[3] = Ph(3) /\ h[4] = Zero
      BY <1>1, <1>f, <2>1, <2>4
    <3>2. /\ Ph(2) # Ph(1) /\ Ph(2) # Ph(3) /\ Ph(2) # Zero /\ Ph(1) # Ph(3) /\ Ph(1) # Zero
          /\ Ph(3) # Zero
      BY <1>d1, <1>d2, <1>d3, <1>d4
    <3>3. ToldBy(h) = {Ph(2), Ph(1), Ph(3)}
      BY <1>0, <3>1, <3>2
    <3>4. Cardinality({Ph(2), Ph(1), Ph(3)}) = 3
      BY <3>2, SizeThree
    <3>5. \A k \in 1..4 : h[k] \in T \cup {Zero}
      BY <1>t, <3>1
    <3>6. Least2(4, e + p) = 3
      BY <1>1, <2>4 DEF Least2
    <3> QED
      BY <1>0, <3>3, <3>4, <3>5, <3>6 DEF T
  <2>5. CASE p > 3
    <3>1. h[1] = Ph(2) /\ h[2] = Ph(1) /\ h[3] = Ph(3) /\ h[4] = Ph(4)
      BY <1>1, <1>f, <2>1, <2>5
    <3>2. /\ Ph(2) # Ph(1) /\ Ph(2) # Ph(3) /\ Ph(2) # Ph(4) /\ Ph(2) # Zero /\ Ph(1) # Ph(3)
          /\ Ph(1) # Ph(4) /\ Ph(1) # Zero /\ Ph(3) # Ph(4) /\ Ph(3) # Zero /\ Ph(4) # Zero
      BY <1>d1, <1>d2, <1>d3, <1>d4
    <3>3. ToldBy(h) = {Ph(2), Ph(1), Ph(3), Ph(4)}
      BY <1>0, <3>1, <3>2
    <3>4. Cardinality({Ph(2), Ph(1), Ph(3), Ph(4)}) = 4
      <4>1. IsFiniteSet({Ph(2), Ph(1), Ph(3)}) /\ Cardinality({Ph(2), Ph(1), Ph(3)}) = 3
        BY <3>2, SizeThree
      <4>2. {Ph(2), Ph(1), Ph(3), Ph(4)} = {Ph(2), Ph(1), Ph(3)} \cup {Ph(4)} /\ Ph(4) \notin {Ph(2), Ph(1), Ph(3)}
        BY <3>2
      <4>3. Cardinality({Ph(2), Ph(1), Ph(3)} \cup {Ph(4)}) = Cardinality({Ph(2), Ph(1), Ph(3)}) + 1
        BY <4>1, <4>2, FS_AddElement
      <4> QED
        BY <4>1, <4>2, <4>3
    <3>5. \A k \in 1..4 : h[k] \in T \cup {Zero}
      BY <1>t, <3>1
    <3>6. Least2(4, e + p) = 4
      BY <1>1, <2>5 DEF Least2
    <3> QED
      BY <1>0, <3>3, <3>4, <3>5, <3>6 DEF T
  <2> QED
    BY <1>1, <2>2, <2>3, <2>4, <2>5
<1>2. CASE e = 1
  <2>1. /\ h[1] = Em(1)
        /\ p = 0 => h[2] = Filler(e, p, 1) /\ h[3] = Filler(e, p, 2) /\ h[4] = Filler(e, p, 3)
        /\ p > 0 => h[2] = Ph(1) /\ h[3] = Filler(e, p, 1) /\ h[4] = Filler(e, p, 2)
    <3>1. h[1] = Em(1)
      BY <1>2, SlotValues DEF Em
    <3>2. CASE p = 0
      BY <1>2, <3>1, <3>2, SlotValues
    <3>3. CASE p > 0
      <4>1. h[2] = Ph(1)
        BY <1>2, <3>3, SlotValues DEF Ph
      <4>2. h[3] = Filler(e, p, 1) /\ h[4] = Filler(e, p, 2)
        BY <1>2, <3>3, SlotValues
      <4> QED
        BY <3>1, <3>3, <4>1, <4>2
    <3> QED
      BY <3>1, <3>2, <3>3
  <2>2. CASE p = 0
    <3>1. h[1] = Em(1) /\ h[2] = Zero /\ h[3] = Zero /\ h[4] = Zero
      BY <1>2, <1>f, <2>1, <2>2
    <3>2. Em(1) # Zero
      BY <1>d1, <1>d2, <1>d3, <1>d4
    <3>3. ToldBy(h) = {Em(1)}
      BY <1>0, <3>1, <3>2
    <3>4. Cardinality({Em(1)}) = 1
      BY <3>2, FS_Singleton
    <3>5. \A k \in 1..4 : h[k] \in T \cup {Zero}
      BY <1>t, <3>1
    <3>6. Least2(4, e + p) = 1
      BY <1>2, <2>2 DEF Least2
    <3> QED
      BY <1>0, <3>3, <3>4, <3>5, <3>6 DEF T
  <2>3. CASE p = 1
    <3>1. h[1] = Em(1) /\ h[2] = Ph(1) /\ h[3] = Zero /\ h[4] = Zero
      BY <1>2, <1>f, <2>1, <2>3
    <3>2. Em(1) # Ph(1) /\ Em(1) # Zero /\ Ph(1) # Zero
      BY <1>d1, <1>d2, <1>d3, <1>d4
    <3>3. ToldBy(h) = {Em(1), Ph(1)}
      BY <1>0, <3>1, <3>2
    <3>4. Cardinality({Em(1), Ph(1)}) = 2
      BY <3>2, SizeTwo
    <3>5. \A k \in 1..4 : h[k] \in T \cup {Zero}
      BY <1>t, <3>1
    <3>6. Least2(4, e + p) = 2
      BY <1>2, <2>3 DEF Least2
    <3> QED
      BY <1>0, <3>3, <3>4, <3>5, <3>6 DEF T
  <2>4. CASE p = 2
    <3>1. h[1] = Em(1) /\ h[2] = Ph(1) /\ h[3] = Ph(2) /\ h[4] = Zero
      BY <1>2, <1>f, <2>1, <2>4
    <3>2. /\ Em(1) # Ph(1) /\ Em(1) # Ph(2) /\ Em(1) # Zero /\ Ph(1) # Ph(2) /\ Ph(1) # Zero
          /\ Ph(2) # Zero
      BY <1>d1, <1>d2, <1>d3, <1>d4
    <3>3. ToldBy(h) = {Em(1), Ph(1), Ph(2)}
      BY <1>0, <3>1, <3>2
    <3>4. Cardinality({Em(1), Ph(1), Ph(2)}) = 3
      BY <3>2, SizeThree
    <3>5. \A k \in 1..4 : h[k] \in T \cup {Zero}
      BY <1>t, <3>1
    <3>6. Least2(4, e + p) = 3
      BY <1>2, <2>4 DEF Least2
    <3> QED
      BY <1>0, <3>3, <3>4, <3>5, <3>6 DEF T
  <2>5. CASE p > 2
    <3>1. h[1] = Em(1) /\ h[2] = Ph(1) /\ h[3] = Ph(2) /\ h[4] = Ph(3)
      BY <1>2, <1>f, <2>1, <2>5
    <3>2. /\ Em(1) # Ph(1) /\ Em(1) # Ph(2) /\ Em(1) # Ph(3) /\ Em(1) # Zero /\ Ph(1) # Ph(2)
          /\ Ph(1) # Ph(3) /\ Ph(1) # Zero /\ Ph(2) # Ph(3) /\ Ph(2) # Zero /\ Ph(3) # Zero
      BY <1>d1, <1>d2, <1>d3, <1>d4
    <3>3. ToldBy(h) = {Em(1), Ph(1), Ph(2), Ph(3)}
      BY <1>0, <3>1, <3>2
    <3>4. Cardinality({Em(1), Ph(1), Ph(2), Ph(3)}) = 4
      <4>1. IsFiniteSet({Em(1), Ph(1), Ph(2)}) /\ Cardinality({Em(1), Ph(1), Ph(2)}) = 3
        BY <3>2, SizeThree
      <4>2. {Em(1), Ph(1), Ph(2), Ph(3)} = {Em(1), Ph(1), Ph(2)} \cup {Ph(3)} /\ Ph(3) \notin {Em(1), Ph(1), Ph(2)}
        BY <3>2
      <4>3. Cardinality({Em(1), Ph(1), Ph(2)} \cup {Ph(3)}) = Cardinality({Em(1), Ph(1), Ph(2)}) + 1
        BY <4>1, <4>2, FS_AddElement
      <4> QED
        BY <4>1, <4>2, <4>3
    <3>5. \A k \in 1..4 : h[k] \in T \cup {Zero}
      BY <1>t, <3>1
    <3>6. Least2(4, e + p) = 4
      BY <1>2, <2>5 DEF Least2
    <3> QED
      BY <1>0, <3>3, <3>4, <3>5, <3>6 DEF T
  <2> QED
    BY <1>2, <2>2, <2>3, <2>4, <2>5
<1>3. CASE e = 2
  <2>1. /\ h[1] = Em(1) /\ h[3] = Em(2)
        /\ p = 0 => h[2] = Filler(e, p, 1) /\ h[4] = Filler(e, p, 2)
        /\ p > 0 => h[2] = Ph(1) /\ h[4] = Filler(e, p, 1)
    BY <1>3, SlotValues DEF Em, Ph
  <2>2. CASE p = 0
    <3>1. h[1] = Em(1) /\ h[2] = Zero /\ h[3] = Em(2) /\ h[4] = Zero
      BY <1>3, <1>f, <2>1, <2>2
    <3>2. Em(1) # Em(2) /\ Em(1) # Zero /\ Em(2) # Zero
      BY <1>d1, <1>d2, <1>d3, <1>d4
    <3>3. ToldBy(h) = {Em(1), Em(2)}
      BY <1>0, <3>1, <3>2
    <3>4. Cardinality({Em(1), Em(2)}) = 2
      BY <3>2, SizeTwo
    <3>5. \A k \in 1..4 : h[k] \in T \cup {Zero}
      BY <1>t, <3>1
    <3>6. Least2(4, e + p) = 2
      BY <1>3, <2>2 DEF Least2
    <3> QED
      BY <1>0, <3>3, <3>4, <3>5, <3>6 DEF T
  <2>3. CASE p = 1
    <3>1. h[1] = Em(1) /\ h[2] = Ph(1) /\ h[3] = Em(2) /\ h[4] = Zero
      BY <1>3, <1>f, <2>1, <2>3
    <3>2. /\ Em(1) # Ph(1) /\ Em(1) # Em(2) /\ Em(1) # Zero /\ Ph(1) # Em(2) /\ Ph(1) # Zero
          /\ Em(2) # Zero
      BY <1>d1, <1>d2, <1>d3, <1>d4
    <3>3. ToldBy(h) = {Em(1), Ph(1), Em(2)}
      BY <1>0, <3>1, <3>2
    <3>4. Cardinality({Em(1), Ph(1), Em(2)}) = 3
      BY <3>2, SizeThree
    <3>5. \A k \in 1..4 : h[k] \in T \cup {Zero}
      BY <1>t, <3>1
    <3>6. Least2(4, e + p) = 3
      BY <1>3, <2>3 DEF Least2
    <3> QED
      BY <1>0, <3>3, <3>4, <3>5, <3>6 DEF T
  <2>4. CASE p > 1
    <3>1. h[1] = Em(1) /\ h[2] = Ph(1) /\ h[3] = Em(2) /\ h[4] = Ph(2)
      BY <1>3, <1>f, <2>1, <2>4
    <3>2. /\ Em(1) # Ph(1) /\ Em(1) # Em(2) /\ Em(1) # Ph(2) /\ Em(1) # Zero /\ Ph(1) # Em(2)
          /\ Ph(1) # Ph(2) /\ Ph(1) # Zero /\ Em(2) # Ph(2) /\ Em(2) # Zero /\ Ph(2) # Zero
      BY <1>d1, <1>d2, <1>d3, <1>d4
    <3>3. ToldBy(h) = {Em(1), Ph(1), Em(2), Ph(2)}
      BY <1>0, <3>1, <3>2
    <3>4. Cardinality({Em(1), Ph(1), Em(2), Ph(2)}) = 4
      <4>1. IsFiniteSet({Em(1), Ph(1), Em(2)}) /\ Cardinality({Em(1), Ph(1), Em(2)}) = 3
        BY <3>2, SizeThree
      <4>2. {Em(1), Ph(1), Em(2), Ph(2)} = {Em(1), Ph(1), Em(2)} \cup {Ph(2)} /\ Ph(2) \notin {Em(1), Ph(1), Em(2)}
        BY <3>2
      <4>3. Cardinality({Em(1), Ph(1), Em(2)} \cup {Ph(2)}) = Cardinality({Em(1), Ph(1), Em(2)}) + 1
        BY <4>1, <4>2, FS_AddElement
      <4> QED
        BY <4>1, <4>2, <4>3
    <3>5. \A k \in 1..4 : h[k] \in T \cup {Zero}
      BY <1>t, <3>1
    <3>6. Least2(4, e + p) = 4
      BY <1>3, <2>4 DEF Least2
    <3> QED
      BY <1>0, <3>3, <3>4, <3>5, <3>6 DEF T
  <2> QED
    BY <1>3, <2>2, <2>3, <2>4
<1>4. CASE e > 2
  <2>1. /\ h[1] = Em(1) /\ h[3] = Em(2) /\ h[4] = Em(3)
        /\ p = 0 => h[2] = Filler(e, p, 1)
        /\ p > 0 => h[2] = Ph(1)
    BY <1>4, SlotValues DEF Em, Ph
  <2>2. CASE p = 0 /\ e = 3
    <3>1. h[1] = Em(1) /\ h[2] = Zero /\ h[3] = Em(2) /\ h[4] = Em(3)
      BY <1>4, <1>f, <2>1, <2>2
    <3>2. /\ Em(1) # Em(2) /\ Em(1) # Em(3) /\ Em(1) # Zero /\ Em(2) # Em(3) /\ Em(2) # Zero
          /\ Em(3) # Zero
      BY <1>d1, <1>d2, <1>d3, <1>d4
    <3>3. ToldBy(h) = {Em(1), Em(2), Em(3)}
      BY <1>0, <3>1, <3>2
    <3>4. Cardinality({Em(1), Em(2), Em(3)}) = 3
      BY <3>2, SizeThree
    <3>5. \A k \in 1..4 : h[k] \in T \cup {Zero}
      BY <1>t, <3>1
    <3>6. Least2(4, e + p) = 3
      BY <1>4, <2>2 DEF Least2
    <3> QED
      BY <1>0, <3>3, <3>4, <3>5, <3>6 DEF T
  <2>3. CASE p = 0 /\ e > 3
    <3>1. h[1] = Em(1) /\ h[2] = Em(4) /\ h[3] = Em(2) /\ h[4] = Em(3)
      BY <1>4, <1>f, <2>1, <2>3
    <3>2. /\ Em(1) # Em(4) /\ Em(1) # Em(2) /\ Em(1) # Em(3) /\ Em(1) # Zero /\ Em(4) # Em(2)
          /\ Em(4) # Em(3) /\ Em(4) # Zero /\ Em(2) # Em(3) /\ Em(2) # Zero /\ Em(3) # Zero
      BY <1>d1, <1>d2, <1>d3, <1>d4
    <3>3. ToldBy(h) = {Em(1), Em(4), Em(2), Em(3)}
      BY <1>0, <3>1, <3>2
    <3>4. Cardinality({Em(1), Em(4), Em(2), Em(3)}) = 4
      <4>1. IsFiniteSet({Em(1), Em(4), Em(2)}) /\ Cardinality({Em(1), Em(4), Em(2)}) = 3
        BY <3>2, SizeThree
      <4>2. {Em(1), Em(4), Em(2), Em(3)} = {Em(1), Em(4), Em(2)} \cup {Em(3)} /\ Em(3) \notin {Em(1), Em(4), Em(2)}
        BY <3>2
      <4>3. Cardinality({Em(1), Em(4), Em(2)} \cup {Em(3)}) = Cardinality({Em(1), Em(4), Em(2)}) + 1
        BY <4>1, <4>2, FS_AddElement
      <4> QED
        BY <4>1, <4>2, <4>3
    <3>5. \A k \in 1..4 : h[k] \in T \cup {Zero}
      BY <1>t, <3>1
    <3>6. Least2(4, e + p) = 4
      BY <1>4, <2>3 DEF Least2
    <3> QED
      BY <1>0, <3>3, <3>4, <3>5, <3>6 DEF T
  <2>4. CASE p > 0
    <3>1. h[1] = Em(1) /\ h[2] = Ph(1) /\ h[3] = Em(2) /\ h[4] = Em(3)
      BY <1>4, <1>f, <2>1, <2>4
    <3>2. /\ Em(1) # Ph(1) /\ Em(1) # Em(2) /\ Em(1) # Em(3) /\ Em(1) # Zero /\ Ph(1) # Em(2)
          /\ Ph(1) # Em(3) /\ Ph(1) # Zero /\ Em(2) # Em(3) /\ Em(2) # Zero /\ Em(3) # Zero
      BY <1>d1, <1>d2, <1>d3, <1>d4
    <3>3. ToldBy(h) = {Em(1), Ph(1), Em(2), Em(3)}
      BY <1>0, <3>1, <3>2
    <3>4. Cardinality({Em(1), Ph(1), Em(2), Em(3)}) = 4
      <4>1. IsFiniteSet({Em(1), Ph(1), Em(2)}) /\ Cardinality({Em(1), Ph(1), Em(2)}) = 3
        BY <3>2, SizeThree
      <4>2. {Em(1), Ph(1), Em(2), Em(3)} = {Em(1), Ph(1), Em(2)} \cup {Em(3)} /\ Em(3) \notin {Em(1), Ph(1), Em(2)}
        BY <3>2
      <4>3. Cardinality({Em(1), Ph(1), Em(2)} \cup {Em(3)}) = Cardinality({Em(1), Ph(1), Em(2)}) + 1
        BY <4>1, <4>2, FS_AddElement
      <4> QED
        BY <4>1, <4>2, <4>3
    <3>5. \A k \in 1..4 : h[k] \in T \cup {Zero}
      BY <1>t, <3>1
    <3>6. Least2(4, e + p) = 4
      BY <1>4, <2>4 DEF Least2
    <3> QED
      BY <1>0, <3>3, <3>4, <3>5, <3>6 DEF T
  <2> QED
    BY <1>4, <2>2, <2>3, <2>4
<1> QED
  BY <1>1, <1>2, <1>3, <1>4

-----------------------------------------------------------------------------
(* Advertiser: the wake advert *)

Ids == ({"email", "phone", "given"} \X Nat) \cup {Zero}
Hashed == [1..4 -> Ids] \cup {<<>>}
Causes == ({"user", "missing", "good"} \X Nat) \cup {"none"}
BlePcs == {"prepare", "signals", "adapter", "serve", "first", "wait", "unregister", "over"}

BleTypes ==
  /\ ble \in [pc : BlePcs, hashes : Hashed, cause : Causes,
             events : Seq({"registered", "failed", "signal"}), said : SUBSET {"START", "STOP"}]
  /\ register \in {"none", "call", "answer", "done", "gone"}
  /\ bluez \in BOOLEAN /\ aired \in BOOLEAN

\* The hashes h are those that their cause c gives.
Honest(h, c) ==
  /\ c \in {"user", "missing", "good"} \X Nat
  /\ c[1] = "missing" => Cardinality(ToldBy(h)) = 0
  /\ c[1] = "good" => c[2] > 0 /\ Cardinality(ToldBy(h)) = Least2(4, c[2])

\* BlueZ transmits only what was asked of it, and forgets it with the process; the
\* hashes are chosen before that and stay.  START waits for an answer BlueZ gave
\* when it had the advert.
BleInv ==
  /\ BleTypes
  /\ ble.pc \notin {"prepare", "over"} => Honest(ble.hashes, ble.cause)
  /\ register \in {"call", "answer", "done"} =>
       Honest(ble.hashes, ble.cause) /\ ble.pc \in {"first", "wait", "unregister", "over"}
  /\ register = "none" => ble.pc \in {"prepare", "signals", "adapter", "serve", "over"}
  /\ register = "gone" => ble.pc = "over"
  /\ bluez => register \in {"answer", "done"}
  /\ register = "answer" => aired
  /\ \A k \in 1..Len(ble.events) : ble.events[k] = "registered" => aired
  /\ "START" \in ble.said => aired
  /\ ble.pc \in {"wait", "unregister"} => "START" \in ble.said
  /\ "STOP" \in ble.said => "START" \in ble.said

\* prepare: whatever the options and the record, the hashes are honest or there are
\* none.
LEMMA PreparedHonest ==
  ASSUME NEW opt \in {"absent", "empty", "value"}, NEW value \in Values, NEW record \in BOOLEAN,
         NEW kind \in {"error", "missing", "bad", "good"}, NEW e \in Nat, NEW p \in Nat,
         Hashes(opt, value, record, kind, e, p) # <<>>
  PROVE  LET from == Source(opt, record, kind)
             c == <<from, IF from = "good" THEN e + p ELSE 0>>
         IN  /\ Hashes(opt, value, record, kind, e, p) \in Hashed
             /\ c \in Causes
             /\ Honest(Hashes(opt, value, record, kind, e, p), c)
<1> DEFINE h == Hashes(opt, value, record, kind, e, p)
           from == Source(opt, record, kind)
           c == <<from, IF from = "good" THEN e + p ELSE 0>>
<1>z. Zeros \in Hashed /\ Cardinality(ToldBy(Zeros)) = 0
  <2>1. ToldBy(Zeros) = {}
    BY DEF ToldBy, Zeros
  <2>2. Zeros \in Hashed
    BY DEF Hashed, Ids, Zeros
  <2> QED
    BY <2>1, <2>2, FS_EmptySet
<1>1. CASE from = "user"
  <2>1. h \in {Zeros, value}
    BY <1>1 DEF Hashes, Source
  <2>2. value \in Hashed
    <3>1. [k \in 1..4 |-> <<"given", k>>] \in Hashed
      BY DEF Hashed, Ids
    <3>2. <<>> \in Hashed
      BY DEF Hashed
    <3> QED
      BY <1>z, <3>1, <3>2 DEF Values
  <2> QED
    BY <1>1, <1>z, <2>1, <2>2 DEF Honest, Causes
<1>2. CASE from # "user"
  <2>1. from = kind /\ (opt = "absent" \/ (opt = "empty" /\ record)) /\ opt # "value"
    BY <1>2 DEF Source
  <2>2. CASE kind = "missing"
    <3>1. h = Zeros
      BY <2>1, <2>2 DEF Hashes
    <3>2. c = <<"missing", 0>>
      BY <2>1, <2>2
    <3> HIDE DEF h, c
    <3> QED
      BY <1>z, <3>1, <3>2 DEF Honest, Causes, h, c
  <2>3. CASE kind = "good"
    <3>1. h = FromRecord(e, p)
      BY <2>1, <2>3 DEF Hashes
    <3>2. h = Slots(e, p) /\ e + p > 0
      BY <3>1 DEF FromRecord
    <3>3. /\ Slots(e, p) \in [1..4 -> ({"email", "phone"} \X Nat) \cup {Zero}]
          /\ Cardinality(ToldBy(Slots(e, p))) = Least2(4, e + p)
      BY <3>2, SlotsTellAll
    <3>4. ({"email", "phone"} \X Nat) \cup {Zero} \subseteq Ids
      BY DEF Ids
    <3>5. h \in Hashed /\ Cardinality(ToldBy(h)) = Least2(4, e + p)
      BY <3>2, <3>3, <3>4 DEF Hashed
    <3>6. c = <<"good", e + p>>
      BY <2>1, <2>3
    <3> HIDE DEF h, c
    <3> QED
      BY <3>2, <3>5, <3>6 DEF Honest, Causes, h, c
  <2>4. CASE kind \in {"error", "bad"}
    BY <2>1, <2>4 DEF Hashes
  <2> QED
    BY <2>2, <2>3, <2>4
<1> QED
  BY <1>1, <1>2

LEMMA BleInit == AdvInit => BleInv
<1> SUFFICES ASSUME AdvInit PROVE BleInv
  OBVIOUS
<1>1. /\ ble = [pc |-> "prepare", hashes |-> <<>>, cause |-> "none", events |-> <<>>, said |-> {}]
      /\ register = "none" /\ bluez = FALSE /\ aired = FALSE
  BY DEF AdvInit
<1>2. <<>> \in Seq({"registered", "failed", "signal"})
  BY EmptySeq
<1>3. BleTypes
  BY <1>1, <1>2 DEF BleTypes, BlePcs, Hashed, Causes
<1> QED
  BY <1>1, <1>3 DEF BleInv

\* BleExit: nothing is left waiting.
LEMMA ExitKeeps ==
  ASSUME BleInv, BleExit, UNCHANGED <<bluez, aired>>, register' = register, register # "gone"
  PROVE  BleInv'
<1>1. <<>> \in Seq({"registered", "failed", "signal"}) /\ Len(<<>>) = 0
  BY EmptySeq
<1>2. /\ ble' \in [pc : BlePcs, hashes : Hashed, cause : Causes,
                  events : Seq({"registered", "failed", "signal"}), said : SUBSET {"START", "STOP"}]
      /\ ble'.pc = "over" /\ ble'.hashes = ble.hashes /\ ble'.cause = ble.cause
      /\ ble'.events = <<>> /\ ble'.said = ble.said
  BY <1>1 DEF BleInv, BleTypes, BleExit, BlePcs
<1> QED
  BY <1>1, <1>2 DEF BleInv, BleTypes

\* The process reads the first of its events.
LEMMA PopKeeps ==
  ASSUME BleInv, ble.events # <<>>
  PROVE  /\ Tail(ble.events) \in Seq({"registered", "failed", "signal"})
         /\ \A k \in 1..Len(Tail(ble.events)) : Tail(ble.events)[k] = "registered" => aired
         /\ Head1 = "registered" => aired
<1> DEFINE S == {"registered", "failed", "signal"}
<1>1. ble.events \in Seq(S)
  BY DEF BleInv, BleTypes
<1> HIDE DEF S
<1>2. /\ Tail(ble.events) \in Seq(S) /\ Len(Tail(ble.events)) = Len(ble.events) - 1
      /\ \A k \in 1..Len(Tail(ble.events)) : Tail(ble.events)[k] = ble.events[k + 1]
      /\ Len(ble.events) \in Nat \ {0}
  BY <1>1, HeadTailProperties, EmptySeq
<1>3. \A k \in 1..Len(ble.events) : ble.events[k] = "registered" => aired
  BY DEF BleInv
<1>4. \A k \in 1..Len(Tail(ble.events)) : k + 1 \in 1..Len(ble.events)
  BY <1>2
<1>5. Head1 = ble.events[1] /\ 1 \in 1..Len(ble.events)
  BY <1>1, <1>2 DEF Head1
<1> QED
  BY <1>2, <1>3, <1>4, <1>5 DEF S

\* An event comes.
LEMMA PushKeeps ==
  ASSUME BleInv, NEW x \in {"registered", "failed", "signal"}, x = "registered" => aired
  PROVE  /\ Append(ble.events, x) \in Seq({"registered", "failed", "signal"})
         /\ \A k \in 1..Len(Append(ble.events, x)) : Append(ble.events, x)[k] = "registered" => aired
<1> DEFINE S == {"registered", "failed", "signal"}
<1>1. ble.events \in Seq(S) /\ x \in S /\ Len(ble.events) \in Nat
  BY LenProperties DEF BleInv, BleTypes
<1>2. \A k \in 1..Len(ble.events) : ble.events[k] = "registered" => aired
  BY DEF BleInv
<1> HIDE DEF S
<1>3. /\ Append(ble.events, x) \in Seq(S) /\ Len(Append(ble.events, x)) = Len(ble.events) + 1
      /\ \A k \in 1..Len(ble.events) : Append(ble.events, x)[k] = ble.events[k]
      /\ Append(ble.events, x)[Len(ble.events) + 1] = x
  BY <1>1
<1>4. \A k \in 1..Len(ble.events) + 1 : k \in 1..Len(ble.events) \/ k = Len(ble.events) + 1
  BY <1>1
<1> QED
  BY <1>2, <1>3, <1>4 DEF S

LEMMA PrepareKeeps ==
  ASSUME BleInv, Prepare
  PROVE  BleInv'
<1>1. /\ ble.pc = "prepare" /\ register \notin {"call", "answer", "done", "gone"}
      /\ UNCHANGED <<register, bluez, aired>>
  BY DEF Prepare, BleInv
<1>2. CASE BleExit
  BY <1>1, <1>2, ExitKeeps
<1>3. CASE ~BleExit
  <2>p. PICK opt \in {"absent", "empty", "value"}, value \in Values, record \in BOOLEAN,
             kind \in {"error", "missing", "bad", "good"}, e \in 0..Emails, p \in 0..Phones :
          LET h == Hashes(opt, value, record, kind, e, p)
              from == Source(opt, record, kind)
          IN  \/ BleExit
              \/ /\ h # <<>>
                 /\ ble' = [ble EXCEPT !.pc = "signals", !.hashes = h,
                              !.cause = <<from, IF from = "good" THEN e + p ELSE 0>>]
    BY Zenon DEF Prepare
  <2> DEFINE h == Hashes(opt, value, record, kind, e, p)
             from == Source(opt, record, kind)
             c == <<from, IF from = "good" THEN e + p ELSE 0>>
  <2>0. e \in Nat /\ p \in Nat
    BY AdvertiserAssumption
  <2>1. h \in Hashed /\ c \in Causes /\ Honest(h, c)
    BY <1>3, <2>p, <2>0, PreparedHonest
  <2>2. ble' = [ble EXCEPT !.pc = "signals", !.hashes = h, !.cause = c]
    BY <1>3, <2>p
  <2> HIDE DEF h, c
  <2>3. /\ ble' \in [pc : BlePcs, hashes : Hashed, cause : Causes,
                    events : Seq({"registered", "failed", "signal"}), said : SUBSET {"START", "STOP"}]
        /\ ble'.pc = "signals" /\ ble'.hashes = h /\ ble'.cause = c
        /\ ble'.events = ble.events /\ ble'.said = ble.said
    BY <2>1, <2>2 DEF BleInv, BleTypes, BlePcs
  <2> QED
    BY <1>1, <2>1, <2>3 DEF BleInv, BleTypes
<1> QED
  BY <1>2, <1>3

LEMMA BleKept ==
  ASSUME BleInv,
         BleStep \/ BluezRegisters \/ RegisterReturns \/ Deadline \/ Term
         \/ ClientGone \/ Release
  PROVE  BleInv'
<1> USE DEF BleInv, BleTypes
<1> DEFINE Rec == [pc : BlePcs, hashes : Hashed, cause : Causes,
                   events : Seq({"registered", "failed", "signal"}), said : SUBSET {"START", "STOP"}]
<1>1. CASE Prepare
  BY <1>1, PrepareKeeps
<1>2. CASE Adapter
  <2>1. CASE BleExit
    BY <1>2, <2>1, ExitKeeps DEF Adapter
  <2>2. CASE ble' = [ble EXCEPT !.pc = IF ble.pc = "signals" THEN "adapter" ELSE "serve"]
    <3>1. /\ ble' \in Rec /\ ble'.pc \in {"adapter", "serve"} /\ ble'.hashes = ble.hashes
          /\ ble'.cause = ble.cause /\ ble'.events = ble.events /\ ble'.said = ble.said
      BY <2>2 DEF BlePcs
    <3> QED
      BY <1>2, <3>1 DEF Adapter
  <2> QED
    BY <1>2, <2>1, <2>2 DEF Adapter
<1>3. CASE Serve
  <2>1. /\ ble' \in Rec /\ ble'.pc = "first" /\ ble'.hashes = ble.hashes
        /\ ble'.cause = ble.cause /\ ble'.events = ble.events /\ ble'.said = ble.said
    BY <1>3 DEF Serve, BlePcs
  <2> QED
    BY <1>3, <2>1 DEF Serve
<1>4. CASE First
  <2>1. CASE Head1 = "registered"
    <3>1. ble' = [ble EXCEPT !.events = Tail(ble.events), !.pc = "wait", !.said = {"START"}]
      BY <1>4, <2>1 DEF First, Popped
    <3>0. Tail(ble.events) \in Seq({"registered", "failed", "signal"}) /\ aired
      BY <1>4, <2>1, PopKeeps DEF First
    <3>2. /\ ble' \in Rec /\ ble'.pc = "wait" /\ ble'.hashes = ble.hashes
          /\ ble'.cause = ble.cause /\ ble'.events = Tail(ble.events) /\ ble'.said = {"START"}
      BY <3>0, <3>1 DEF BlePcs
    <3> QED
      BY <1>4, <2>1, <3>2, PopKeeps DEF First
  <2>2. CASE Head1 # "registered"
    <3>1. <<>> \in Seq({"registered", "failed", "signal"}) /\ Len(<<>>) = 0
      BY EmptySeq
    <3>2. ble' = [ble EXCEPT !.events = <<>>, !.pc = "over"]
      BY <1>4, <2>2 DEF First, Popped
    <3>3. /\ ble' \in Rec /\ ble'.pc = "over" /\ ble'.hashes = ble.hashes
          /\ ble'.cause = ble.cause /\ ble'.events = <<>> /\ ble'.said = ble.said
      BY <3>1, <3>2 DEF BlePcs
    <3> QED
      BY <1>4, <3>1, <3>3 DEF First
  <2> QED
    BY <2>1, <2>2
<1>5. CASE Wait
  <2>1. \/ ble' = [ble EXCEPT !.events = Tail(ble.events), !.pc = "unregister"]
        \/ ble' = [ble EXCEPT !.events = Tail(ble.events)]
    BY <1>5 DEF Wait, Popped
  <2>2. /\ ble' \in Rec /\ ble'.pc \in {"wait", "unregister"} /\ ble'.hashes = ble.hashes
        /\ ble'.cause = ble.cause /\ ble'.events = Tail(ble.events) /\ ble'.said = ble.said
    BY <1>5, <2>1, PopKeeps DEF Wait, BlePcs
  <2> QED
    BY <1>5, <2>2, PopKeeps DEF Wait
<1>6. CASE Deadline
  <2>1. /\ ble' \in Rec /\ ble'.pc = "unregister" /\ ble'.hashes = ble.hashes
        /\ ble'.cause = ble.cause /\ ble'.events = ble.events /\ ble'.said = ble.said
    BY <1>6 DEF Deadline, BlePcs
  <2> QED
    BY <1>6, <2>1 DEF Deadline
<1>7. CASE Unregister
  <2>1. <<>> \in Seq({"registered", "failed", "signal"}) /\ Len(<<>>) = 0
    BY EmptySeq
  <2>2. /\ ble' \in Rec /\ ble'.pc = "over" /\ ble'.hashes = ble.hashes
        /\ ble'.cause = ble.cause /\ ble'.events = <<>> /\ ble'.said = ble.said \cup {"STOP"}
    BY <1>7, <2>1 DEF Unregister, BlePcs
  <2>3. bluez' = FALSE \/ bluez' = bluez
    BY <1>7 DEF Unregister
  <2>4. ble.pc = "unregister" /\ register' = register /\ aired' = aired
    BY <1>7 DEF Unregister
  <2>5. BleTypes'
    BY <2>2, <2>3, <2>4
  <2> QED
    BY <2>2, <2>3, <2>4, <2>5
<1>8. CASE BluezRegisters
  BY <1>8 DEF BluezRegisters
<1>9. CASE RegisterReturns
  <2>1. PICK x \in {"registered", "failed"} :
          ble' = [ble EXCEPT !.events = Append(ble.events, x)] /\ (x = "registered" => register = "answer")
    BY <1>9 DEF RegisterReturns
  <2>2. /\ Append(ble.events, x) \in Seq({"registered", "failed", "signal"})
        /\ \A k \in 1..Len(Append(ble.events, x)) : Append(ble.events, x)[k] = "registered" => aired
    <3>1. x = "registered" => aired
      BY <2>1
    <3> QED
      BY <3>1, PushKeeps
  <2>3. /\ ble' \in Rec /\ ble'.pc = ble.pc /\ ble'.hashes = ble.hashes
        /\ ble'.cause = ble.cause /\ ble'.events = Append(ble.events, x) /\ ble'.said = ble.said
    BY <2>1, <2>2
  <2>4. register \in {"call", "answer"} /\ register' = "done" /\ UNCHANGED <<bluez, aired>>
    BY <1>9 DEF RegisterReturns
  <2> QED
    BY <2>2, <2>3, <2>4
<1>10. CASE Term
  <2>1. CASE ble.pc \in {"prepare", "signals"}
    <3>1. BleExit /\ register # "gone"
      BY <1>10, <2>1 DEF Term
    <3> QED
      BY <1>10, <3>1, ExitKeeps DEF Term
  <2>2. CASE ble.pc \notin {"prepare", "signals"}
    <3>1. ble' = [ble EXCEPT !.events = Append(ble.events, "signal")]
      BY <1>10, <2>2 DEF Term
    <3>2. /\ Append(ble.events, "signal") \in Seq({"registered", "failed", "signal"})
          /\ \A k \in 1..Len(Append(ble.events, "signal")) :
               Append(ble.events, "signal")[k] = "registered" => aired
      BY PushKeeps
    <3>3. /\ ble' \in Rec /\ ble'.pc = ble.pc /\ ble'.hashes = ble.hashes
          /\ ble'.cause = ble.cause /\ ble'.events = Append(ble.events, "signal") /\ ble'.said = ble.said
      BY <3>1, <3>2
    <3> QED
      BY <1>10, <3>2, <3>3 DEF Term
  <2> QED
    BY <2>1, <2>2
<1>11. CASE ClientGone
  <2>1. /\ ble' \in Rec /\ ble'.pc = "over"
        /\ ble'.events = ble.events /\ ble'.said = ble.said
    BY <1>11 DEF ClientGone, Hashed, Causes, BlePcs
  <2> QED
    BY <1>11, <2>1 DEF ClientGone
<1>12. CASE Release
  BY <1>12 DEF Release
<1> QED
  BY <1>1, <1>2, <1>3, <1>4, <1>5, <1>6, <1>7, <1>8, <1>9, <1>10, <1>11, <1>12 DEF BleStep

-----------------------------------------------------------------------------
(* Advertiser: the responder *)

\* The socket holds frames of these kinds.
Frames == {"us", "peer"} \X {"query", "other"}

\* What the responder remembers of its last reply is true: it is within the gap
\* exactly where a burst that went out whole began less than --min-gap ago.
ReplyInv ==
  /\ socket \in Seq(Frames) /\ RepliesOwed
  /\ gap = recent /\ gap \in BOOLEAN /\ owed \in BOOLEAN
  /\ resp \in [pc : {"open", "recv", "burst", "over"}, sent : Nat, spent : BOOLEAN, seq : Nat]

LEMMA HeardFrames ==
  ASSUME NEW s \in Seq(Frames), NEW f \in Frames
  PROVE  Heard(s, f) \in Seq(Frames)
BY DEF Heard

LEMMA ReplyKept ==
  ASSUME ReplyInv, [AdvNext]_advVars
  PROVE  ReplyInv'
<1> USE DEF ReplyInv, RepliesOwed
<1>o. <<"us", "other">> \in Frames
  BY DEF Frames
<1>1. CASE RespOpen
  BY <1>1 DEF RespOpen
<1>2. CASE RespRecv
  <2>1. Head(socket) \in Frames /\ Tail(socket) \in Seq(Frames)
    BY <1>2, HeadTailProperties DEF RespRecv
  <2>2. Wanted(Head(socket)) <=> Head(socket) = <<"peer", "query">>
    BY <2>1 DEF Wanted, Ours, Query, Frames
  <2>3. /\ owed' = (owed \/ (Wanted(Head(socket)) /\ ~recent))
        /\ resp' = IF Wanted(Head(socket)) /\ ~gap THEN [resp EXCEPT !.pc = "burst"] ELSE resp
        /\ resp.pc = "recv" /\ UNCHANGED <<gap, recent>>
    BY <1>2, <2>2 DEF RespRecv
  <2>4. socket' \in Seq(Frames)
    BY <1>2, <2>1 DEF RespRecv
  <2>5. CASE Wanted(Head(socket)) /\ ~gap
    BY <2>3, <2>4, <2>5
  <2>6. CASE ~(Wanted(Head(socket)) /\ ~gap)
    BY <2>3, <2>4, <2>6
  <2> QED
    BY <2>5, <2>6
<1>3. CASE RespEnds
  <2>1. <<>> \in Seq(Frames)
    BY EmptySeq
  <2> QED
    BY <1>3, <2>1 DEF RespEnds
<1>r. /\ Received \in [pc : {"open", "recv", "burst", "over"}, sent : Nat, spent : BOOLEAN,
                      seq : Nat]
      /\ Received.pc = "recv"
  BY DEF Received
<1>4. CASE BurstFrame
  <2>1. socket' \in Seq(Frames)
    BY <1>4, <1>o, HeardFrames DEF BurstFrame
  <2>2. resp' = [resp EXCEPT !.sent = @ + 1] /\ UNCHANGED <<gap, owed, recent>>
    BY <1>4 DEF BurstFrame
  <2> QED
    BY <2>1, <2>2
<1>5. CASE BurstFails
  BY <1>5, <1>r DEF BurstFails
<1>9. CASE BurstEnds
  <2>1. (resp.seq + Burst) % SeqSpace \in Nat
    BY AdvertiserAssumption
  <2> DEFINE next == (resp.seq + Burst) % SeqSpace
  <2>2. Received.seq = resp.seq
    BY DEF Received
  <2>3. resp' = [Received EXCEPT !.seq = next]
    BY <1>9, <2>2 DEF BurstEnds
  <2> HIDE DEF next
  <2>4. /\ resp' \in [pc : {"open", "recv", "burst", "over"}, sent : Nat, spent : BOOLEAN, seq : Nat]
        /\ resp'.pc = "recv"
    BY <1>r, <2>1, <2>3 DEF next
  <2>5. gap' = ~resp.spent /\ recent' = ~resp.spent /\ owed' = FALSE /\ UNCHANGED socket
    BY <1>9 DEF BurstEnds
  <2> QED
    BY <2>4, <2>5
<1>10. CASE GapEnds
  BY <1>10 DEF GapEnds
<1>6. CASE Announce
  BY <1>6, <1>o, HeardFrames DEF Announce
<1>7. CASE Air
  <2>1. \A who \in {"us", "peer"} : <<who, "query">> \in Frames
    BY DEF Frames
  <2>2. PICK who \in {"us", "peer"} : socket' = Append(socket, <<who, "query">>)
    BY <1>7 DEF Air
  <2>3. socket' \in Seq(Frames)
    <3>1. <<who, "query">> \in Frames /\ socket \in Seq(Frames)
      BY <2>1
    <3> QED
      BY <2>2, <3>1, AppendProperties
  <2> QED
    BY <1>7, <2>3 DEF Air
<1>8. CASE UNCHANGED <<resp, gap, socket, owed, recent>>
  BY <1>8
<1>11. BleStep \/ BluezRegisters \/ RegisterReturns \/ Deadline \/ Term \/ ClientGone
       \/ Release \/ AdvQuiet \/ UNCHANGED advVars => UNCHANGED respVars
  BY DEF BleStep, Prepare, Adapter, Serve, First, Wait, Unregister, BluezRegisters,
         RegisterReturns, Deadline, Term, ClientGone, Release, AdvQuiet, advVars
<1>12. CASE UNCHANGED respVars
  BY <1>8, <1>12 DEF respVars
<1>13. \/ BleStep \/ BluezRegisters \/ RegisterReturns \/ Deadline \/ Term \/ ClientGone
          \/ Release \/ AdvQuiet \/ UNCHANGED advVars
       \/ RespOpen \/ RespRecv \/ BurstFrame \/ BurstFails \/ BurstEnds \/ RespEnds \/ Air
       \/ GapEnds \/ Announce
  BY DEF AdvNext, RespStep
<1> QED
  BY <1>1, <1>2, <1>3, <1>4, <1>5, <1>6, <1>7, <1>9, <1>10, <1>11, <1>12, <1>13

LEMMA BleAlways == AdvSpec => []BleInv
<1>1. AdvInit => BleInv
  BY BleInit
<1>2. BleInv /\ [AdvNext]_advVars => BleInv'
  <2> SUFFICES ASSUME BleInv, [AdvNext]_advVars PROVE BleInv'
    OBVIOUS
  <2>1. CASE BleStep \/ BluezRegisters \/ RegisterReturns \/ Deadline \/ Term
             \/ ClientGone \/ Release
    BY <2>1, BleKept
  <2>2. CASE UNCHANGED bleVars
    BY <2>2 DEF bleVars, BleInv, BleTypes
  <2> QED
    BY <2>1, <2>2 DEF AdvNext, RespStep, RespOpen, RespRecv, BurstFrame, BurstFails, BurstEnds,
                      RespEnds, Air, GapEnds, Announce, AdvQuiet, advVars
<1> QED
  BY <1>1, <1>2, PTL DEF AdvSpec

\* "a failed identity must never advertise zero hashes in its place", "spare
\* identifiers of either kind fill an empty slot rather than a zero the receiver
\* cannot match", and START only when the advert is on the air: for any number of
\* emails and phones in the validation record.  Hashes that the user gives, zeros
\* among them, are the user's own.
THEOREM AdvertHonestAlways == AdvSpec => []AdvertHonest
<1>1. ASSUME BleInv PROVE AdvertHonest
  <2>1. bluez => Honest(ble.hashes, ble.cause)
    BY <1>1 DEF BleInv
  <2>2. bluez => LET told == {ble.hashes[k] : k \in 1..4} \ {Zero}
                     from == ble.cause[1]
                     n == ble.cause[2]
                 IN  /\ from \in {"user", "missing", "good"}
                     /\ from = "missing" => Cardinality(told) = 0
                     /\ from = "good" => n > 0 /\ Cardinality(told) = Least2(4, n)
    <3>1. Honest(ble.hashes, ble.cause) => ble.cause[1] \in {"user", "missing", "good"}
      BY DEF Honest
    <3> QED
      BY <2>1, <3>1 DEF Honest, ToldBy
  <2>3. ("START" \in ble.said => aired) /\ ("STOP" \in ble.said => "START" \in ble.said)
    BY <1>1 DEF BleInv
  <2> QED
    BY <2>2, <2>3 DEF AdvertHonest
<1> QED
  BY <1>1, BleAlways, PTL

\* "at most one reply per `--min-gap`": whatever --burst and --min-gap are, 0 among
\* them, a burst is for a peer's query read when no whole burst began within the
\* gap, and such a query always has one.
THEOREM RepliesOwedAlways == AdvSpec => []RepliesOwed
<1>1. AdvInit => ReplyInv
  <2>1. SeqSpace \div 4 \in Nat
    BY AdvertiserAssumption
  <2>2. <<>> \in Seq(Frames)
    BY EmptySeq
  <2> SUFFICES ASSUME AdvInit PROVE ReplyInv
    OBVIOUS
  <2> DEFINE seq == SeqSpace \div 4
  <2>3. resp = [pc |-> "open", sent |-> 0, spent |-> FALSE, seq |-> seq]
    BY DEF AdvInit
  <2> HIDE DEF seq
  <2>4. gap = FALSE /\ socket = <<>> /\ owed = FALSE /\ recent = FALSE
    BY DEF AdvInit
  <2> QED
    BY <2>1, <2>2, <2>3, <2>4 DEF ReplyInv, RepliesOwed, seq
<1>2. ReplyInv /\ [AdvNext]_advVars => ReplyInv'
  BY ReplyKept
<1>3. ReplyInv => RepliesOwed
  BY DEF ReplyInv
<1> QED
  BY <1>1, <1>2, <1>3, PTL DEF AdvSpec
===============================================================================
