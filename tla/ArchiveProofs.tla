--------------------------- MODULE ArchiveProofs ---------------------------
(***************************************************************************)
(* Theorems about Archive, for any uploads, bodies and limits: its typing, *)
(* that an upload shows all of its files or none, that only a whole        *)
(* archive is stored, that no file is replaced or removed by another       *)
(* upload, and that no hidden file is left.  All rest on ArchiveInv, which *)
(* ties an upload's progress to its body, to the names that are its own    *)
(* and to the hidden files it holds.                                       *)
(***************************************************************************)
EXTENDS Archive, FiniteSetTheorems, SequenceTheorems, WellFoundedInduction, TLAPS

-----------------------------------------------------------------------------
(* The inductive invariant. *)

SentBodies == UNION {Bodies[u] : u \in Uploads}
Scripts    == {b.script : b \in SentBodies}
Names      == {SafeNames[p] : p \in Paths}
Shown      == {CandidateNames[n][k] : n \in Names, k \in Nat}
Temps      == Uploads \X (1..MaxMembers)
Results    == {"none", "ok", "body", "limit", "io", "invalid"}

ExtType ==
    [pc : PcValues, count : 0..MaxMembers, bytes : 0..ByteLimit, cur : Temps \union {NoTemp},
     pending : Seq([name : Names, temp : Temps]), cand : 0..Candidates, stored : Seq(Shown),
     unterminated : BOOLEAN, result : Results]
BodyType ==
    [script : Scripts, plan : {"chunked", "length"}, bursts : SUBSET Nat, chunk : {"size", "data", "done"},
     got : Nat, pos : Nat, idle : 0..PatienceSteps, block : {"header", "inside"},
     clean : BOOLEAN, trailer : BOOLEAN]

\* What holds of a body whatever its upload does.
BodyShape(b) ==
    /\ b.pos <= b.got /\ b.got <= Len(b.script)
    /\ b.clean => b.block = "header" /\ b.pos = b.got
    /\ b.chunk = "size" => b.plan = "chunked"

Early == {"new", "entry", "skip", "create", "register", "write"}
Placed(e) == e.pc \in {"place", "forget"} \/ (e.pc = "over" /\ e.result = "ok")

\* The wanted members among the decoded tokens.
SeenIn(b) == {i \in 1..b.pos : b.script[i].t = "member" /\ Wanted(b.script[i])}

\* The extraction e of upload u and its body b agree on how far they are.
Shape(u, e, b) ==
    /\ BodyShape(b)
    /\ e.pc = "new" => b.pos = 0
    /\ e.pc \in Early => ~b.trailer
    /\ e.pc \in Early \union {"rest", "gone"} => e.stored = <<>> /\ ~e.unterminated /\ e.cand = 0
    /\ e.pc \in {"new", "over", "gone"} => e.pending = <<>> /\ e.cur = NoTemp
    /\ e.pc = "create" => e.count >= 1
    /\ e.pc \in {"register", "write"} => e.cur # NoTemp
    /\ e.cur # NoTemp => e.cur[1] = u /\ e.pc \in {"register", "write", "drop"}
    /\ \A i \in 1..Len(e.pending) : e.pending[i].temp[1] = u
    /\ e.pc \in {"rest", "place", "forget"} \/ Placed(e) \/ e.stored # <<>> => b.trailer
    /\ Placed(e) => /\ b.block = "header" /\ b.pos = b.got
                    /\ e.unterminated => b.chunk = "size"
    /\ e.pc = "forget" => e.pending # <<>>
    /\ e.pc = "over" /\ e.result # "ok" => e.stored = <<>>
    /\ e.pc = "drop" => e.result # "ok"

\* Every wanted member decoded so far is being written, pending or stored.
Counted(e, b) ==
    LET n == Cardinality(SeenIn(b)) IN
    /\ e.pc = "new" => n = 0
    /\ e.pc \in {"entry", "skip", "rest"} => n = Len(e.pending)
    /\ e.pc \in {"create", "register", "write"} => n = Len(e.pending) + 1
    /\ Placed(e) => n = Len(e.pending) + Len(e.stored)

\* The name being given to the head of pending.
Given(e) == CandidateNames[Head(e.pending).name][e.cand]

\* The upload's visible files V are the names it stored, each once, and the one it just gave.
Shows(e, V) ==
    e.pc # "gone" =>
        /\ IsFiniteSet(V) /\ IsInjective(e.stored) /\ ToSet(e.stored) \subseteq V
        /\ e.pc = "forget" => Given(e) \in V \ ToSet(e.stored)
        /\ Cardinality(V) = Len(e.stored) + (IF e.pc = "forget" THEN 1 ELSE 0)

Holds(e, t) == e.cur = t \/ \E i \in 1..Len(e.pending) : e.pending[i].temp = t

\* The upload's hidden files, on disk (T) or registered (R), are those it holds, and
\* unregistered ones are just being created or dropped.
Keeps(u, e, T, R) ==
    /\ \A t \in T \union R : t[1] = u => Holds(e, t)
    /\ \A t \in T \ R : t[1] = u => e.pc \in {"register", "drop"} /\ e.cur = t
    /\ e.pc = "forget" => Head(e.pending).temp \notin T

UploadInv(u, e, b, V, T, R, p) ==
    Shape(u, e, b) /\ Counted(e, b) /\ Shows(e, V) /\ (p = "run" => Keeps(u, e, T, R))

Typed ==
    /\ proc \in {"run", "removing", "dead"} /\ runs \in 1..MaxRuns
    /\ temps \subseteq Temps /\ registry \subseteq Temps /\ doomed \subseteq Temps
    /\ dest \in [DOMAIN dest -> Uploads \union {"user"}]
    /\ ext \in [Uploads -> ExtType] /\ body \in [Uploads -> BodyType]

AllUploads == \A u \in Uploads : UploadInv(u, ext[u], body[u], Visible(u), temps, registry, proc)

ArchiveInv == Typed /\ AllUploads

-----------------------------------------------------------------------------
(* Safe names. *)

\* The characters of names; the provers do not know that "f" is a string.
Chars == STRING \union {"f", "-"}

\* A name without a character that is not safe, and one that may be given to a file.
Clean(s) == s \in Seq(Chars) /\ \A i \in 1..Len(s) : s[i] \notin Unsafe
Safe(n)  == Clean(n) /\ n # <<>> /\ n[1] # "." /\ Len(n) <= NameBytes

\* A set of numbers that is not empty has a least one.
LEMMA LeastOf ==
  ASSUME NEW S \in SUBSET Nat, S # {}
  PROVE  \E x \in S : \A y \in S : x <= y
<1>1. \E x \in S : \A y \in S : ~ (<<y, x>> \in OpToRel(<, Nat))
  BY NatLessThanWellFounded, WFMin
<1>2. \E x \in S : \A y \in S : ~ (y < x)
  BY <1>1 DEF OpToRel
<1> QED
  BY <1>2

\* The least and the greatest of some positions.
LEMMA EndsOf ==
  ASSUME NEW n \in Nat, NEW S \in SUBSET (1..n), S # {}
  PROVE  /\ (CHOOSE i \in S : \A j \in S : j <= i) \in S
         /\ (CHOOSE i \in S : \A j \in S : i <= j) \in S
         /\ (CHOOSE i \in S : \A j \in S : i <= j) <= (CHOOSE i \in S : \A j \in S : j <= i)
<1> DEFINE T == {n - x : x \in S}
<1>1. \A x \in S : x \in Nat /\ n - x \in Nat
  OBVIOUS
<1>2. \E x \in S : \A y \in S : x <= y
  BY LeastOf
<1>3. \E x \in S : \A y \in S : y <= x
  <2>1. T \in SUBSET Nat /\ T # {}
    BY <1>1
  <2>2. PICK t \in T : \A y \in T : t <= y
    BY <2>1, LeastOf
  <2>3. PICK x \in S : t = n - x
    OBVIOUS
  <2>4. \A y \in S : n - x <= n - y
    BY <2>2, <2>3
  <2> QED
    BY <1>1, <2>4
<1> QED
  BY <1>2, <1>3

\* A part of a sequence.
LEMMA PartIs ==
  ASSUME NEW s \in Seq(Chars), NEW m \in 1..(Len(s) + 1), NEW n \in (m - 1)..Len(s)
  PROVE  /\ SubSeq(s, m, n) \in Seq(Chars) /\ Len(SubSeq(s, m, n)) = n - m + 1
         /\ \A i \in 1..(n - m + 1) : SubSeq(s, m, n)[i] = s[m + i - 1]
         /\ Clean(s) => Clean(SubSeq(s, m, n))
<1>1. Len(s) \in Nat /\ DOMAIN s = 1..Len(s) /\ s \in [1..Len(s) -> Chars]
  BY LenProperties
<1>2. m \in Nat /\ n \in Nat /\ n - m + 1 \in Nat
  BY <1>1
<1>3. \A i \in 1..(n - m + 1) : m + i - 1 \in 1..Len(s)
  BY <1>1, <1>2
<1>4. SubSeq(s, m, n) = [i \in 1..(n - m + 1) |-> s[m + i - 1]]
  BY <1>1, <1>2, <1>3
<1> DEFINE r == SubSeq(s, m, n)
<1>5. r \in [1..(n - m + 1) -> Chars]
  BY <1>1, <1>3, <1>4
<1>6. r \in Seq(Chars) /\ Len(r) = n - m + 1
  BY <1>2, <1>5, IsASeq
<1>7. \A i \in 1..(n - m + 1) : r[i] = s[m + i - 1]
  BY <1>4
<1> HIDE DEF r
<1>8. Clean(s) => Clean(r)
  BY <1>3, <1>6, <1>7 DEF Clean
<1> QED
  BY <1>6, <1>7, <1>8 DEF r

\* Two names, one after the other.
LEMMA JoinIs ==
  ASSUME NEW s, NEW t, Clean(s), Clean(t)
  PROVE  /\ Clean(s \o t) /\ Len(s \o t) = Len(s) + Len(t)
         /\ s # <<>> => (s \o t)[1] = s[1] /\ s \o t # <<>>
         /\ s = <<>> => s \o t = t
<1> DEFINE r == s \o t
<1>1. s \in Seq(Chars) /\ t \in Seq(Chars) /\ Len(s) \in Nat /\ Len(t) \in Nat
  BY DEF Clean
<1>2. r \in Seq(Chars) /\ Len(r) = Len(s) + Len(t)
  BY <1>1
<1>3. \A i \in 1..Len(r) : r[i] = IF i <= Len(s) THEN s[i] ELSE t[i - Len(s)]
  BY <1>1
<1>4. s # <<>> => Len(s) # 0
  BY <1>1
<1>5. s = <<>> => r = t
  BY <1>1
<1> HIDE DEF r
<1>6. \A i \in 1..Len(r) : r[i] \notin Unsafe
  <2> SUFFICES ASSUME NEW i \in 1..Len(r) PROVE r[i] \notin Unsafe
    OBVIOUS
  <2>1. CASE i <= Len(s)
    BY <1>1, <1>3, <2>1 DEF Clean
  <2>2. CASE ~(i <= Len(s))
    <3>1. i - Len(s) \in 1..Len(t) /\ r[i] = t[i - Len(s)]
      BY <1>1, <1>2, <1>3, <2>2
    <3> QED
      BY <3>1 DEF Clean
  <2> QED
    BY <2>1, <2>2
<1>7. s # <<>> => r[1] = s[1] /\ r # <<>>
  <2> SUFFICES ASSUME s # <<>> PROVE r[1] = s[1] /\ r # <<>>
    OBVIOUS
  <2>1. 1 \in 1..Len(r) /\ 1 <= Len(s)
    BY <1>1, <1>2, <1>4
  <2> QED
    BY <1>2, <1>3, <2>1
<1> QED
  BY <1>2, <1>5, <1>6, <1>7 DEF r, Clean

\* Of a finite set of positions there is one with each number of others up to it.
LEMMA NthOf ==
  ASSUME NEW n \in Nat, NEW K \in SUBSET (1..n), NEW k \in 1..Cardinality(K)
  PROVE  \E i \in K : Cardinality({j \in K : j <= i}) = k
<1> DEFINE Upto(i) == {j \in K : j <= i}
<1>1. IsFiniteSet(K) /\ Cardinality(K) \in Nat
  <2>1. IsFiniteSet(1..n)
    BY FS_Interval
  <2>2. IsFiniteSet(K)
    BY <2>1, FS_Subset
  <2> QED
    BY <2>2, FS_CardinalityType
<1>2. \A i \in Int : IsFiniteSet(Upto(i)) /\ Cardinality(Upto(i)) \in Nat
  <2> SUFFICES ASSUME NEW i \in Int PROVE IsFiniteSet(Upto(i)) /\ Cardinality(Upto(i)) \in Nat
    OBVIOUS
  <2>1. IsFiniteSet(Upto(i))
    BY <1>1, FS_Subset
  <2> QED
    BY <2>1, FS_CardinalityType
<1>3. /\ Upto(n) = K /\ Upto(0) = {}
      /\ \A m \in 1..n : \/ m \in K /\ m \notin Upto(m - 1) /\ Upto(m) = Upto(m - 1) \union {m}
                       \/ Upto(m) = Upto(m - 1)
  <2>1. \A j \in K : j \in Int /\ 1 <= j /\ j <= n
    OBVIOUS
  <2>2. Upto(n) = K /\ Upto(0) = {}
    <3>1. Upto(n) = K
      BY <2>1
    <3>2. \A j \in K : ~ (j <= 0)
      BY <2>1
    <3> QED
      BY <3>1, <3>2
  <2>3. ASSUME NEW m \in 1..n
        PROVE  \/ m \in K /\ m \notin Upto(m - 1) /\ Upto(m) = Upto(m - 1) \union {m}
               \/ Upto(m) = Upto(m - 1)
    <3>1. \A j \in K : j <= m <=> j <= m - 1 \/ j = m
      BY <2>1
    <3>2. ~ (m <= m - 1)
      OBVIOUS
    <3> QED
      BY <3>1, <3>2
  <2> QED
    BY <2>2, <2>3
<1> HIDE DEF Upto
<1> DEFINE c == [i \in 0..n |-> Cardinality(Upto(i))]
           A == {i \in 1..n : c[i] >= k}
<1>4. /\ \A i \in 0..n : c[i] \in Nat
      /\ c[0] = 0 /\ c[n] = Cardinality(K)
      /\ \A m \in 1..n : (m \in K /\ c[m] = c[m - 1] + 1) \/ c[m] = c[m - 1]
  <2>1. \A i \in 0..n : c[i] \in Nat
    BY <1>2
  <2>2. c[0] = 0 /\ c[n] = Cardinality(K)
    BY <1>3, FS_EmptySet
  <2>3. ASSUME NEW m \in 1..n PROVE (m \in K /\ c[m] = c[m - 1] + 1) \/ c[m] = c[m - 1]
    <3>1. m \in 0..n /\ m - 1 \in 0..n /\ m - 1 \in Int
      OBVIOUS
    <3>2. c[m] = Cardinality(Upto(m)) /\ c[m - 1] = Cardinality(Upto(m - 1))
      BY <3>1
    <3>3. CASE Upto(m) = Upto(m - 1)
      BY <3>2, <3>3
    <3>4. CASE m \in K /\ m \notin Upto(m - 1) /\ Upto(m) = Upto(m - 1) \union {m}
      <4>1. IsFiniteSet(Upto(m - 1))
        BY <1>2, <3>1
      <4>2. Cardinality(Upto(m - 1) \union {m}) = Cardinality(Upto(m - 1)) + 1
        BY <3>4, <4>1, FS_AddElement
      <4> QED
        BY <3>2, <3>4, <4>2
    <3> QED
      BY <1>3, <3>3, <3>4
  <2> QED
    BY <2>1, <2>2, <2>3
<1>5. \A i \in 0..n : c[i] = Cardinality(Upto(i))
  OBVIOUS
<1> HIDE DEF c
<1>6. A \in SUBSET Nat /\ n \in A
  BY <1>1, <1>4
<1>7. PICK m \in A : \A i \in A : m <= i
  <2> HIDE DEF A
  <2> QED
    BY <1>6, LeastOf
<1>8. m \in 1..n /\ c[m] >= k /\ c[m - 1] < k
  <2>1. m \in 1..n /\ c[m] >= k /\ m - 1 \in 0..n
    BY <1>7
  <2>2. m - 1 \notin A
    BY <1>7, <2>1
  <2> QED
    BY <1>1, <1>4, <2>1, <2>2
<1>9. m \in K /\ c[m] = k
  <2>1. m - 1 \in 0..n /\ m \in 0..n /\ c[m] \in Nat /\ c[m - 1] \in Nat /\ k \in Int
    BY <1>1, <1>4, <1>8
  <2>2. (m \in K /\ c[m] = c[m - 1] + 1) \/ c[m] = c[m - 1]
    BY <1>4, <1>8
  <2> QED
    BY <1>8, <2>1, <2>2
<1> QED
  BY <1>5, <1>8, <1>9 DEF Upto

\* A name without the characters of S has none of them.
LEMMA WithoutIs ==
  ASSUME NEW s \in Seq(Chars), NEW S
  PROVE  /\ Without(s, S) \in Seq(Chars)
         /\ \A k \in 1..Len(Without(s, S)) : Without(s, S)[k] \notin S
<1> DEFINE kept == {i \in 1..Len(s) : s[i] \notin S}
           n    == Cardinality(kept)
           At(k) == CHOOSE i \in kept : Cardinality({j \in kept : j <= i}) = k
           r    == [k \in 1..n |-> s[At(k)]]
<1>1. Without(s, S) = r
  BY DEF Without
<1>2. Len(s) \in Nat /\ kept \in SUBSET (1..Len(s))
  OBVIOUS
<1>3. n \in Nat
  <2>1. IsFiniteSet(1..Len(s))
    BY <1>2, FS_Interval
  <2>2. IsFiniteSet(kept)
    BY <1>2, <2>1, FS_Subset
  <2> QED
    BY <2>2, FS_CardinalityType
<1>4. \A k \in 1..n : At(k) \in kept
  <2> SUFFICES ASSUME NEW k \in 1..n PROVE At(k) \in kept
    OBVIOUS
  <2> HIDE DEF kept
  <2>1. \E i \in kept : Cardinality({j \in kept : j <= i}) = k
    BY <1>2, NthOf
  <2> QED
    BY <2>1
<1> HIDE DEF At, n
<1>5. \A k \in 1..n : s[At(k)] \in Chars /\ s[At(k)] \notin S
  BY <1>2, <1>4
<1>6. r \in [1..n -> Chars] /\ \A k \in 1..n : r[k] \notin S
  BY <1>5
<1> HIDE DEF r
<1>7. r \in Seq(Chars) /\ Len(r) = n
  BY <1>3, <1>6, SeqDef
<1> QED
  BY <1>1, <1>6, <1>7

\* Cutting a name at its ends leaves it clean.
LEMMA AfterLastIs ==
  ASSUME NEW s \in Seq(Chars), NEW S
  PROVE  AfterLast(s, S) \in Seq(Chars)
<1> DEFINE at == LastIn(s, S)
           m  == CHOOSE i \in at : \A j \in at : j <= i
<1>1. Len(s) \in Nat /\ at \in SUBSET (1..Len(s))
  BY DEF LastIn
<1>2. CASE at = {}
  BY <1>2 DEF AfterLast
<1>3. CASE at # {}
  <2>1. AfterLast(s, S) = SubSeq(s, 1 + m, Len(s))
    BY <1>3 DEF AfterLast
  <2> HIDE DEF at
  <2>2. m \in at
    BY <1>1, <1>3, EndsOf
  <2> HIDE DEF m
  <2>3. m \in 1..Len(s)
    BY <1>1, <2>2
  <2>4. 1 + m \in 1..(Len(s) + 1) /\ Len(s) \in (1 + m - 1)..Len(s)
    BY <1>1, <2>3
  <2>5. SubSeq(s, 1 + m, Len(s)) \in Seq(Chars)
    BY <2>4, PartIs
  <2> QED
    BY <2>1, <2>5
<1> QED
  BY <1>2, <1>3

LEMMA TrimIs ==
  ASSUME NEW s, Clean(s), NEW S
  PROVE  Clean(Trim(s, S)) /\ Clean(TrimFront(s, S))
<1> DEFINE kept == {i \in 1..Len(s) : s[i] \notin S}
           m    == CHOOSE i \in kept : \A j \in kept : i <= j
           n    == CHOOSE i \in kept : \A j \in kept : j <= i
<1>1. s \in Seq(Chars) /\ Len(s) \in Nat /\ kept \in SUBSET (1..Len(s))
  BY DEF Clean
<1>2. CASE kept = {}
  <2>1. Trim(s, S) = <<>> /\ TrimFront(s, S) = <<>>
    BY <1>2 DEF Trim, TrimFront
  <2>2. Clean(<<>>)
    BY DEF Clean
  <2> QED
    BY <2>1, <2>2
<1>3. CASE kept # {}
  <2>1. Trim(s, S) = SubSeq(s, m, n) /\ TrimFront(s, S) = SubSeq(s, m, Len(s))
    BY <1>3 DEF Trim, TrimFront
  <2> HIDE DEF kept
  <2>2. m \in kept /\ n \in kept /\ m <= n
    BY <1>1, <1>3, EndsOf
  <2> HIDE DEF m, n
  <2>3. m \in 1..Len(s) /\ n \in 1..Len(s)
    BY <1>1, <2>2
  <2>4. m \in 1..(Len(s) + 1) /\ n \in (m - 1)..Len(s) /\ Len(s) \in (m - 1)..Len(s)
    BY <1>1, <2>2, <2>3
  <2>5. Clean(SubSeq(s, m, n)) /\ Clean(SubSeq(s, m, Len(s)))
    BY <1>1, <2>4, PartIs
  <2> QED
    BY <2>1, <2>5
<1> QED
  BY <1>2, <1>3

\* The two parts of a name are clean, and the first begins as the name does.
LEMMA SplitIs ==
  ASSUME NEW s, Clean(s)
  PROVE  /\ Clean(SplitExt(s)[1]) /\ Clean(SplitExt(s)[2])
         /\ s # <<>> => SplitExt(s)[1] # <<>> /\ SplitExt(s)[1][1] = s[1]
<1> DEFINE dots == LastIn(s, {"."})
           dot  == CHOOSE i \in dots : \A j \in dots : j <= i
<1>1. s \in Seq(Chars) /\ Len(s) \in Nat /\ dots \in SUBSET (1..Len(s))
  BY DEF Clean, LastIn
<1>2. CASE ~(dots # {} /\ \E i \in 1..(dot - 1) : s[i] # ".")
  <2>1. SplitExt(s) = <<s, <<>> >>
    BY <1>2 DEF SplitExt
  <2>2. Clean(<<>>)
    BY DEF Clean
  <2> QED
    BY <2>1, <2>2
<1>3. CASE dots # {} /\ \E i \in 1..(dot - 1) : s[i] # "."
  <2>1. SplitExt(s) = <<SubSeq(s, 1, dot - 1), SubSeq(s, dot, Len(s))>>
    BY <1>3 DEF SplitExt
  <2> HIDE DEF dots
  <2>2. dot \in dots
    BY <1>1, <1>3, EndsOf
  <2> HIDE DEF dot
  <2>3. dot \in 1..Len(s)
    BY <1>1, <2>2
  <2>4. dot - 1 >= 1 /\ dot \in Nat
    BY <1>3, <2>3
  <2>5. /\ 1 \in 1..(Len(s) + 1) /\ dot - 1 \in (1 - 1)..Len(s)
        /\ dot \in 1..(Len(s) + 1) /\ Len(s) \in (dot - 1)..Len(s)
    BY <1>1, <2>3, <2>4
  <2> DEFINE p == SubSeq(s, 1, dot - 1)
  <2>6. /\ Clean(p) /\ p \in Seq(Chars) /\ Len(p) = (dot - 1) - 1 + 1
        /\ \A i \in 1..((dot - 1) - 1 + 1) : p[i] = s[1 + i - 1]
    BY <1>1, <2>5, PartIs
  <2>7. Clean(SubSeq(s, dot, Len(s)))
    BY <1>1, <2>5, PartIs
  <2> HIDE DEF p
  <2>8. p # <<>> /\ p[1] = s[1]
    <3>1. Len(p) >= 1 /\ 1 \in 1..((dot - 1) - 1 + 1)
      BY <2>4, <2>6
    <3>2. p[1] = s[1 + 1 - 1]
      BY <2>6, <3>1
    <3> QED
      BY <2>6, <3>1, <3>2
  <2> QED
    BY <2>1, <2>6, <2>7, <2>8 DEF p
<1> QED
  BY <1>2, <1>3

LEMMA ShortenIs ==
  ASSUME NEW s, NEW t, Clean(s), Clean(t)
  PROVE  /\ Clean(Shorten(s, t))
         /\ Shorten(s, t) # <<>> => s # <<>> /\ Shorten(s, t)[1] = s[1]
<1> DEFINE room == IF Len(t) < NameBytes THEN NameBytes - Len(t) ELSE 0
           p    == SubSeq(s, 1, room)
<1>1. s \in Seq(Chars) /\ Len(s) \in Nat /\ Len(t) \in Nat /\ NameBytes \in Nat
  BY ArchiveConstants DEF Clean
<1>2. room \in Nat
  BY <1>1
<1>3. Shorten(s, t) = IF Len(s) > room THEN p ELSE s
  BY DEF Shorten
<1> HIDE DEF room
<1>4. CASE ~(Len(s) > room)
  BY <1>3, <1>4
<1>5. CASE Len(s) > room
  <2>1. 1 \in 1..(Len(s) + 1) /\ room \in (1 - 1)..Len(s)
    BY <1>1, <1>2, <1>5
  <2>2. /\ Clean(p) /\ p \in Seq(Chars) /\ Len(p) = room - 1 + 1
        /\ \A i \in 1..(room - 1 + 1) : p[i] = s[1 + i - 1]
    BY <1>1, <2>1, PartIs
  <2> HIDE DEF p
  <2>3. ASSUME p # <<>> PROVE s # <<>> /\ p[1] = s[1]
    <3>1. Len(p) # 0
      BY <2>2, <2>3
    <3>2. room >= 1
      BY <1>2, <2>2, <3>1
    <3>3. 1 \in 1..(room - 1 + 1)
      BY <1>2, <3>2
    <3>4. p[1] = s[1 + 1 - 1]
      BY <2>2, <3>3
    <3>5. Len(s) # 0
      BY <1>1, <1>2, <1>5
    <3>6. s # <<>>
      BY <3>5
    <3> QED
      BY <3>4, <3>6
  <2> QED
    BY <1>3, <1>5, <2>2, <2>3
<1> QED
  BY <1>4, <1>5

\* safe_name gives a safe name, whatever the sender sent.
LEMMA SafeNameIs ==
  ASSUME NEW name \in Seq(STRING)
  PROVE  Safe(SafeName(name))
<1> DEFINE cleaned == Without(AfterLast(name, Separators), Unsafe)
           trimmed == TrimFront(Trim(cleaned, {" "}), {"."})
           parts   == SplitExt(trimmed)
           stem    == Shorten(parts[1], parts[2])
           out     == stem \o parts[2]
<1>1. Clean(cleaned)
  <2>1. name \in Seq(Chars)
    <3>1. STRING \subseteq Chars
      BY DEF Chars
    <3> QED
      BY <3>1, SeqMonotonic
  <2> QED
    BY <2>1, AfterLastIs, WithoutIs DEF Clean
<1> HIDE DEF cleaned
<1>2. Clean(trimmed)
  BY <1>1, TrimIs
<1> HIDE DEF trimmed
<1>3. Clean(parts[1]) /\ Clean(parts[2])
  BY <1>2, SplitIs
<1> HIDE DEF parts
<1>4. Clean(stem)
  BY <1>3, ShortenIs
<1> HIDE DEF stem
<1>5. Clean(out) /\ (stem # <<>> => out # <<>>)
  BY <1>3, <1>4, JoinIs
<1>6. SafeName(name) = IF stem = <<>> \/ Len(out) > NameBytes \/ out[1] = "." THEN Fallback ELSE out
  BY DEF SafeName, cleaned, trimmed, parts, stem
<1> HIDE DEF out
<1>7. CASE stem = <<>> \/ Len(out) > NameBytes \/ out[1] = "."
  <2>1. Len(Fallback) = 1 /\ Fallback[1] = "f" /\ Fallback \in Seq(Chars) /\ Fallback # <<>>
    <3>1. "f" \in Chars
      BY DEF Chars
    <3> QED
      BY <3>1 DEF Fallback
  <2>2. "f" \notin Unsafe
    BY DEF Unsafe, Separators
  <2>3. 1 <= NameBytes
    BY ArchiveConstants
  <2>4. Safe(Fallback)
    BY <2>1, <2>2, <2>3 DEF Safe, Clean
  <2> QED
    BY <1>6, <1>7, <2>4
<1>8. CASE ~(stem = <<>> \/ Len(out) > NameBytes \/ out[1] = ".")
  <2>1. Len(out) \in Nat /\ NameBytes \in Nat
    BY <1>5, ArchiveConstants DEF Clean
  <2> QED
    BY <1>5, <1>6, <1>8, <2>1 DEF Safe
<1> QED
  BY <1>7, <1>8

\* candidate_names keeps a name safe, but for its length, which persist checks.
LEMMA CandidateIs ==
  ASSUME NEW name, Safe(name), NEW k \in 0..Candidates
  PROVE  Clean(Candidate(name, k)) /\ Candidate(name, k) # <<>> /\ Candidate(name, k)[1] # "."
<1>1. CASE k = 0
  BY <1>1 DEF Candidate, Safe
<1>2. CASE k # 0
  <2> DEFINE parts  == SplitExt(name)
             dash   == <<"-">>
             head   == dash \o Numeral[k]
             suffix == head \o parts[2]
             stem   == Shorten(parts[1], suffix)
  <2>1. Candidate(name, k) = stem \o suffix
    BY <1>2 DEF Candidate
  <2>2. Clean(name) /\ name # <<>> /\ name[1] # "."
    BY DEF Safe
  <2>3. Clean(parts[1]) /\ Clean(parts[2]) /\ parts[1][1] = name[1]
    BY <2>2, SplitIs
  <2> HIDE DEF parts
  <2>4. Clean(Numeral[k])
    <3>1. Numeral[k] \in Seq(STRING \ Unsafe)
      BY <1>2, ArchiveConstants
    <3>2. STRING \ Unsafe \subseteq Chars
      BY DEF Chars
    <3>3. Numeral[k] \in Seq(Chars)
      BY <3>1, <3>2, SeqMonotonic
    <3>4. \A i \in 1..Len(Numeral[k]) : Numeral[k][i] \in STRING \ Unsafe
      BY <3>1
    <3> QED
      BY <3>3, <3>4 DEF Clean
  <2>5. Clean(dash) /\ dash # <<>> /\ dash[1] = "-"
    <3>1. dash \in Seq(Chars) /\ Len(dash) = 1 /\ dash[1] = "-" /\ dash # <<>>
      <4>1. "-" \in Chars
        BY DEF Chars
      <4> QED
        BY <4>1
    <3>2. "-" \notin Unsafe
      BY DEF Unsafe, Separators
    <3> HIDE DEF dash
    <3>3. \A i \in 1..Len(dash) : dash[i] \notin Unsafe
      BY <3>1, <3>2
    <3> QED
      BY <3>1, <3>3 DEF Clean
  <2> HIDE DEF dash
  <2>6. Clean(head) /\ head # <<>> /\ head[1] = "-"
    BY <2>4, <2>5, JoinIs
  <2> HIDE DEF head
  <2>7. Clean(suffix) /\ suffix # <<>> /\ suffix[1] = "-"
    BY <2>3, <2>6, JoinIs
  <2> HIDE DEF suffix
  <2>8. Clean(stem) /\ (stem # <<>> => stem[1] = name[1])
    BY <2>3, <2>7, ShortenIs
  <2> HIDE DEF stem
  <2>9. /\ Clean(stem \o suffix)
        /\ stem # <<>> => (stem \o suffix)[1] = stem[1] /\ stem \o suffix # <<>>
        /\ stem = <<>> => stem \o suffix = suffix
    BY <2>7, <2>8, JoinIs
  <2> QED
    BY <2>1, <2>2, <2>7, <2>8, <2>9
<1> QED
  BY <1>1, <1>2

-----------------------------------------------------------------------------
(* Scripts and the count of the wanted members. *)

LEMMA HeadIs ==
  ASSUME NEW S, NEW s \in Seq(S), s # <<>>
  PROVE  /\ 1 \in 1..Len(s) /\ Head(s) = s[1] /\ s[1] \in S
         /\ Tail(s) \in Seq(S) /\ Len(Tail(s)) = Len(s) - 1
         /\ \A i \in 1..(Len(s) - 1) : Tail(s)[i] = s[i + 1]
<1>1. Len(s) \in Nat /\ Len(s) # 0
  OBVIOUS
<1> QED
  BY <1>1

\* Appending an element that is not in the sequence.
LEMMA AppendIs ==
  ASSUME NEW S, NEW s \in Seq(S), IsInjective(s), NEW c \in S, c \notin ToSet(s)
  PROVE  /\ Append(s, c) \in Seq(S)
         /\ IsInjective(Append(s, c))
         /\ ToSet(Append(s, c)) = ToSet(s) \union {c}
<1> DEFINE r == Append(s, c)
<1>1. /\ r \in Seq(S) /\ Len(r) = Len(s) + 1 /\ Len(s) \in Nat
      /\ DOMAIN r = 1..(Len(s) + 1) /\ DOMAIN s = 1..Len(s)
      /\ \A i \in 1..Len(s) : r[i] = s[i]
      /\ r[Len(s) + 1] = c
  OBVIOUS
<1>2. \A i \in 1..Len(s) : s[i] # c
  BY <1>1 DEF ToSet
<1> HIDE DEF r
<1>3. IsInjective(r)
  BY <1>1, <1>2 DEF IsInjective
<1>4. ASSUME NEW x \in ToSet(r) PROVE x \in ToSet(s) \union {c}
  BY <1>1 DEF ToSet
<1>5. ASSUME NEW x \in ToSet(s) \union {c} PROVE x \in ToSet(r)
  BY <1>1 DEF ToSet
<1> QED
  BY <1>1, <1>3, <1>4, <1>5 DEF r

\* Taking the last element off a sequence without repetitions.
LEMMA FrontIs ==
  ASSUME NEW S, NEW s \in Seq(S), IsInjective(s), s # <<>>
  PROVE  /\ Front(s) \in Seq(S) /\ IsInjective(Front(s)) /\ Len(Front(s)) = Len(s) - 1
         /\ Last(s) \in ToSet(s)
         /\ ToSet(Front(s)) = ToSet(s) \ {Last(s)}
<1> DEFINE k == Len(s)
           r == SubSeq(s, 1, k - 1)
<1>1. k \in Nat \ {0} /\ DOMAIN s = 1..k /\ \A i \in 1..k : s[i] \in S
  OBVIOUS
<1>2. Front(s) = r /\ Last(s) = s[k]
  BY DEF Front, Last
<1> HIDE DEF k
<1>3. k - 1 \in Int /\ 1 \in Int /\ \A i \in 1..(k - 1) : s[i] \in S
  BY <1>1
<1>4. /\ r \in Seq(S) /\ Len(r) = k - 1
      /\ \A i \in 1..(k - 1) : r[i] = s[i]
  <2>1. /\ r \in Seq(S)
        /\ Len(r) = IF 1 <= k - 1 THEN k - 1 - 1 + 1 ELSE 0
        /\ \A i \in 1..(k - 1 - 1 + 1) : r[i] = s[1 + i - 1]
    BY <1>3, SubSeqProperties
  <2> HIDE DEF r
  <2> QED
    BY <1>1, <2>1
<1> HIDE DEF r
<1>5. DOMAIN r = 1..(k - 1)
  BY <1>4
<1>6. /\ k \in Nat \ {0} /\ r \in Seq(S) /\ Len(r) = k - 1
      /\ DOMAIN r = 1..(k - 1) /\ DOMAIN s = 1..k
      /\ \A i \in 1..(k - 1) : r[i] = s[i]
      /\ Last(s) = s[k]
  BY <1>1, <1>2, <1>4, <1>5
<1>7. IsInjective(r)
  BY <1>6 DEF IsInjective
<1>8. Last(s) \in ToSet(s)
  BY <1>6 DEF ToSet
<1>9. ASSUME NEW x \in ToSet(r) PROVE x \in ToSet(s) \ {Last(s)}
  <2>1. PICK i \in 1..(k - 1) : x = r[i]
    BY <1>6 DEF ToSet
  <2>2. x = s[i] /\ i \in 1..k /\ i # k
    BY <1>6, <2>1
  <2> QED
    BY <1>6, <2>2 DEF ToSet, IsInjective
<1>10. ASSUME NEW x \in ToSet(s), x # Last(s) PROVE x \in ToSet(r)
  <2>1. PICK i \in 1..k : x = s[i]
    BY <1>6 DEF ToSet
  <2>2. i \in 1..(k - 1) /\ r[i] = x
    BY <1>6, <1>10, <2>1
  <2> QED
    BY <1>6, <2>2 DEF ToSet
<1> QED
  BY <1>2, <1>6, <1>7, <1>8, <1>9, <1>10 DEF k

LEMMA ScriptIs ==
  ASSUME NEW s \in Scripts
  PROVE  Len(s) \in Nat /\ \A i \in 1..Len(s) : s[i].t = "member" => s[i].size \in Nat
BY ArchiveConstants DEF Scripts, SentBodies

LEMMA SeenIs ==
  ASSUME NEW b, b.pos \in Nat
  PROVE  IsFiniteSet(SeenIn(b)) /\ Cardinality(SeenIn(b)) \in Nat
<1>1. IsFiniteSet(1..b.pos)
  BY FS_Interval
<1>2. SeenIn(b) \subseteq 1..b.pos
  BY DEF SeenIn
<1>3. IsFiniteSet(SeenIn(b))
  BY <1>1, <1>2, FS_Subset
<1> QED
  BY <1>3, FS_CardinalityType

\* One token further: a wanted member counts, nothing else does.
LEMMA SeenNext ==
  ASSUME NEW b, NEW c, b.pos \in Nat, c.pos = b.pos + 1, c.script = b.script
  PROVE  Cardinality(SeenIn(c)) = IF c.script[c.pos].t = "member" /\ Wanted(c.script[c.pos])
                                  THEN Cardinality(SeenIn(b)) + 1 ELSE Cardinality(SeenIn(b))
<1> DEFINE m == c.script[c.pos]
<1>1. IsFiniteSet(SeenIn(b)) /\ c.pos \notin SeenIn(b)
  BY SeenIs DEF SeenIn
<1>2. 1..c.pos = (1..b.pos) \union {c.pos}
  OBVIOUS
<1>3. CASE m.t = "member" /\ Wanted(m)
  <2>1. SeenIn(c) = SeenIn(b) \union {c.pos}
    BY <1>2, <1>3 DEF SeenIn
  <2>2. Cardinality(SeenIn(b) \union {c.pos}) = Cardinality(SeenIn(b)) + 1
    BY <1>1, FS_AddElement
  <2> QED
    BY <1>3, <2>1, <2>2
<1>4. CASE ~(m.t = "member" /\ Wanted(m))
  <2>1. SeenIn(c) = SeenIn(b)
    BY <1>2, <1>4 DEF SeenIn
  <2> QED
    BY <1>4, <2>1
<1> QED
  BY <1>3, <1>4

-----------------------------------------------------------------------------
(* What one upload may do without harm to the others. *)

Alone(u, e, b) ==
    /\ ext' = [ext EXCEPT ![u] = e] /\ e \in ExtType
    /\ body' = [body EXCEPT ![u] = b] /\ b \in BodyType
    /\ UNCHANGED procVars
    /\ temps' \subseteq Temps /\ registry' \subseteq Temps
    /\ \A t \in Temps : t[1] # u => (t \in temps' <=> t \in temps) /\ (t \in registry' <=> t \in registry)
    /\ dest' \in [DOMAIN dest' -> Uploads \union {"user"}]
    /\ \A d \in Uploads \ {u} : Visible(d)' = Visible(d)
    /\ UploadInv(u, e, b, Visible(u)', temps', registry', proc)

LEMMA AloneKeeps ==
  ASSUME ArchiveInv, NEW u \in Uploads, NEW e, NEW b, Alone(u, e, b)
  PROVE  ArchiveInv'
<1>1. /\ ext' \in [Uploads -> ExtType] /\ ext'[u] = e /\ \A d \in Uploads \ {u} : ext'[d] = ext[d]
      /\ body' \in [Uploads -> BodyType] /\ body'[u] = b /\ \A d \in Uploads \ {u} : body'[d] = body[d]
  BY DEF ArchiveInv, Typed, Alone
<1>2. Typed'
  BY <1>1 DEF ArchiveInv, Typed, Alone, procVars
<1>3. AllUploads'
  <2> SUFFICES ASSUME NEW d \in Uploads
               PROVE  UploadInv(d, ext'[d], body'[d], Visible(d)', temps', registry', proc')
    BY DEF AllUploads
  <2>1. proc' = proc
    BY DEF Alone, procVars
  <2>2. CASE d = u
    BY <1>1, <2>1, <2>2 DEF Alone
  <2>3. CASE d # u
    <3>1. UploadInv(d, ext[d], body[d], Visible(d), temps, registry, proc)
      BY DEF ArchiveInv, AllUploads
    <3>2. /\ temps \subseteq Temps /\ registry \subseteq Temps /\ temps' \subseteq Temps /\ registry' \subseteq Temps
          /\ \A t \in Temps : t[1] = d => (t \in temps' <=> t \in temps) /\ (t \in registry' <=> t \in registry)
      BY <2>3 DEF Alone, ArchiveInv, Typed
    <3>3. ext[d].pc = "forget" => Head(ext[d].pending).temp \in Temps /\ Head(ext[d].pending).temp[1] = d
      <4> SUFFICES ASSUME ext[d].pc = "forget" PROVE Head(ext[d].pending).temp \in Temps /\ Head(ext[d].pending).temp[1] = d
        OBVIOUS
      <4>1. ext[d].pending \in Seq([name : Names, temp : Temps]) /\ ext[d].pending # <<>>
        BY <3>1 DEF ArchiveInv, Typed, ExtType, UploadInv, Shape
      <4>2. 1 \in 1..Len(ext[d].pending) /\ Head(ext[d].pending) = ext[d].pending[1]
            /\ ext[d].pending[1] \in [name : Names, temp : Temps]
        BY <4>1, HeadIs
      <4> QED
        BY <3>1, <4>2 DEF UploadInv, Shape
    <3>4. Keeps(d, ext[d], temps, registry) => Keeps(d, ext[d], temps', registry')
      BY <3>2, <3>3 DEF Keeps
    <3>5. Visible(d)' = Visible(d)
      BY <2>3 DEF Alone
    <3> QED
      BY <1>1, <2>1, <2>3, <3>1, <3>4, <3>5 DEF UploadInv
  <2> QED
    BY <2>2, <2>3
<1> QED
  BY <1>2, <1>3 DEF ArchiveInv

\* A step that leaves the disk and the registry as they are.
LEMMA QuietAlone ==
  ASSUME ArchiveInv, NEW u \in Uploads, NEW e \in ExtType, NEW b \in BodyType,
         ext' = [ext EXCEPT ![u] = e], body' = [body EXCEPT ![u] = b],
         UNCHANGED <<procVars, diskVars>>,
         ext[u].pc \notin {"register", "drop", "forget", "gone"}, e.pc \notin {"forget", "gone"},
         e.stored = ext[u].stored, e.pending = ext[u].pending, e.cur = ext[u].cur,
         Shape(u, e, b), Counted(e, b)
  PROVE  Alone(u, e, b)
<1>1. UploadInv(u, ext[u], body[u], Visible(u), temps, registry, proc)
  BY DEF ArchiveInv, AllUploads
<1>2. Shows(e, Visible(u)) /\ (proc = "run" => Keeps(u, e, temps, registry))
  BY <1>1 DEF UploadInv, Shows, Keeps, Holds
<1>3. \A d \in Uploads : Visible(d)' = Visible(d)
  BY DEF Visible, diskVars
<1> QED
  BY <1>2, <1>3 DEF Alone, UploadInv, ArchiveInv, Typed, diskVars, procVars

LEMMA UploadIs ==
  ASSUME ArchiveInv, NEW u \in Uploads
  PROVE  /\ ext[u] \in ExtType /\ body[u] \in BodyType
         /\ Shape(u, ext[u], body[u]) /\ Counted(ext[u], body[u]) /\ Shows(ext[u], Visible(u))
         /\ proc = "run" => Keeps(u, ext[u], temps, registry)
         /\ Cardinality(SeenIn(body[u])) \in Nat /\ Len(body[u].script) \in Nat
<1>1. ext[u] \in ExtType /\ body[u] \in BodyType
  BY DEF ArchiveInv, Typed
<1>2. body[u].pos \in Nat /\ body[u].script \in Scripts
  BY <1>1 DEF BodyType
<1> QED
  BY <1>1, <1>2, SeenIs, ScriptIs DEF ArchiveInv, AllUploads, UploadInv

Working == ReadingPc \union {"create", "place"}

\* A failure found in a read, a limit, a creation or a publication: extract goes on to
\* drop what it holds.
LEMMA FailAlone ==
  ASSUME ArchiveInv, NEW u \in Uploads, NEW why \in Results \ {"ok"}, Fail(u, why),
         ext[u].pc \in Working,
         NEW b \in BodyType, body' = [body EXCEPT ![u] = b], BodyShape(b), b.trailer = body[u].trailer,
         UNCHANGED <<procVars, diskVars>>
  PROVE  \E e, c : Alone(u, e, c)
<1> DEFINE e == [ext[u] EXCEPT !.pc = "drop", !.result = why]
<1>1. ext[u] \in ExtType /\ Shape(u, ext[u], body[u]) /\ ext \in [Uploads -> ExtType]
  BY UploadIs DEF ArchiveInv, Typed
<1>2. ext' = [ext EXCEPT ![u] = e]
  BY <1>1 DEF Fail, ExtType
<1>3. e \in ExtType
  <2>1. "drop" \in PcValues
    BY DEF PcValues
  <2> QED
    BY <1>1, <2>1 DEF ExtType
<1>4. /\ e.pc = "drop" /\ e.result = why /\ e.stored = ext[u].stored /\ e.pending = ext[u].pending
      /\ e.cur = ext[u].cur
  BY <1>1 DEF ExtType
<1> HIDE DEF e
<1>5. Shape(u, e, b) /\ Counted(e, b)
  BY <1>1, <1>4 DEF Shape, Counted, Placed, Early, Working, ReadingPc
<1>6. Alone(u, e, b)
  BY <1>2, <1>3, <1>4, <1>5, QuietAlone DEF Working, ReadingPc
<1> QED
  BY <1>6

\* The body gets longer or ends, and nothing else happens.
LEMMA SenderAlone ==
  ASSUME ArchiveInv, NEW u \in Uploads, Sender(u)
  PROVE  \E e, c : Alone(u, e, c)
<1>1. /\ ext[u] \in ExtType /\ body[u] \in BodyType /\ Len(body[u].script) \in Nat
      /\ Shape(u, ext[u], body[u]) /\ Counted(ext[u], body[u])
      /\ ext \in [Uploads -> ExtType] /\ body \in [Uploads -> BodyType]
  BY UploadIs DEF ArchiveInv, Typed
<1>2. ext[u].pc \in ReadingPc /\ body[u].pos = body[u].got /\ UNCHANGED <<procVars, diskVars, ext>>
  BY DEF Sender, Arrive, LastChunk, Waiting, Reading
<1>3. ASSUME NEW b \in BodyType, body' = [body EXCEPT ![u] = b], BodyShape(b), b.trailer = body[u].trailer,
             b.script = body[u].script, b.pos = body[u].pos
      PROVE  Alone(u, ext[u], b)
  <2>1. ext' = [ext EXCEPT ![u] = ext[u]]
    BY <1>1, <1>2
  <2>2. SeenIn(b) = SeenIn(body[u])
    BY <1>3 DEF SeenIn
  <2>3. Shape(u, ext[u], b) /\ Counted(ext[u], b)
    BY <1>1, <1>2, <1>3, <2>2 DEF Shape, Counted, Placed, Early, ReadingPc
  <2> QED
    BY <1>1, <1>2, <1>3, <2>1, <2>3, QuietAlone DEF ReadingPc
<1>4. CASE Arrive(u)
  <2>1. PICK n \in body[u].bursts, chunkEnds \in BOOLEAN :
          LET got == body[u].got + n IN
          /\ got <= Len(body[u].script)
          /\ body[u].plan = "length" => ~chunkEnds
          /\ body' = [body EXCEPT
                ![u].got = got, ![u].clean = FALSE, ![u].idle = 0,
                ![u].chunk = IF chunkEnds THEN "size"
                              ELSE IF body[u].plan = "length" /\ got = Len(body[u].script) THEN "done"
                              ELSE "data"]
    BY <1>4 DEF Arrive
  <2> DEFINE got == body[u].got + n
             chunk == IF chunkEnds THEN "size"
                      ELSE IF body[u].plan = "length" /\ got = Len(body[u].script) THEN "done" ELSE "data"
             b == [body[u] EXCEPT !.got = got, !.clean = FALSE, !.idle = 0, !.chunk = chunk]
  <2>2. /\ n \in Nat /\ got \in Nat /\ got >= body[u].got /\ got <= Len(body[u].script)
        /\ chunk \in {"size", "data", "done"} /\ 0 \in 0..PatienceSteps
        /\ chunk = "size" => body[u].plan = "chunked"
    BY <1>1, <2>1, ArchiveConstants DEF BodyType
  <2>3. body' = [body EXCEPT ![u].got = got, ![u].clean = FALSE, ![u].idle = 0, ![u].chunk = chunk]
    BY <2>1, Zenon
  <2> HIDE DEF got, chunk
  <2>4. body' = [body EXCEPT ![u] = b]
    BY <1>1, <2>3 DEF BodyType
  <2>5. b \in BodyType /\ BodyShape(b) /\ b.trailer = body[u].trailer /\ b.script = body[u].script
        /\ b.pos = body[u].pos
    BY <1>1, <1>2, <2>2 DEF BodyType, BodyShape
  <2> HIDE DEF b
  <2>6. Alone(u, ext[u], b)
    BY <1>3, <2>4, <2>5
  <2> QED
    BY <2>6
<1>5. CASE LastChunk(u)
  <2> DEFINE b == [body[u] EXCEPT !.chunk = "done", !.idle = 0]
  <2>1. body' = [body EXCEPT ![u] = b]
    BY <1>1, <1>5 DEF LastChunk, BodyType
  <2>2. 0 \in 0..PatienceSteps
    BY ArchiveConstants
  <2>3. b \in BodyType /\ BodyShape(b) /\ b.trailer = body[u].trailer /\ b.script = body[u].script
        /\ b.pos = body[u].pos
    BY <1>1, <2>2 DEF BodyType, BodyShape, Shape
  <2> HIDE DEF b
  <2>4. Alone(u, ext[u], b)
    BY <1>3, <2>1, <2>3
  <2> QED
    BY <2>4
<1> QED
  BY <1>4, <1>5 DEF Sender

LEMMA BeginAlone ==
  ASSUME ArchiveInv, NEW u \in Uploads, Begin(u)
  PROVE  \E e, c : Alone(u, e, c)
<1> DEFINE e == [ext[u] EXCEPT !.pc = "entry"]
<1>1. /\ ext[u] \in ExtType /\ body[u] \in BodyType
      /\ Shape(u, ext[u], body[u]) /\ Counted(ext[u], body[u])
      /\ ext \in [Uploads -> ExtType] /\ body \in [Uploads -> BodyType]
  BY UploadIs DEF ArchiveInv, Typed
<1>2. ext[u].pc = "new" /\ UNCHANGED <<procVars, diskVars, body>>
  BY DEF Begin
<1>3. ext' = [ext EXCEPT ![u] = e] /\ body' = [body EXCEPT ![u] = body[u]]
  BY <1>1, <1>2 DEF Begin, ExtType
<1>4. e \in ExtType /\ e.pc = "entry" /\ e.stored = ext[u].stored /\ e.pending = ext[u].pending
      /\ e.cur = ext[u].cur /\ e.unterminated = ext[u].unterminated /\ e.cand = ext[u].cand
  <2>1. "entry" \in PcValues
    BY DEF PcValues, ReadingPc
  <2> QED
    BY <1>1, <2>1 DEF ExtType
<1> HIDE DEF e
<1>5. Shape(u, e, body[u]) /\ Counted(e, body[u])
  <2>1. Len(<<>>) = 0
    OBVIOUS
  <2> QED
    BY <1>1, <1>2, <1>4, <2>1 DEF Shape, Counted, Placed, Early
<1>6. Alone(u, e, body[u])
  BY <1>1, <1>2, <1>3, <1>4, <1>5, QuietAlone
<1> QED
  BY <1>6

\* A body that ends, or is taken to have ended, with the archive whole.
LEMMA EndAlone ==
  ASSUME ArchiveInv, NEW u \in Uploads, NEW un \in BOOLEAN,
         ext' = [ext EXCEPT ![u].pc = "place", ![u].unterminated = un],
         ext[u].pc \in {"entry", "rest"}, body[u].pos = body[u].got, body[u].block = "header",
         NEW b \in BodyType, body' = [body EXCEPT ![u] = b], BodyShape(b), b.trailer,
         b.script = body[u].script, b.pos = body[u].pos, b.got = body[u].got, b.block = "header",
         un => b.chunk = "size",
         UNCHANGED <<procVars, diskVars>>
  PROVE  \E e, c : Alone(u, e, c)
<1> DEFINE e == [ext[u] EXCEPT !.pc = "place", !.unterminated = un]
<1>1. /\ ext[u] \in ExtType /\ body[u] \in BodyType
      /\ Shape(u, ext[u], body[u]) /\ Counted(ext[u], body[u])
      /\ ext \in [Uploads -> ExtType] /\ body \in [Uploads -> BodyType]
  BY UploadIs DEF ArchiveInv, Typed
<1>2. ext' = [ext EXCEPT ![u] = e]
  BY <1>1 DEF ExtType
<1>3. e \in ExtType /\ e.pc = "place" /\ e.stored = ext[u].stored /\ e.pending = ext[u].pending
      /\ e.cur = ext[u].cur /\ e.unterminated = un
  <2>1. "place" \in PcValues
    BY DEF PcValues
  <2> QED
    BY <1>1, <2>1 DEF ExtType
<1> HIDE DEF e
<1>4. SeenIn(b) = SeenIn(body[u])
  BY DEF SeenIn
<1>5. Shape(u, e, b)
  BY <1>1, <1>3 DEF Shape, Placed, Early
<1>6. Counted(e, b)
  <2>1. ext[u].stored = <<>> /\ Cardinality(SeenIn(body[u])) = Len(ext[u].pending)
    BY <1>1 DEF Shape, Counted, Early
  <2>2. Len(<<>>) = 0 /\ Len(ext[u].pending) \in Nat
    BY <1>1 DEF ExtType
  <2>3. Cardinality(SeenIn(b)) = Len(e.pending) + Len(e.stored)
    BY <1>3, <1>4, <2>1, <2>2
  <2> QED
    BY <1>3, <2>3 DEF Counted
<1>7. Alone(u, e, b)
  BY <1>1, <1>2, <1>3, <1>5, <1>6, QuietAlone
<1> QED
  BY <1>7

\* A read that ends the wait: at a quiet boundary, at the body's end or in failure.
LEMMA ReadAlone ==
  ASSUME ArchiveInv, NEW u \in Uploads, QuietStep(u) \/ BodyFails(u) \/ BodyEnds(u)
  PROVE  \E e, c : Alone(u, e, c)
<1>1. /\ ext[u] \in ExtType /\ body[u] \in BodyType
      /\ Shape(u, ext[u], body[u]) /\ Counted(ext[u], body[u]) /\ BodyShape(body[u])
      /\ ext \in [Uploads -> ExtType] /\ body \in [Uploads -> BodyType]
  BY UploadIs DEF ArchiveInv, Typed, Shape
<1>2. ext[u].pc \in ReadingPc /\ body[u].pos = body[u].got /\ UNCHANGED <<procVars, diskVars>>
  BY DEF QuietStep, BodyFails, BodyEnds, Waiting, Reading
<1>3. ext[u].pc \in Working
  BY <1>2 DEF Working
<1>4. ASSUME NEW i \in 0..PatienceSteps, body' = [body EXCEPT ![u].idle = i]
      PROVE  \E b \in BodyType : /\ body' = [body EXCEPT ![u] = b] /\ BodyShape(b)
                                 /\ b.trailer = body[u].trailer /\ b.script = body[u].script
                                 /\ b.pos = body[u].pos /\ b.got = body[u].got /\ b.block = body[u].block
                                 /\ b.chunk = body[u].chunk
  <2> DEFINE b == [body[u] EXCEPT !.idle = i]
  <2>1. body' = [body EXCEPT ![u] = b]
    BY <1>1, <1>4 DEF BodyType
  <2>2. b \in BodyType /\ b.trailer = body[u].trailer /\ b.script = body[u].script
        /\ b.pos = body[u].pos /\ b.got = body[u].got /\ b.block = body[u].block /\ b.chunk = body[u].chunk
        /\ b.clean = body[u].clean /\ b.plan = body[u].plan
    BY <1>1 DEF BodyType
  <2> HIDE DEF b
  <2>3. BodyShape(b)
    BY <1>1, <2>2 DEF BodyShape
  <2> QED
    BY <2>1, <2>2, <2>3
<1>5. 0 \in 0..PatienceSteps
  BY ArchiveConstants
<1>6. ASSUME NEW why \in {"body", "invalid"}, Fail(u, why), body' = [body EXCEPT ![u].idle = 0]
      PROVE  \E e, c : Alone(u, e, c)
  <2>1. PICK b \in BodyType : body' = [body EXCEPT ![u] = b] /\ BodyShape(b) /\ b.trailer = body[u].trailer
    BY <1>4, <1>5, <1>6
  <2>2. why \in Results \ {"ok"}
    BY DEF Results
  <2> QED
    BY <1>2, <1>3, <1>6, <2>1, <2>2, FailAlone
<1>7. CASE BodyFails(u)
  BY <1>6, <1>7 DEF BodyFails
<1>8. CASE QuietStep(u)
  <2>1. body[u].chunk = "size"
    BY <1>8 DEF QuietStep
  <2>2. CASE Whole(u)
    <3>1. /\ ext' = [ext EXCEPT ![u].pc = "place", ![u].unterminated = TRUE]
          /\ body' = [body EXCEPT ![u].idle = 0]
      BY <1>8, <2>2 DEF QuietStep
    <3>2. body[u].trailer /\ body[u].block = "header"
      BY <1>1, <2>2 DEF Whole, BodyShape
    <3>3. ext[u].pc = "rest"
      BY <1>1, <1>2, <3>2 DEF Shape, Early, ReadingPc
    <3>4. PICK b \in BodyType : /\ body' = [body EXCEPT ![u] = b] /\ BodyShape(b)
                                /\ b.trailer = body[u].trailer /\ b.script = body[u].script
                                /\ b.pos = body[u].pos /\ b.got = body[u].got /\ b.block = body[u].block
                                /\ b.chunk = body[u].chunk
      BY <1>4, <1>5, <3>1
    <3> QED
      BY <1>2, <2>1, <3>1, <3>2, <3>3, <3>4, EndAlone
  <2>3. CASE ~Whole(u) /\ body[u].idle + 1 >= PatienceSteps
    BY <1>6, <1>8, <2>3 DEF QuietStep
  <2>4. CASE ~Whole(u) /\ ~(body[u].idle + 1 >= PatienceSteps)
    <3>1. body' = [body EXCEPT ![u].idle = @ + 1] /\ UNCHANGED ext
      BY <1>8, <2>4 DEF QuietStep
    <3> DEFINE i == body[u].idle + 1
    <3>2. i \in 0..PatienceSteps /\ body' = [body EXCEPT ![u].idle = i]
      BY <1>1, <2>4, <3>1, ArchiveConstants DEF BodyType
    <3> HIDE DEF i
    <3>3. PICK b \in BodyType : /\ body' = [body EXCEPT ![u] = b] /\ BodyShape(b)
                                /\ b.trailer = body[u].trailer /\ b.script = body[u].script
                                /\ b.pos = body[u].pos
      BY <1>4, <3>2
    <3>4. SeenIn(b) = SeenIn(body[u])
      BY <3>3 DEF SeenIn
    <3>5. Shape(u, ext[u], b) /\ Counted(ext[u], b)
      BY <1>1, <1>2, <3>3, <3>4 DEF Shape, Counted, Placed, Early, ReadingPc
    <3>6. ext' = [ext EXCEPT ![u] = ext[u]]
      BY <1>1, <3>1
    <3>7. Alone(u, ext[u], b)
      BY <1>1, <1>2, <3>3, <3>5, <3>6, QuietAlone DEF ReadingPc
    <3> QED
      BY <3>7
  <2> QED
    BY <2>2, <2>3, <2>4
<1>9. CASE BodyEnds(u)
  <2> DEFINE empty == \A i \in 1..body[u].pos : body[u].script[i].t \in {"open", "close"}
             ends  == body[u].block = "header" /\ (ext[u].pc = "rest" \/ (ext[u].pc = "entry" /\ empty))
             b     == [body[u] EXCEPT !.trailer = TRUE]
  <2>1. CASE ends
    <3>1. ext' = [ext EXCEPT ![u].pc = "place"] /\ body' = [body EXCEPT ![u].trailer = TRUE]
      BY <1>9, <2>1 DEF BodyEnds
    <3>2. ext[u].pc \in {"entry", "rest"} /\ body[u].block = "header"
      BY <2>1
    <3>3. ext[u].unterminated = FALSE
      BY <1>1, <3>2 DEF Shape, Early, ExtType
    <3>4. ext' = [ext EXCEPT ![u].pc = "place", ![u].unterminated = FALSE]
      BY <1>1, <3>1, <3>3 DEF ExtType
    <3>5. body' = [body EXCEPT ![u] = b] /\ b \in BodyType /\ b.trailer
          /\ b.script = body[u].script /\ b.pos = body[u].pos /\ b.got = body[u].got /\ b.block = body[u].block
          /\ b.clean = body[u].clean /\ b.plan = body[u].plan /\ b.chunk = body[u].chunk
      BY <1>1, <3>1 DEF BodyType
    <3> HIDE DEF b
    <3>6. BodyShape(b)
      BY <1>1, <3>5 DEF BodyShape
    <3> QED
      BY <1>2, <3>2, <3>4, <3>5, <3>6, EndAlone
  <2>2. CASE ~ends
    <3>1. Fail(u, "invalid") /\ UNCHANGED body
      BY <1>9, <2>2 DEF BodyEnds
    <3>2. body' = [body EXCEPT ![u] = body[u]] /\ "invalid" \in Results \ {"ok"}
      BY <1>1, <3>1 DEF Results
    <3> QED
      BY <1>1, <1>2, <1>3, <3>1, <3>2, FailAlone
  <2> QED
    BY <2>1, <2>2
<1> QED
  BY <1>7, <1>8, <1>9

-----------------------------------------------------------------------------
(* Decoding one token. *)

\* The body once one token more is decoded, the trailer set or not.
Further(u, tr) == [body[u] EXCEPT !.pos = @ + 1, !.trailer = tr]

LEMMA FurtherIs ==
  ASSUME ArchiveInv, NEW u \in Uploads, HasToken(u), NEW tr \in BOOLEAN
  PROVE  LET b == Further(u, tr)
         IN  /\ b \in BodyType /\ b.trailer = tr /\ b.script = body[u].script /\ b.got = body[u].got
             /\ b.pos = body[u].pos + 1 /\ b.block = body[u].block /\ b.chunk = body[u].chunk
             /\ BodyShape(b)
             /\ Token(u) = b.script[b.pos]
             /\ Cardinality(SeenIn(b)) = IF Token(u).t = "member" /\ Wanted(Token(u))
                                         THEN Cardinality(SeenIn(body[u])) + 1 ELSE Cardinality(SeenIn(body[u]))
<1> DEFINE b == Further(u, tr)
<1>1. body[u] \in BodyType /\ Shape(u, ext[u], body[u]) /\ body[u].pos < body[u].got
  BY UploadIs DEF HasToken
<1>2. body[u].pos \in Nat /\ body[u].got \in Nat /\ body[u].pos + 1 \in Nat
  BY <1>1 DEF BodyType
<1>3. /\ b \in BodyType /\ b.trailer = tr /\ b.script = body[u].script /\ b.got = body[u].got
      /\ b.pos = body[u].pos + 1 /\ b.block = body[u].block /\ b.chunk = body[u].chunk
      /\ b.clean = body[u].clean /\ b.plan = body[u].plan
  BY <1>1, <1>2 DEF BodyType, Further
<1> HIDE DEF b
<1>4. BodyShape(b)
  BY <1>1, <1>2, <1>3 DEF BodyShape, Shape
<1>5. Token(u) = b.script[b.pos]
  BY <1>3 DEF Token
<1>6. Cardinality(SeenIn(b)) = IF b.script[b.pos].t = "member" /\ Wanted(b.script[b.pos])
                               THEN Cardinality(SeenIn(body[u])) + 1 ELSE Cardinality(SeenIn(body[u]))
  BY <1>2, <1>3, SeenNext
<1>7. /\ b \in BodyType /\ b.trailer = tr /\ b.script = body[u].script /\ b.got = body[u].got
      /\ b.pos = body[u].pos + 1 /\ b.block = body[u].block /\ b.chunk = body[u].chunk
      /\ BodyShape(b)
      /\ Token(u) = b.script[b.pos]
      /\ Cardinality(SeenIn(b)) = IF Token(u).t = "member" /\ Wanted(Token(u))
                                  THEN Cardinality(SeenIn(body[u])) + 1 ELSE Cardinality(SeenIn(body[u]))
  BY <1>3, <1>4, <1>5, <1>6
<1> QED
  BY <1>7 DEF b

\* The position moves by one, and the trailer stays.
LEMMA FurtherStays ==
  ASSUME ArchiveInv, NEW u \in Uploads, HasToken(u), body' = [body EXCEPT ![u].pos = @ + 1]
  PROVE  body' = [body EXCEPT ![u] = Further(u, body[u].trailer)] /\ body[u].trailer \in BOOLEAN
BY DEF ArchiveInv, Typed, BodyType, Further

LEMMA DecodeBlockAlone ==
  ASSUME ArchiveInv, NEW u \in Uploads, DecodeBlock(u)
  PROVE  \E e, c : Alone(u, e, c)
<1>1. /\ ext[u] \in ExtType /\ body[u] \in BodyType
      /\ Shape(u, ext[u], body[u]) /\ Counted(ext[u], body[u])
      /\ ext \in [Uploads -> ExtType] /\ body \in [Uploads -> BodyType]
  BY UploadIs DEF ArchiveInv, Typed
<1>2. /\ ext[u].pc \in ReadingPc /\ body[u].pos < body[u].got /\ UNCHANGED <<procVars, diskVars, ext>>
      /\ Token(u).t \in {"open", "close"}
  BY DEF DecodeBlock, HasToken, Reading
<1>3. ASSUME NEW blk \in {"header", "inside"}, NEW cl \in BOOLEAN,
             cl => blk = "header" /\ body[u].pos + 1 = body[u].got,
             body' = [body EXCEPT ![u] = [body[u] EXCEPT !.pos = @ + 1, !.block = blk, !.clean = cl]]
      PROVE  \E e, c : Alone(u, e, c)
  <2> DEFINE b == [body[u] EXCEPT !.pos = @ + 1, !.block = blk, !.clean = cl]
  <2>1. /\ b \in BodyType /\ b.trailer = body[u].trailer /\ b.script = body[u].script /\ b.got = body[u].got
        /\ b.pos = body[u].pos + 1 /\ b.block = blk /\ b.clean = cl /\ b.chunk = body[u].chunk
        /\ b.plan = body[u].plan
    <3>1. body[u].pos + 1 \in Nat
      BY <1>1 DEF BodyType
    <3> QED
      BY <1>1, <3>1 DEF BodyType
  <2> HIDE DEF b
  <2>2. BodyShape(b)
    BY <1>1, <1>2, <1>3, <2>1 DEF BodyShape, Shape, BodyType
  <2>3. Cardinality(SeenIn(b)) = Cardinality(SeenIn(body[u]))
    <3>1. b.script[b.pos].t # "member"
      BY <1>2, <2>1 DEF Token
    <3>2. body[u].pos \in Nat
      BY <1>1 DEF BodyType
    <3> QED
      BY <2>1, <3>1, <3>2, SeenNext
  <2>4. Shape(u, ext[u], b) /\ Counted(ext[u], b)
    BY <1>1, <1>2, <2>1, <2>2, <2>3 DEF Shape, Counted, Placed, Early, ReadingPc
  <2>5. ext' = [ext EXCEPT ![u] = ext[u]]
    BY <1>1, <1>2
  <2>6. Alone(u, ext[u], b)
    BY <1>1, <1>2, <1>3, <2>1, <2>4, <2>5, QuietAlone DEF b, ReadingPc
  <2> QED
    BY <2>6
<1>4. CASE /\ Token(u).t = "open" /\ body[u].block = "header"
           /\ body' = [body EXCEPT ![u].pos = @ + 1, ![u].block = "inside"]
  <2>1. body[u].clean = FALSE
    BY <1>1, <1>2 DEF Shape, BodyShape, BodyType
  <2>2. body' = [body EXCEPT ![u] = [body[u] EXCEPT !.pos = @ + 1, !.block = "inside", !.clean = FALSE]]
    BY <1>1, <1>4, <2>1 DEF BodyType
  <2> QED
    BY <1>3, <2>2
<1>5. CASE /\ Token(u).t = "close" /\ body[u].block = "inside"
           /\ body' = [body EXCEPT ![u].pos = @ + 1, ![u].block = "header",
                                   ![u].clean = (body[u].pos + 1 = body[u].got)]
  <2> DEFINE cl == (body[u].pos + 1 = body[u].got)
  <2>1. cl \in BOOLEAN /\ (cl => body[u].pos + 1 = body[u].got)
    OBVIOUS
  <2>2. body' = [body EXCEPT ![u].pos = @ + 1, ![u].block = "header", ![u].clean = cl]
    BY <1>5
  <2> HIDE DEF cl
  <2>3. body' = [body EXCEPT ![u] = [body[u] EXCEPT !.pos = @ + 1, !.block = "header", !.clean = cl]]
    BY <1>1, <2>2 DEF BodyType
  <2> QED
    BY <1>3, <2>1, <2>3
<1> QED
  BY <1>4, <1>5 DEF DecodeBlock

\* A member is read, skipped, or refused by a limit.
LEMMA DecodeMemberAlone ==
  ASSUME ArchiveInv, NEW u \in Uploads, DecodeMember(u)
  PROVE  \E e, c : Alone(u, e, c)
<1> DEFINE b == Further(u, body[u].trailer)
<1>1. /\ ext[u] \in ExtType /\ body[u] \in BodyType
      /\ Shape(u, ext[u], body[u]) /\ Counted(ext[u], body[u])
      /\ ext \in [Uploads -> ExtType] /\ body \in [Uploads -> BodyType]
  BY UploadIs DEF ArchiveInv, Typed
<1>2. /\ ext[u].pc = "entry" /\ HasToken(u) /\ UNCHANGED <<procVars, diskVars>>
      /\ Token(u).t = "member" /\ body' = [body EXCEPT ![u].pos = @ + 1]
      /\ body[u].pos < body[u].got
  BY DEF DecodeMember, HasToken
<1>3. /\ body' = [body EXCEPT ![u] = b]
      /\ b \in BodyType /\ b.trailer = body[u].trailer /\ b.script = body[u].script /\ b.got = body[u].got
      /\ b.pos = body[u].pos + 1 /\ b.block = body[u].block /\ b.chunk = body[u].chunk
      /\ BodyShape(b)
      /\ Cardinality(SeenIn(b)) = IF Wanted(Token(u))
                                  THEN Cardinality(SeenIn(body[u])) + 1 ELSE Cardinality(SeenIn(body[u]))
  BY <1>2, FurtherStays, FurtherIs
<1>4. Token(u).size \in Nat
  <2>1. body[u].pos + 1 \in 1..Len(body[u].script) /\ body[u].script \in Scripts
    BY <1>1, <1>2, UploadIs DEF BodyType, Shape, BodyShape
  <2> QED
    BY <1>2, <2>1, ScriptIs DEF Token
<1> HIDE DEF b
<1> DEFINE check == MemberCheck(u, Token(u))
<1>5. CASE check = "limit"
  <2>1. Fail(u, "limit") /\ "limit" \in Results \ {"ok"} /\ ext[u].pc \in Working
    BY <1>2, <1>5 DEF DecodeMember, Results, Working, ReadingPc
  <2> QED
    BY <1>2, <1>3, <2>1, FailAlone
<1>6. ASSUME NEW p \in {"skip", "create"}, NEW n \in Nat,
             ext' = [ext EXCEPT ![u] = [ext[u] EXCEPT !.pc = p, !.count = @ + 1, !.bytes = n]],
             n <= ByteLimit, ext[u].count + 1 <= MaxMembers, p = "create" <=> Wanted(Token(u))
      PROVE  \E e, c : Alone(u, e, c)
  <2> DEFINE e == [ext[u] EXCEPT !.pc = p, !.count = @ + 1, !.bytes = n]
  <2>1. /\ e \in ExtType /\ e.pc = p /\ e.stored = ext[u].stored /\ e.pending = ext[u].pending
        /\ e.cur = ext[u].cur /\ e.unterminated = ext[u].unterminated /\ e.cand = ext[u].cand
        /\ e.count = ext[u].count + 1
    <3>1. p \in PcValues /\ n \in 0..ByteLimit /\ ext[u].count + 1 \in 0..MaxMembers
      BY <1>1, <1>6, ArchiveConstants DEF PcValues, ReadingPc, ExtType
    <3> QED
      BY <1>1, <3>1 DEF ExtType
  <2>2. ext' = [ext EXCEPT ![u] = e]
    BY <1>6
  <2> HIDE DEF e
  <2>3. Shape(u, e, b)
    BY <1>1, <1>2, <1>3, <2>1 DEF Shape, Placed, Early, ExtType
  <2>4. Counted(e, b)
    BY <1>1, <1>2, <1>3, <1>6, <2>1 DEF Counted, Placed
  <2>5. Alone(u, e, b)
    BY <1>2, <1>3, <2>1, <2>2, <2>3, <2>4, QuietAlone
  <2> QED
    BY <2>5
<1>7. CASE check = "skip"
  <2>1. ext' = [ext EXCEPT ![u].pc = "skip", ![u].count = @ + 1]
    BY <1>7 DEF DecodeMember
  <2>2. ext' = [ext EXCEPT ![u] = [ext[u] EXCEPT !.pc = "skip", !.count = @ + 1, !.bytes = ext[u].bytes]]
    BY <1>1, <2>1 DEF ExtType
  <2>3. ~Wanted(Token(u)) /\ ext[u].count + 1 <= MaxMembers /\ ext[u].bytes \in Nat /\ ext[u].bytes <= ByteLimit
    BY <1>1, <1>7, ArchiveConstants DEF MemberCheck, ExtType
  <2> QED
    BY <1>6, <2>2, <2>3
<1>8. CASE check \notin {"limit", "skip"}
  <2>1. ext' = [ext EXCEPT ![u].pc = "create", ![u].count = @ + 1, ![u].bytes = @ + Token(u).size]
    BY <1>8 DEF DecodeMember
  <2> DEFINE n == ext[u].bytes + Token(u).size
  <2>2. Wanted(Token(u)) /\ ext[u].count + 1 <= MaxMembers /\ n \in Nat /\ n <= ByteLimit
    BY <1>1, <1>4, <1>8, ArchiveConstants DEF MemberCheck, ExtType
  <2>3. ext' = [ext EXCEPT ![u] = [ext[u] EXCEPT !.pc = "create", !.count = @ + 1, !.bytes = n]]
    BY <1>1, <2>1 DEF ExtType
  <2> HIDE DEF n
  <2> QED
    BY <1>6, <2>2, <2>3
<1> QED
  BY <1>5, <1>7, <1>8

LEMMA DecodeTailAlone ==
  ASSUME ArchiveInv, NEW u \in Uploads, DecodeTrailer(u) \/ DecodePadding(u) \/ DecodeGarbage(u)
  PROVE  \E e, c : Alone(u, e, c)
<1>1. /\ ext[u] \in ExtType /\ body[u] \in BodyType
      /\ Shape(u, ext[u], body[u]) /\ Counted(ext[u], body[u])
      /\ ext \in [Uploads -> ExtType] /\ body \in [Uploads -> BodyType]
  BY UploadIs DEF ArchiveInv, Typed
<1>2. /\ ext[u].pc \in ReadingPc /\ HasToken(u) /\ UNCHANGED <<procVars, diskVars>>
      /\ Token(u).t # "member"
  BY DEF DecodeTrailer, DecodePadding, DecodeGarbage, HasToken, Reading
<1>3. CASE DecodeTrailer(u)
  <2> DEFINE b == Further(u, TRUE)
             e == [ext[u] EXCEPT !.pc = "rest"]
  <2>1. body' = [body EXCEPT ![u] = b] /\ ext' = [ext EXCEPT ![u] = e] /\ ext[u].pc = "entry"
    BY <1>1, <1>3 DEF DecodeTrailer, BodyType, ExtType, Further
  <2>2. b \in BodyType /\ b.trailer = TRUE /\ BodyShape(b) /\ Cardinality(SeenIn(b)) = Cardinality(SeenIn(body[u]))
    BY <1>2, FurtherIs
  <2>3. /\ e \in ExtType /\ e.pc = "rest" /\ e.stored = ext[u].stored /\ e.pending = ext[u].pending
        /\ e.cur = ext[u].cur /\ e.unterminated = ext[u].unterminated /\ e.cand = ext[u].cand
    <3>1. "rest" \in PcValues
      BY DEF PcValues, ReadingPc
    <3> QED
      BY <1>1, <3>1 DEF ExtType
  <2> HIDE DEF b, e
  <2>4. Shape(u, e, b) /\ Counted(e, b)
    BY <1>1, <2>1, <2>2, <2>3 DEF Shape, Counted, Placed, Early
  <2>5. Alone(u, e, b)
    BY <1>2, <2>1, <2>2, <2>3, <2>4, QuietAlone
  <2> QED
    BY <2>5
<1>4. CASE DecodePadding(u)
  <2> DEFINE b == Further(u, body[u].trailer)
  <2>1. ext' = [ext EXCEPT ![u] = ext[u]] /\ ext[u].pc = "rest" /\ body' = [body EXCEPT ![u].pos = @ + 1]
    BY <1>1, <1>4 DEF DecodePadding
  <2>2. /\ body' = [body EXCEPT ![u] = b] /\ b \in BodyType /\ b.trailer = body[u].trailer /\ BodyShape(b)
        /\ Cardinality(SeenIn(b)) = Cardinality(SeenIn(body[u]))
    BY <1>2, <2>1, FurtherIs, FurtherStays
  <2> HIDE DEF b
  <2>3. Shape(u, ext[u], b) /\ Counted(ext[u], b)
    BY <1>1, <2>1, <2>2 DEF Shape, Counted, Placed, Early
  <2>4. Alone(u, ext[u], b)
    BY <1>1, <1>2, <2>1, <2>2, <2>3, QuietAlone
  <2> QED
    BY <2>4
<1>5. CASE DecodeGarbage(u)
  <2> DEFINE b == Further(u, body[u].trailer)
  <2>1. Fail(u, "invalid") /\ body' = [body EXCEPT ![u].pos = @ + 1] /\ "invalid" \in Results \ {"ok"}
    BY <1>5 DEF DecodeGarbage, Results
  <2>2. body' = [body EXCEPT ![u] = b] /\ b \in BodyType /\ b.trailer = body[u].trailer /\ BodyShape(b)
    BY <1>2, <2>1, FurtherIs, FurtherStays
  <2>3. ext[u].pc \in Working
    BY <1>2 DEF Working
  <2> HIDE DEF b
  <2> QED
    BY <1>2, <2>1, <2>2, <2>3, FailAlone
<1> QED
  BY <1>3, <1>4, <1>5

-----------------------------------------------------------------------------
(* Hidden files: created, registered, written, dropped. *)

\* A step of upload u that changes no visible file and only hidden files of its own.
LEMMA HiddenAlone ==
  ASSUME ArchiveInv, NEW u \in Uploads, NEW e \in ExtType, NEW b \in BodyType,
         ext' = [ext EXCEPT ![u] = e], body' = [body EXCEPT ![u] = b],
         UNCHANGED <<procVars, dest>>,
         temps' \subseteq Temps, registry' \subseteq Temps,
         \A t \in Temps : t[1] # u => (t \in temps' <=> t \in temps) /\ (t \in registry' <=> t \in registry),
         ext[u].pc \notin {"forget", "gone"}, e.pc \notin {"forget", "gone"},
         e.stored = ext[u].stored, Shape(u, e, b), Counted(e, b),
         proc = "run" => Keeps(u, e, temps', registry')
  PROVE  Alone(u, e, b)
<1>1. Shows(e, Visible(u))
  BY UploadIs DEF Shows
<1>2. \A d \in Uploads : Visible(d)' = Visible(d)
  BY DEF Visible
<1>3. dest' \in [DOMAIN dest' -> Uploads \union {"user"}]
  BY DEF ArchiveInv, Typed
<1> QED
  BY <1>1, <1>2, <1>3 DEF Alone, UploadInv, procVars

LEMMA CreateAlone ==
  ASSUME ArchiveInv, NEW u \in Uploads, CreateTemp(u)
  PROVE  \E e, c : Alone(u, e, c)
<1>1. /\ ext[u] \in ExtType /\ body[u] \in BodyType
      /\ Shape(u, ext[u], body[u]) /\ Counted(ext[u], body[u])
      /\ proc = "run" => Keeps(u, ext[u], temps, registry)
      /\ ext \in [Uploads -> ExtType] /\ body \in [Uploads -> BodyType]
      /\ temps \subseteq Temps /\ registry \subseteq Temps
  BY UploadIs DEF ArchiveInv, Typed
<1>2. ext[u].pc = "create" /\ UNCHANGED <<procVars, dest, registry, body>>
  BY DEF CreateTemp
<1>3. body' = [body EXCEPT ![u] = body[u]]
  BY <1>1, <1>2
<1>4. CASE Fail(u, "io") /\ UNCHANGED temps
  <2>1. BodyShape(body[u]) /\ "io" \in Results \ {"ok"} /\ ext[u].pc \in Working
    BY <1>1, <1>2 DEF Shape, Results, Working
  <2> QED
    BY <1>1, <1>2, <1>3, <1>4, <2>1, FailAlone DEF diskVars
<1>5. CASE LET t == <<u, ext[u].count>> IN
           /\ temps' = temps \union {t}
           /\ ext' = [ext EXCEPT ![u].pc = "register", ![u].cur = t]
  <2> DEFINE t == <<u, ext[u].count>>
             e == [ext[u] EXCEPT !.pc = "register", !.cur = t]
  <2>1. t \in Temps /\ t[1] = u /\ t # NoTemp /\ temps' = temps \union {t}
    <3>1. ext[u].count \in 1..MaxMembers /\ ext[u].count # 0
      BY <1>1, <1>2, ArchiveConstants DEF Shape, ExtType
    <3> QED
      BY <1>5, <3>1 DEF Temps, NoTemp
  <2>2. ext' = [ext EXCEPT ![u].pc = "register", ![u].cur = t]
    BY <1>5
  <2> HIDE DEF t
  <2>3. ext' = [ext EXCEPT ![u] = e]
    BY <1>1, <2>2 DEF ExtType
  <2>4. /\ e \in ExtType /\ e.pc = "register" /\ e.stored = ext[u].stored /\ e.pending = ext[u].pending
        /\ e.cur = t /\ e.unterminated = ext[u].unterminated /\ e.cand = ext[u].cand
    <3>1. "register" \in PcValues
      BY DEF PcValues
    <3> QED
      BY <1>1, <2>1, <3>1 DEF ExtType
  <2> HIDE DEF e
  <2>5. Shape(u, e, body[u]) /\ Counted(e, body[u])
    BY <1>1, <1>2, <2>1, <2>4 DEF Shape, Counted, Placed, Early
  <2>6. proc = "run" => Keeps(u, e, temps', registry)
    <3> SUFFICES ASSUME proc = "run" PROVE Keeps(u, e, temps', registry)
      OBVIOUS
    <3>1. Keeps(u, ext[u], temps, registry)
      BY <1>1
    <3>2. ext[u].cur = NoTemp
      BY <1>1, <1>2 DEF Shape
    <3>3. NoTemp \notin temps \union registry
      BY <1>1, ArchiveConstants DEF Temps, NoTemp
    <3> QED
      BY <1>2, <2>1, <2>4, <3>1, <3>2, <3>3 DEF Keeps, Holds
  <2>7. temps' \subseteq Temps /\ \A x \in Temps : x[1] # u => (x \in temps' <=> x \in temps)
    BY <1>1, <2>1
  <2>8. Alone(u, e, body[u])
    BY <1>1, <1>2, <1>3, <2>3, <2>4, <2>5, <2>6, <2>7, HiddenAlone
  <2> QED
    BY <2>8
<1> QED
  BY <1>4, <1>5 DEF CreateTemp

LEMMA RegisterAlone ==
  ASSUME ArchiveInv, NEW u \in Uploads, RegisterTemp(u)
  PROVE  \E e, c : Alone(u, e, c)
<1>1. /\ ext[u] \in ExtType /\ body[u] \in BodyType
      /\ Shape(u, ext[u], body[u]) /\ Counted(ext[u], body[u])
      /\ proc = "run" => Keeps(u, ext[u], temps, registry)
      /\ ext \in [Uploads -> ExtType] /\ body \in [Uploads -> BodyType]
      /\ temps \subseteq Temps /\ registry \subseteq Temps
  BY UploadIs DEF ArchiveInv, Typed
<1> DEFINE e == [ext[u] EXCEPT !.pc = "write"]
<1>2. /\ ext[u].pc = "register" /\ UNCHANGED <<procVars, dest, temps, body>>
      /\ registry' = registry \union {ext[u].cur}
  BY DEF RegisterTemp
<1>3. body' = [body EXCEPT ![u] = body[u]] /\ ext' = [ext EXCEPT ![u] = e]
  BY <1>1, <1>2 DEF RegisterTemp, ExtType
<1>4. /\ e \in ExtType /\ e.pc = "write" /\ e.stored = ext[u].stored /\ e.pending = ext[u].pending
      /\ e.cur = ext[u].cur /\ e.unterminated = ext[u].unterminated /\ e.cand = ext[u].cand
  <2>1. "write" \in PcValues
    BY DEF PcValues, ReadingPc
  <2> QED
    BY <1>1, <2>1 DEF ExtType
<1> HIDE DEF e
<1>5. ext[u].cur \in Temps /\ ext[u].cur[1] = u
  BY <1>1, <1>2 DEF Shape, ExtType
<1>6. Shape(u, e, body[u]) /\ Counted(e, body[u])
  BY <1>1, <1>2, <1>4 DEF Shape, Counted, Placed, Early
<1>7. proc = "run" => Keeps(u, e, temps, registry')
  BY <1>1, <1>2, <1>4, <1>5 DEF Keeps, Holds
<1>8. registry' \subseteq Temps /\ \A x \in Temps : x[1] # u => (x \in registry' <=> x \in registry)
  BY <1>1, <1>2, <1>5
<1>9. Alone(u, e, body[u])
  BY <1>1, <1>2, <1>3, <1>4, <1>6, <1>7, <1>8, HiddenAlone
<1> QED
  BY <1>9

-----------------------------------------------------------------------------
(* What an upload's names are. *)

\* The paths of the members sent, and the names made of them.
LEMMA PathIs ==
  ASSUME NEW s \in Scripts, NEW i \in 1..Len(s), s[i].t = "member"
  PROVE  s[i].path \in Paths
<1>1. PICK b \in SentBodies : s = b.script
  BY DEF Scripts
<1>2. i \in MembersOf(b.script)
  BY <1>1 DEF MembersOf
<1> QED
  BY <1>1, <1>2 DEF Paths, SentBodies

LEMMA NameIs ==
  ASSUME NEW n \in Names
  PROVE  Safe(n) /\ \A k \in 0..Candidates : CandidateNames[n][k] = Candidate(n, k)
<1>1. PICK p \in Paths : n = SafeNames[p]
  BY DEF Names
<1>2. p \in Seq(STRING)
  BY ArchiveConstants DEF Paths, MembersOf
<1>3. SafeNames[p] = SafeName(p)
  BY DEF SafeNames
<1>4. Safe(n)
  BY <1>1, <1>2, <1>3, SafeNameIs
<1>5. CandidateNames[n] = [k \in 0..Candidates |-> Candidate(n, k)]
  BY <1>1 DEF CandidateNames
<1> QED
  BY <1>4, <1>5

\* While a member's data is written, one has been decoded.
LEMMA LastIs ==
  ASSUME ArchiveInv, NEW u \in Uploads, ext[u].pc = "write"
  PROVE  LastMember(u).path \in Paths
<1> DEFINE b    == body[u]
           seen == {i \in 1..b.pos : b.script[i].t = "member"}
<1>1. /\ b \in BodyType /\ Shape(u, ext[u], b) /\ Counted(ext[u], b) /\ ext[u] \in ExtType
      /\ Cardinality(SeenIn(b)) \in Nat /\ Len(b.script) \in Nat
  BY UploadIs
<1>2. b.script \in Scripts /\ b.pos \in Nat /\ b.got \in Nat
  BY <1>1 DEF BodyType
<1>3. b.pos <= Len(b.script)
  BY <1>1, <1>2 DEF Shape, BodyShape
<1>4. seen # {}
  <2>1. Len(ext[u].pending) \in Nat
    BY <1>1 DEF ExtType
  <2>2. Cardinality(SeenIn(b)) # 0
    BY <1>1, <2>1 DEF Counted
  <2>3. SeenIn(b) # {}
    BY <2>2, FS_EmptySet
  <2> QED
    BY <2>3 DEF SeenIn
<1>5. LastMember(u) = b.script[CHOOSE i \in seen : \A j \in seen : j <= i]
  BY DEF LastMember
<1>6. seen \in SUBSET (1..b.pos)
  OBVIOUS
<1>7. (CHOOSE i \in seen : \A j \in seen : j <= i) \in seen
  <2> HIDE DEF seen
  <2> QED
    BY <1>2, <1>4, <1>6, EndsOf
<1>8. PICK i \in seen : LastMember(u) = b.script[i]
  BY <1>5, <1>7
<1>9. i \in 1..Len(b.script) /\ b.script[i].t = "member"
  BY <1>1, <1>2, <1>3, <1>8
<1> HIDE DEF seen, b
<1> QED
  BY <1>2, <1>8, <1>9, PathIs

LEMMA DecodeDataAlone ==
  ASSUME ArchiveInv, NEW u \in Uploads, DecodeData(u)
  PROVE  \E e, c : Alone(u, e, c)
<1> DEFINE b == Further(u, body[u].trailer)
<1>1. /\ ext[u] \in ExtType /\ body[u] \in BodyType
      /\ Shape(u, ext[u], body[u]) /\ Counted(ext[u], body[u])
      /\ proc = "run" => Keeps(u, ext[u], temps, registry)
      /\ ext \in [Uploads -> ExtType] /\ body \in [Uploads -> BodyType]
      /\ temps \subseteq Temps /\ registry \subseteq Temps
  BY UploadIs DEF ArchiveInv, Typed
<1>2. /\ ext[u].pc \in {"write", "skip"} /\ HasToken(u) /\ Token(u).t = "data"
      /\ body' = [body EXCEPT ![u].pos = @ + 1] /\ UNCHANGED <<procVars, diskVars>>
  BY DEF DecodeData
<1>3. /\ body' = [body EXCEPT ![u] = b] /\ b \in BodyType /\ b.trailer = body[u].trailer /\ BodyShape(b)
      /\ Cardinality(SeenIn(b)) = Cardinality(SeenIn(body[u]))
  BY <1>2, FurtherIs, FurtherStays
<1> HIDE DEF b
<1>4. CASE ext[u].pc = "skip" /\ ext' = [ext EXCEPT ![u].pc = "entry"]
  <2> DEFINE e == [ext[u] EXCEPT !.pc = "entry"]
  <2>1. ext' = [ext EXCEPT ![u] = e]
    BY <1>1, <1>4 DEF ExtType
  <2>2. /\ e \in ExtType /\ e.pc = "entry" /\ e.stored = ext[u].stored /\ e.pending = ext[u].pending
        /\ e.cur = ext[u].cur /\ e.unterminated = ext[u].unterminated /\ e.cand = ext[u].cand
    <3>1. "entry" \in PcValues
      BY DEF PcValues, ReadingPc
    <3> QED
      BY <1>1, <3>1 DEF ExtType
  <2> HIDE DEF e
  <2>3. Shape(u, e, b) /\ Counted(e, b)
    BY <1>1, <1>3, <1>4, <2>2 DEF Shape, Counted, Placed, Early
  <2>4. Alone(u, e, b)
    BY <1>2, <1>3, <1>4, <2>1, <2>2, <2>3, QuietAlone
  <2> QED
    BY <2>4
<1>5. ASSUME NEW why \in {"limit", "io"}, Fail(u, why)
      PROVE  \E e, c : Alone(u, e, c)
  <2>1. why \in Results \ {"ok"} /\ ext[u].pc \in Working
    BY <1>2 DEF Results, Working, ReadingPc
  <2> QED
    BY <1>2, <1>3, <1>5, <2>1, FailAlone
<1>6. ASSUME ext[u].pc = "write",
             ext' = [ext EXCEPT ![u].pc = "entry", ![u].cur = NoTemp,
                       ![u].pending = Append(@, [name |-> SafeNames[LastMember(u).path], temp |-> ext[u].cur])]
      PROVE  \E e, c : Alone(u, e, c)
  <2> DEFINE item == [name |-> SafeNames[LastMember(u).path], temp |-> ext[u].cur]
             more == Append(ext[u].pending, item)
             e    == [ext[u] EXCEPT !.pc = "entry", !.cur = NoTemp, !.pending = more]
  <2>1. ext[u].cur \in Temps /\ ext[u].cur[1] = u
    BY <1>1, <1>6 DEF Shape, ExtType
  <2>2. LastMember(u).path \in Paths
    BY <1>6, LastIs
  <2>3. SafeNames[LastMember(u).path] \in Names
    BY <2>2 DEF Names
  <2>4. item \in [name : Names, temp : Temps] /\ item.temp = ext[u].cur
    BY <2>1, <2>3
  <2> HIDE DEF item
  <2>5. ext[u].pending \in Seq([name : Names, temp : Temps])
    BY <1>1 DEF ExtType
  <2>6. /\ more \in Seq([name : Names, temp : Temps]) /\ Len(more) = Len(ext[u].pending) + 1
        /\ \A i \in 1..Len(ext[u].pending) : more[i] = ext[u].pending[i]
        /\ more[Len(ext[u].pending) + 1] = item
        /\ Len(ext[u].pending) \in Nat
    BY <2>4, <2>5
  <2>7. ext' = [ext EXCEPT ![u].pc = "entry", ![u].cur = NoTemp, ![u].pending = more]
    BY <1>1, <1>6 DEF ExtType, item
  <2> HIDE DEF more
  <2>8. ext' = [ext EXCEPT ![u] = e]
    BY <1>1, <2>7 DEF ExtType
  <2>9. /\ e \in ExtType /\ e.pc = "entry" /\ e.stored = ext[u].stored /\ e.pending = more
        /\ e.cur = NoTemp /\ e.unterminated = ext[u].unterminated /\ e.cand = ext[u].cand
    <3>1. "entry" \in PcValues
      BY DEF PcValues, ReadingPc
    <3> QED
      BY <1>1, <2>6, <3>1 DEF ExtType
  <2> HIDE DEF e
  <2>10. \A i \in 1..Len(e.pending) : e.pending[i].temp[1] = u
    BY <1>1, <2>1, <2>4, <2>6, <2>9 DEF Shape
  <2>11. Shape(u, e, b)
    BY <1>1, <1>3, <1>6, <2>9, <2>10 DEF Shape, Placed, Early
  <2>12. Counted(e, b)
    BY <1>1, <1>3, <1>6, <2>6, <2>9 DEF Counted, Placed
  <2>13. \A t : Holds(ext[u], t) => Holds(e, t)
    <3> SUFFICES ASSUME NEW t, Holds(ext[u], t) PROVE Holds(e, t)
      OBVIOUS
    <3>1. CASE ext[u].cur = t
      <4>1. Len(ext[u].pending) + 1 \in 1..Len(e.pending) /\ e.pending[Len(ext[u].pending) + 1].temp = t
        BY <2>4, <2>6, <2>9, <3>1
      <4> QED
        BY <4>1 DEF Holds
    <3>2. CASE \E i \in 1..Len(ext[u].pending) : ext[u].pending[i].temp = t
      <4>1. PICK i \in 1..Len(ext[u].pending) : ext[u].pending[i].temp = t
        BY <3>2
      <4>2. i \in 1..Len(e.pending) /\ e.pending[i].temp = t
        BY <2>6, <2>9, <4>1
      <4> QED
        BY <4>2 DEF Holds
    <3> QED
      BY <3>1, <3>2 DEF Holds
  <2>14. proc = "run" => Keeps(u, e, temps, registry)
    BY <1>1, <1>6, <2>9, <2>13 DEF Keeps
  <2>15. Alone(u, e, b)
    BY <1>1, <1>2, <1>3, <1>6, <2>8, <2>9, <2>11, <2>12, <2>14, HiddenAlone DEF diskVars
  <2> QED
    BY <2>15
<1> QED
  BY <1>4, <1>5, <1>6 DEF DecodeData

-----------------------------------------------------------------------------
(* Publication, roll-back and clean-up, step by step. *)

\* NoTemp is no hidden file.
LEMMA NoTempIs == NoTemp \notin Temps
BY ArchiveConstants DEF Temps, NoTemp

\* The first pending file, and what the upload holds without it.
LEMMA PendingIs ==
  ASSUME ArchiveInv, NEW u \in Uploads, ext[u].pending # <<>>
  PROVE  LET q    == ext[u].pending
             rest == Tail(ext[u].pending)
         IN  /\ Head(q).name \in Names /\ Head(q).temp \in Temps /\ Head(q).temp[1] = u
             /\ rest \in Seq([name : Names, temp : Temps]) /\ Len(rest) = Len(q) - 1 /\ Len(q) \in Nat
             /\ \A i \in 1..Len(rest) : rest[i].temp[1] = u
             /\ \A t : Holds(ext[u], t) =>
                   t = ext[u].cur \/ t = Head(q).temp \/ \E i \in 1..Len(rest) : rest[i].temp = t
<1> DEFINE q    == ext[u].pending
           rest == Tail(ext[u].pending)
<1>1. q \in Seq([name : Names, temp : Temps]) /\ \A i \in 1..Len(q) : q[i].temp[1] = u
  BY UploadIs DEF ExtType, Shape
<1>2. /\ 1 \in 1..Len(q) /\ Head(q) = q[1] /\ q[1] \in [name : Names, temp : Temps]
      /\ rest \in Seq([name : Names, temp : Temps]) /\ Len(rest) = Len(q) - 1
      /\ \A i \in 1..(Len(q) - 1) : rest[i] = q[i + 1]
  BY <1>1, HeadIs
<1>3. Len(q) \in Nat
  BY <1>1
<1>4. \A t : Holds(ext[u], t) => t = ext[u].cur \/ \E i \in 1..Len(q) : q[i].temp = t
  BY DEF Holds
<1> HIDE DEF q, rest
<1>5. \A i \in 1..Len(rest) : rest[i].temp[1] = u
  BY <1>1, <1>2, <1>3
<1>6. ASSUME NEW t, Holds(ext[u], t), t # ext[u].cur, t # Head(q).temp
      PROVE  \E i \in 1..Len(rest) : rest[i].temp = t
  <2>1. PICK i \in 1..Len(q) : q[i].temp = t
    BY <1>4, <1>6
  <2>2. i - 1 \in 1..Len(rest) /\ rest[i - 1] = q[i]
    BY <1>2, <1>3, <1>6, <2>1
  <2> QED
    BY <2>1, <2>2
<1>7. Head(q).name \in Names /\ Head(q).temp \in Temps /\ Head(q).temp[1] = u
  BY <1>1, <1>2
<1> QED
  BY <1>2, <1>3, <1>5, <1>6, <1>7 DEF q, rest

LEMMA PlaceAlone ==
  ASSUME ArchiveInv, NEW u \in Uploads, Place(u)
  PROVE  \E e, c : Alone(u, e, c)
<1>1. /\ ext[u] \in ExtType /\ body[u] \in BodyType
      /\ Shape(u, ext[u], body[u]) /\ Counted(ext[u], body[u]) /\ Shows(ext[u], Visible(u))
      /\ proc = "run" => Keeps(u, ext[u], temps, registry)
      /\ ext \in [Uploads -> ExtType] /\ body \in [Uploads -> BodyType]
      /\ temps \subseteq Temps /\ registry \subseteq Temps
      /\ dest \in [DOMAIN dest -> Uploads \union {"user"}]
  BY UploadIs DEF ArchiveInv, Typed
<1>2. ext[u].pc = "place" /\ UNCHANGED <<procVars, registry, body>>
  BY DEF Place
<1>3. body' = [body EXCEPT ![u] = body[u]]
  BY <1>1, <1>2
<1>4. CASE Fail(u, "io") /\ UNCHANGED <<dest, temps>>
  <2>1. BodyShape(body[u]) /\ "io" \in Results \ {"ok"} /\ ext[u].pc \in Working
    BY <1>1, <1>2 DEF Shape, Results, Working
  <2> QED
    BY <1>1, <1>2, <1>3, <1>4, <2>1, FailAlone DEF diskVars
<1>5. ASSUME ext[u].pending = <<>>, ext' = [ext EXCEPT ![u].pc = "over", ![u].result = "ok"],
             UNCHANGED <<dest, temps>>
      PROVE  \E e, c : Alone(u, e, c)
  <2> DEFINE e == [ext[u] EXCEPT !.pc = "over", !.result = "ok"]
  <2>1. ext' = [ext EXCEPT ![u] = e]
    BY <1>1, <1>5 DEF ExtType
  <2>2. /\ e \in ExtType /\ e.pc = "over" /\ e.result = "ok" /\ e.stored = ext[u].stored
        /\ e.pending = ext[u].pending /\ e.cur = ext[u].cur /\ e.unterminated = ext[u].unterminated
    <3>1. "over" \in PcValues /\ "ok" \in Results
      BY DEF PcValues, Results
    <3> QED
      BY <1>1, <3>1 DEF ExtType
  <2> HIDE DEF e
  <2>3. Shape(u, e, body[u]) /\ Counted(e, body[u])
    BY <1>1, <1>2, <1>5, <2>2 DEF Shape, Counted, Placed, Early
  <2>4. Alone(u, e, body[u])
    BY <1>1, <1>2, <1>3, <1>5, <2>1, <2>2, <2>3, QuietAlone DEF diskVars
  <2> QED
    BY <2>4
<1>6. ASSUME ext[u].cand # Candidates, ext' = [ext EXCEPT ![u].cand = @ + 1], UNCHANGED <<dest, temps>>
      PROVE  \E e, c : Alone(u, e, c)
  <2> DEFINE e == [ext[u] EXCEPT !.cand = @ + 1]
  <2>1. ext' = [ext EXCEPT ![u] = e]
    BY <1>1, <1>6 DEF ExtType
  <2>2. /\ e \in ExtType /\ e.pc = "place" /\ e.result = ext[u].result /\ e.stored = ext[u].stored
        /\ e.pending = ext[u].pending /\ e.cur = ext[u].cur /\ e.unterminated = ext[u].unterminated
    <3>1. ext[u].cand + 1 \in 0..Candidates
      BY <1>1, <1>6, ArchiveConstants DEF ExtType
    <3> QED
      BY <1>1, <1>2, <3>1 DEF ExtType
  <2> HIDE DEF e
  <2>3. Shape(u, e, body[u]) /\ Counted(e, body[u])
    BY <1>1, <1>2, <2>2 DEF Shape, Counted, Placed, Early
  <2>4. Alone(u, e, body[u])
    BY <1>1, <1>2, <1>3, <1>6, <2>1, <2>2, <2>3, QuietAlone DEF diskVars
  <2> QED
    BY <2>4
<1> DEFINE p == Head(ext[u].pending)
           n == Given(ext[u])
<1>7. ASSUME ext[u].pending # <<>>, n \notin DOMAIN dest,
             dest' = [m \in DOMAIN dest \union {n} |-> IF m = n THEN u ELSE dest[m]],
             temps' = temps \ {p.temp}, ext' = [ext EXCEPT ![u].pc = "forget"]
      PROVE  \E e, c : Alone(u, e, c)
  <2> DEFINE e == [ext[u] EXCEPT !.pc = "forget"]
  <2>1. ext' = [ext EXCEPT ![u] = e]
    BY <1>1, <1>7 DEF ExtType
  <2>2. /\ e \in ExtType /\ e.pc = "forget" /\ e.result = ext[u].result /\ e.stored = ext[u].stored
        /\ e.pending = ext[u].pending /\ e.cur = ext[u].cur /\ e.unterminated = ext[u].unterminated
        /\ e.cand = ext[u].cand
    <3>1. "forget" \in PcValues
      BY DEF PcValues
    <3> QED
      BY <1>1, <3>1 DEF ExtType
  <2> HIDE DEF e
  <2>3. Given(e) = n
    BY <2>2 DEF Given
  <2> HIDE DEF n
  <2>4. p.temp \in Temps /\ p.temp[1] = u
    BY <1>7, PendingIs
  <2>5. e.pending # <<>> /\ Head(e.pending) = p
    BY <1>7, <2>2
  <2> HIDE DEF p
  <2>6. Shape(u, e, body[u]) /\ Counted(e, body[u])
    BY <1>1, <1>2, <2>2, <2>5 DEF Shape, Counted, Placed, Early
  <2>7. Visible(u)' = Visible(u) \union {n} /\ \A d \in Uploads \ {u} : Visible(d)' = Visible(d)
    BY <1>7 DEF Visible
  <2>8. n \notin Visible(u)
    BY <1>7 DEF Visible
  <2>9. IsFiniteSet(Visible(u)) /\ Cardinality(Visible(u)) = Len(ext[u].stored) /\ Len(ext[u].stored) \in Nat
    BY <1>1, <1>2 DEF Shows, ExtType
  <2>10. IsFiniteSet(Visible(u) \union {n}) /\ Cardinality(Visible(u) \union {n}) = Cardinality(Visible(u)) + 1
    BY <2>8, <2>9, FS_AddElement
  <2>11. Shows(e, Visible(u) \union {n})
    BY <1>1, <1>2, <2>2, <2>3, <2>8, <2>9, <2>10 DEF Shows
  <2>12. proc = "run" => Keeps(u, e, temps', registry)
    BY <1>1, <1>2, <1>7, <2>2, <2>5 DEF Keeps, Holds
  <2>13. temps' \subseteq Temps /\ \A x \in Temps : x[1] # u => (x \in temps' <=> x \in temps)
    BY <1>1, <1>7, <2>4
  <2>14. dest' \in [DOMAIN dest' -> Uploads \union {"user"}]
    BY <1>1, <1>7
  <2>15. UploadInv(u, e, body[u], Visible(u)', temps', registry', proc)
    BY <1>2, <2>6, <2>7, <2>11, <2>12 DEF UploadInv
  <2>16. Alone(u, e, body[u])
    BY <1>1, <1>2, <1>3, <2>1, <2>2, <2>7, <2>13, <2>14, <2>15 DEF Alone
  <2> QED
    BY <2>16
<1>8. CASE ext[u].pending = <<>>
  BY <1>5, <1>8 DEF Place
<1>9. CASE ext[u].pending # <<>>
  <2>1. n = CandidateNames[p.name][ext[u].cand]
    BY DEF Given
  <2>2. IF ext[u].cand = Candidates \/ p.temp \notin temps \/ Len(n) > NameBytes
        THEN Fail(u, "io") /\ UNCHANGED <<dest, temps>>
        ELSE IF n \in DOMAIN dest
        THEN ext' = [ext EXCEPT ![u].cand = @ + 1] /\ UNCHANGED <<dest, temps>>
        ELSE \/ /\ dest' = [m \in DOMAIN dest \union {n} |-> IF m = n THEN u ELSE dest[m]]
                /\ temps' = temps \ {p.temp}
                /\ ext' = [ext EXCEPT ![u].pc = "forget"]
             \/ Fail(u, "io") /\ UNCHANGED <<dest, temps>>
    BY <1>9, <2>1 DEF Place
  <2> HIDE DEF p, n
  <2> QED
    BY <1>4, <1>6, <1>7, <1>9, <2>2
<1> QED
  BY <1>8, <1>9

LEMMA ForgetAlone ==
  ASSUME ArchiveInv, NEW u \in Uploads, Forget(u)
  PROVE  \E e, c : Alone(u, e, c)
<1>1. /\ ext[u] \in ExtType /\ body[u] \in BodyType
      /\ Shape(u, ext[u], body[u]) /\ Counted(ext[u], body[u]) /\ Shows(ext[u], Visible(u))
      /\ proc = "run" => Keeps(u, ext[u], temps, registry)
      /\ ext \in [Uploads -> ExtType] /\ body \in [Uploads -> BodyType]
      /\ temps \subseteq Temps /\ registry \subseteq Temps
      /\ dest \in [DOMAIN dest -> Uploads \union {"user"}]
  BY UploadIs DEF ArchiveInv, Typed
<1>2. ext[u].pc = "forget" /\ UNCHANGED <<procVars, dest, temps, body>>
  BY DEF Forget
<1>3. body' = [body EXCEPT ![u] = body[u]]
  BY <1>1, <1>2
<1>4. ext[u].pending # <<>> /\ ext[u].cur = NoTemp
  BY <1>1, <1>2 DEF Shape
<1> DEFINE p      == Head(ext[u].pending)
           n      == Given(ext[u])
           rest   == Tail(ext[u].pending)
           stored == Append(ext[u].stored, n)
           e      == [ext[u] EXCEPT !.pc = "place", !.pending = rest, !.cand = 0, !.stored = stored]
<1>5. /\ p.name \in Names /\ p.temp \in Temps /\ p.temp[1] = u
      /\ rest \in Seq([name : Names, temp : Temps]) /\ Len(rest) = Len(ext[u].pending) - 1
      /\ Len(ext[u].pending) \in Nat
      /\ \A i \in 1..Len(rest) : rest[i].temp[1] = u
      /\ \A t : Holds(ext[u], t) =>
            t = ext[u].cur \/ t = p.temp \/ \E i \in 1..Len(rest) : rest[i].temp = t
  BY <1>4, PendingIs
<1>6. n \in Shown
  BY <1>1, <1>5 DEF Shown, Given, ExtType
<1>7. /\ ext' = [ext EXCEPT ![u].pc = "place", ![u].pending = rest, ![u].cand = 0, ![u].stored = stored]
      /\ registry' = registry \ {p.temp}
  BY <1>1 DEF Forget, Given, ExtType
<1>8. /\ IsFiniteSet(Visible(u)) /\ IsInjective(ext[u].stored) /\ ToSet(ext[u].stored) \subseteq Visible(u)
      /\ n \in Visible(u) /\ n \notin ToSet(ext[u].stored)
      /\ Cardinality(Visible(u)) = Len(ext[u].stored) + 1
      /\ ext[u].stored \in Seq(Shown) /\ Len(ext[u].stored) \in Nat
  BY <1>1, <1>2 DEF Shows, ExtType
<1> HIDE DEF n
<1>9. /\ stored \in Seq(Shown) /\ IsInjective(stored) /\ ToSet(stored) = ToSet(ext[u].stored) \union {n}
      /\ Len(stored) = Len(ext[u].stored) + 1 /\ stored # <<>>
  BY <1>6, <1>8, AppendIs, AppendProperties
<1> HIDE DEF p, rest, stored
<1>10. ext' = [ext EXCEPT ![u] = e]
  BY <1>1, <1>7 DEF ExtType
<1>11. /\ e \in ExtType /\ e.pc = "place" /\ e.result = ext[u].result /\ e.stored = stored
       /\ e.pending = rest /\ e.cur = ext[u].cur /\ e.unterminated = ext[u].unterminated
  <2>1. "place" \in PcValues /\ 0 \in 0..Candidates
    BY ArchiveConstants DEF PcValues
  <2> QED
    BY <1>1, <1>5, <1>9, <2>1 DEF ExtType
<1> HIDE DEF e
<1>12. Shape(u, e, body[u])
  BY <1>1, <1>2, <1>5, <1>11 DEF Shape, Placed, Early
<1>13. Counted(e, body[u])
  <2>1. Cardinality(SeenIn(body[u])) = Len(ext[u].pending) + Len(ext[u].stored)
    BY <1>1, <1>2 DEF Counted, Placed
  <2>2. Len(e.pending) = Len(ext[u].pending) - 1 /\ Len(ext[u].pending) \in Nat
    BY <1>5, <1>11
  <2>3. Len(e.stored) = Len(ext[u].stored) + 1 /\ Len(ext[u].stored) \in Nat
    BY <1>8, <1>9, <1>11
  <2>4. Cardinality(SeenIn(body[u])) \in Nat
    BY UploadIs
  <2> DEFINE seen == Cardinality(SeenIn(body[u]))
             i == Len(ext[u].pending)
             j == Len(ext[u].stored)
             k == Len(e.pending)
             l == Len(e.stored)
  <2>5. seen = i + j /\ k = i - 1 /\ l = j + 1 /\ i \in Nat /\ j \in Nat
    BY <2>1, <2>2, <2>3
  <2> HIDE DEF seen, i, j, k, l
  <2>6. seen = k + l
    BY <2>5
  <2>7. Placed(e) => Cardinality(SeenIn(body[u])) = Len(e.pending) + Len(e.stored)
    BY <2>6 DEF seen, k, l
  <2> QED
    BY <1>11, <2>7 DEF Counted
<1>14. Shows(e, Visible(u))
  BY <1>8, <1>9, <1>11 DEF Shows
<1>15. proc = "run" => Keeps(u, e, temps, registry')
  <2> SUFFICES ASSUME proc = "run" PROVE Keeps(u, e, temps, registry')
    OBVIOUS
  <2>1. Keeps(u, ext[u], temps, registry) /\ p.temp \notin temps
    BY <1>1, <1>2 DEF Keeps, p
  <2>2. NoTemp \notin temps \union registry
    BY <1>1, NoTempIs
  <2>3. ASSUME NEW t \in temps \union registry', t[1] = u PROVE Holds(e, t)
    <3>1. Holds(ext[u], t) /\ t # NoTemp /\ t # p.temp
      BY <1>7, <2>1, <2>2, <2>3 DEF Keeps
    <3> QED
      BY <1>4, <1>5, <1>11, <3>1 DEF Holds
  <2>4. ASSUME NEW t \in temps \ registry', t[1] = u PROVE FALSE
    BY <1>2, <1>7, <2>1, <2>4 DEF Keeps
  <2> QED
    BY <1>11, <2>3, <2>4 DEF Keeps
<1>16. /\ registry' \subseteq Temps /\ temps' \subseteq Temps /\ temps' = temps
       /\ \A x \in Temps : x[1] # u => (x \in registry' <=> x \in registry)
  BY <1>1, <1>2, <1>5, <1>7
<1>17. dest' \in [DOMAIN dest' -> Uploads \union {"user"}] /\ \A d \in Uploads : Visible(d)' = Visible(d)
  BY <1>1, <1>2 DEF Visible
<1>18. UploadInv(u, e, body[u], Visible(u)', temps', registry', proc)
  BY <1>12, <1>13, <1>14, <1>15, <1>16, <1>17 DEF UploadInv
<1>19. Alone(u, e, body[u])
  BY <1>1, <1>2, <1>3, <1>10, <1>11, <1>16, <1>17, <1>18 DEF Alone
<1> QED
  BY <1>19

LEMMA DropCurrentAlone ==
  ASSUME ArchiveInv, NEW u \in Uploads, DropCurrent(u)
  PROVE  \E e, c : Alone(u, e, c)
<1> DEFINE t == ext[u].cur
<1>1. /\ ext[u] \in ExtType /\ body[u] \in BodyType
      /\ Shape(u, ext[u], body[u]) /\ Counted(ext[u], body[u])
      /\ proc = "run" => Keeps(u, ext[u], temps, registry)
      /\ ext \in [Uploads -> ExtType] /\ body \in [Uploads -> BodyType]
      /\ temps \subseteq Temps /\ registry \subseteq Temps
  BY UploadIs DEF ArchiveInv, Typed
<1>2. ext[u].pc = "drop" /\ t # NoTemp /\ UNCHANGED <<procVars, dest, body>>
  BY DEF DropCurrent
<1>3. body' = [body EXCEPT ![u] = body[u]] /\ t \in Temps /\ t[1] = u
  BY <1>1, <1>2 DEF Shape, ExtType
<1>4. CASE t \in registry
  <2>1. registry' = registry \ {t} /\ UNCHANGED <<temps, ext>>
    BY <1>4 DEF DropCurrent
  <2>2. ext' = [ext EXCEPT ![u] = ext[u]]
    BY <1>1, <2>1
  <2>3. proc = "run" => Keeps(u, ext[u], temps', registry')
    BY <1>1, <1>2, <2>1 DEF Keeps
  <2>4. temps' \subseteq Temps /\ registry' \subseteq Temps
        /\ \A x \in Temps : x[1] # u => (x \in temps' <=> x \in temps) /\ (x \in registry' <=> x \in registry)
    BY <1>1, <1>3, <2>1
  <2>5. Alone(u, ext[u], body[u])
    BY <1>1, <1>2, <1>3, <2>2, <2>3, <2>4, HiddenAlone
  <2> QED
    BY <2>5
<1>5. CASE t \notin registry
  <2> DEFINE e == [ext[u] EXCEPT !.cur = NoTemp]
  <2>1. temps' = temps \ {t} /\ registry' = registry /\ ext' = [ext EXCEPT ![u] = e]
    BY <1>1, <1>5 DEF DropCurrent, ExtType
  <2>2. /\ e \in ExtType /\ e.pc = "drop" /\ e.result = ext[u].result /\ e.stored = ext[u].stored
        /\ e.pending = ext[u].pending /\ e.cur = NoTemp
    BY <1>1, <1>2 DEF ExtType
  <2> HIDE DEF e
  <2>3. Shape(u, e, body[u]) /\ Counted(e, body[u])
    BY <1>1, <1>2, <2>2 DEF Shape, Counted, Placed, Early
  <2>4. proc = "run" => Keeps(u, e, temps', registry')
    <3> SUFFICES ASSUME proc = "run" PROVE Keeps(u, e, temps', registry')
      OBVIOUS
    <3>1. Keeps(u, ext[u], temps, registry)
      BY <1>1
    <3>2. ASSUME NEW x \in temps' \union registry', x[1] = u PROVE Holds(e, x)
      <4>1. Holds(ext[u], x) /\ x # t
        BY <1>5, <2>1, <3>1, <3>2 DEF Keeps
      <4> QED
        BY <2>2, <4>1 DEF Holds
    <3>3. ASSUME NEW x \in temps' \ registry', x[1] = u PROVE FALSE
      BY <2>1, <3>1, <3>3 DEF Keeps
    <3> QED
      BY <2>2, <3>2, <3>3 DEF Keeps
  <2>5. temps' \subseteq Temps /\ registry' \subseteq Temps
        /\ \A x \in Temps : x[1] # u => (x \in temps' <=> x \in temps) /\ (x \in registry' <=> x \in registry)
    BY <1>1, <1>3, <2>1
  <2>6. Alone(u, e, body[u])
    BY <1>1, <1>2, <1>3, <2>1, <2>2, <2>3, <2>4, <2>5, HiddenAlone
  <2> QED
    BY <2>6
<1> QED
  BY <1>4, <1>5

LEMMA DropPendingAlone ==
  ASSUME ArchiveInv, NEW u \in Uploads, DropPending(u)
  PROVE  \E e, c : Alone(u, e, c)
<1> DEFINE t    == Head(ext[u].pending).temp
           rest == Tail(ext[u].pending)
           e    == [ext[u] EXCEPT !.pending = rest]
<1>1. /\ ext[u] \in ExtType /\ body[u] \in BodyType
      /\ Shape(u, ext[u], body[u]) /\ Counted(ext[u], body[u])
      /\ proc = "run" => Keeps(u, ext[u], temps, registry)
      /\ ext \in [Uploads -> ExtType] /\ body \in [Uploads -> BodyType]
      /\ temps \subseteq Temps /\ registry \subseteq Temps
  BY UploadIs DEF ArchiveInv, Typed
<1>2. /\ ext[u].pc = "drop" /\ ext[u].cur = NoTemp /\ ext[u].pending # <<>>
      /\ UNCHANGED <<procVars, dest, body>> /\ body' = [body EXCEPT ![u] = body[u]]
      /\ temps' = temps \ {t} /\ registry' = registry \ {t} /\ ext' = [ext EXCEPT ![u] = e]
  BY <1>1 DEF DropPending, ExtType
<1>3. /\ t \in Temps /\ t[1] = u
      /\ rest \in Seq([name : Names, temp : Temps])
      /\ \A i \in 1..Len(rest) : rest[i].temp[1] = u
      /\ \A x : Holds(ext[u], x) =>
            x = ext[u].cur \/ x = t \/ \E i \in 1..Len(rest) : rest[i].temp = x
  BY <1>2, PendingIs
<1> HIDE DEF t, rest
<1>4. /\ e \in ExtType /\ e.pc = "drop" /\ e.result = ext[u].result /\ e.stored = ext[u].stored
      /\ e.pending = rest /\ e.cur = NoTemp
  BY <1>1, <1>2, <1>3 DEF ExtType
<1> HIDE DEF e
<1>5. Shape(u, e, body[u]) /\ Counted(e, body[u])
  BY <1>1, <1>2, <1>3, <1>4 DEF Shape, Counted, Placed, Early
<1>6. proc = "run" => Keeps(u, e, temps', registry')
  <2> SUFFICES ASSUME proc = "run" PROVE Keeps(u, e, temps', registry')
    OBVIOUS
  <2>1. Keeps(u, ext[u], temps, registry) /\ NoTemp \notin temps \union registry
    BY <1>1, NoTempIs
  <2>2. ASSUME NEW x \in temps' \union registry', x[1] = u PROVE Holds(e, x)
    <3>1. Holds(ext[u], x) /\ x # t /\ x # NoTemp
      BY <1>2, <2>1, <2>2 DEF Keeps
    <3> QED
      BY <1>2, <1>3, <1>4, <3>1 DEF Holds
  <2>3. ASSUME NEW x \in temps' \ registry', x[1] = u PROVE FALSE
    BY <1>2, <2>1, <2>3 DEF Keeps
  <2> QED
    BY <1>4, <2>2, <2>3 DEF Keeps
<1>7. temps' \subseteq Temps /\ registry' \subseteq Temps
      /\ \A x \in Temps : x[1] # u => (x \in temps' <=> x \in temps) /\ (x \in registry' <=> x \in registry)
  BY <1>1, <1>2, <1>3
<1>8. Alone(u, e, body[u])
  BY <1>1, <1>2, <1>4, <1>5, <1>6, <1>7, HiddenAlone
<1> QED
  BY <1>8

LEMMA UndoAlone ==
  ASSUME ArchiveInv, NEW u \in Uploads, Undo(u)
  PROVE  \E e, c : Alone(u, e, c)
<1>1. /\ ext[u] \in ExtType /\ body[u] \in BodyType
      /\ Shape(u, ext[u], body[u]) /\ Counted(ext[u], body[u]) /\ Shows(ext[u], Visible(u))
      /\ proc = "run" => Keeps(u, ext[u], temps, registry)
      /\ ext \in [Uploads -> ExtType] /\ body \in [Uploads -> BodyType]
      /\ temps \subseteq Temps /\ registry \subseteq Temps
      /\ dest \in [DOMAIN dest -> Uploads \union {"user"}]
  BY UploadIs DEF ArchiveInv, Typed
<1>2. /\ ext[u].pc = "drop" /\ ext[u].cur = NoTemp /\ ext[u].pending = <<>>
      /\ UNCHANGED <<procVars, temps, registry, body>> /\ body' = [body EXCEPT ![u] = body[u]]
  BY <1>1 DEF Undo
<1>3. /\ temps' \subseteq Temps /\ registry' \subseteq Temps
      /\ \A x \in Temps : x[1] # u => (x \in temps' <=> x \in temps) /\ (x \in registry' <=> x \in registry)
  BY <1>1, <1>2
<1>4. ASSUME NEW e \in ExtType, e.cur = NoTemp, e.pending = <<>>, e.pc # "forget"
      PROVE  proc = "run" => Keeps(u, e, temps', registry')
  <2> SUFFICES ASSUME proc = "run" PROVE Keeps(u, e, temps', registry')
    OBVIOUS
  <2>1. Keeps(u, ext[u], temps, registry) /\ NoTemp \notin temps \union registry
    BY <1>1, NoTempIs
  <2>2. ASSUME NEW x \in temps \union registry, x[1] = u PROVE FALSE
    <3>1. Holds(ext[u], x) /\ x # NoTemp
      BY <2>1, <2>2 DEF Keeps
    <3> QED
      BY <1>2, <3>1 DEF Holds
  <2> QED
    BY <1>2, <1>4, <2>2 DEF Keeps
<1>5. CASE ext[u].stored = <<>>
  <2> DEFINE e == [ext[u] EXCEPT !.pc = "over"]
  <2>1. ext' = [ext EXCEPT ![u] = e] /\ dest' = dest
    BY <1>1, <1>5 DEF Undo, ExtType
  <2>2. /\ e \in ExtType /\ e.pc = "over" /\ e.result = ext[u].result /\ e.stored = ext[u].stored
        /\ e.pending = <<>> /\ e.cur = NoTemp
    <3>1. "over" \in PcValues
      BY DEF PcValues
    <3> QED
      BY <1>1, <1>2, <3>1 DEF ExtType
  <2> HIDE DEF e
  <2>3. Shape(u, e, body[u]) /\ Counted(e, body[u])
    BY <1>1, <1>2, <1>5, <2>2 DEF Shape, Counted, Placed, Early
  <2>4. proc = "run" => Keeps(u, e, temps', registry')
    BY <1>4, <2>2
  <2>5. Alone(u, e, body[u])
    BY <1>1, <1>2, <1>3, <2>1, <2>2, <2>3, <2>4, HiddenAlone
  <2> QED
    BY <2>5
<1>6. CASE ext[u].stored # <<>>
  <2> DEFINE n     == Last(ext[u].stored)
             front == Front(ext[u].stored)
             e     == [ext[u] EXCEPT !.stored = front]
  <2>1. ext' = [ext EXCEPT ![u] = e] /\ dest' = [m \in DOMAIN dest \ {n} |-> dest[m]]
    BY <1>1, <1>6 DEF Undo, ExtType
  <2>2. /\ IsFiniteSet(Visible(u)) /\ IsInjective(ext[u].stored) /\ ToSet(ext[u].stored) \subseteq Visible(u)
        /\ Cardinality(Visible(u)) = Len(ext[u].stored)
        /\ ext[u].stored \in Seq(Shown) /\ Len(ext[u].stored) \in Nat
    BY <1>1, <1>2 DEF Shows, ExtType
  <2>3. /\ front \in Seq(Shown) /\ IsInjective(front) /\ Len(front) = Len(ext[u].stored) - 1
        /\ n \in ToSet(ext[u].stored) /\ ToSet(front) = ToSet(ext[u].stored) \ {n}
    BY <1>6, <2>2, FrontIs
  <2> HIDE DEF n, front
  <2>4. /\ e \in ExtType /\ e.pc = "drop" /\ e.result = ext[u].result /\ e.stored = front
        /\ e.pending = <<>> /\ e.cur = NoTemp
    BY <1>1, <1>2, <2>3 DEF ExtType
  <2> HIDE DEF e
  <2>5. Shape(u, e, body[u]) /\ Counted(e, body[u])
    BY <1>1, <1>2, <1>6, <2>4 DEF Shape, Counted, Placed, Early
  <2>6. proc = "run" => Keeps(u, e, temps', registry')
    BY <1>4, <2>4
  <2>7. n \in DOMAIN dest /\ dest[n] = u
    BY <2>2, <2>3 DEF Visible
  <2>8. Visible(u)' = Visible(u) \ {n} /\ \A d \in Uploads \ {u} : Visible(d)' = Visible(d)
    BY <2>1, <2>7 DEF Visible
  <2>9. IsFiniteSet(Visible(u) \ {n}) /\ Cardinality(Visible(u) \ {n}) = Cardinality(Visible(u)) - 1
    BY <2>2, <2>3, FS_RemoveElement
  <2>10. Shows(e, Visible(u) \ {n})
    BY <2>2, <2>3, <2>4, <2>9 DEF Shows
  <2>11. dest' \in [DOMAIN dest' -> Uploads \union {"user"}]
    BY <1>1, <2>1
  <2>12. UploadInv(u, e, body[u], Visible(u)', temps', registry', proc)
    BY <2>5, <2>6, <2>8, <2>10 DEF UploadInv
  <2>13. Alone(u, e, body[u])
    BY <1>1, <1>2, <1>3, <2>1, <2>4, <2>8, <2>11, <2>12 DEF Alone
  <2> QED
    BY <2>13
<1> QED
  BY <1>5, <1>6

LEMMA ThreadAlone ==
  ASSUME ArchiveInv, NEW u \in Uploads, Thread(u)
  PROVE  \E e, c : Alone(u, e, c)
BY BeginAlone, ReadAlone, DecodeBlockAlone, DecodeMemberAlone, CreateAlone, RegisterAlone, DecodeDataAlone,
   DecodeTailAlone, PlaceAlone, ForgetAlone, DropCurrentAlone, DropPendingAlone, UndoAlone DEF Thread

-----------------------------------------------------------------------------
(* The process stops, dies and starts; the invariant as a whole. *)

\* A fresh body of a script some sender sends.
LEMMA NewBodyIs ==
  ASSUME NEW b, b.script \in Scripts, b.plan \in {"chunked", "length"}, b.bursts \in SUBSET Nat
  PROVE  /\ NewBody(b) \in BodyType /\ BodyShape(NewBody(b))
         /\ NewBody(b).pos = 0 /\ ~NewBody(b).trailer
         /\ Cardinality(SeenIn(NewBody(b))) = 0
<1> DEFINE c == NewBody(b)
<1>1. Len(b.script) \in Nat /\ 0 \in 0..PatienceSteps
  BY ScriptIs, ArchiveConstants
<1>2. c \in BodyType
  BY <1>1 DEF NewBody, BodyType
<1>3. /\ c.pos = 0 /\ c.got = 0 /\ ~c.trailer /\ ~c.clean /\ c.script = b.script /\ c.plan = b.plan
      /\ c.chunk = IF b.plan = "chunked" THEN "size" ELSE "data"
  BY DEF NewBody
<1> HIDE DEF c
<1>4. BodyShape(c)
  BY <1>1, <1>3 DEF BodyShape
<1>5. SeenIn(c) = {}
  BY <1>3 DEF SeenIn
<1>6. Cardinality(SeenIn(c)) = 0
  BY <1>5, FS_EmptySet
<1> QED
  BY <1>2, <1>3, <1>4, <1>6 DEF c

\* A new or lost upload that holds nothing.
LEMMA FreshIs ==
  ASSUME NEW u \in Uploads, NEW e, NEW pc \in {"new", "gone"},
         e = [NewExt EXCEPT !.pc = pc] \/ (pc = "new" /\ e = NewExt),
         NEW b \in BodyType, BodyShape(b), b.pos = 0,
         ~b.trailer, Cardinality(SeenIn(b)) = 0, NEW V, pc = "new" => V = {}, NEW p
  PROVE  e \in ExtType /\ UploadInv(u, e, b, V, {}, {}, p)
<1>1. /\ e.pc = pc /\ e.count = 0 /\ e.bytes = 0 /\ e.cur = NoTemp /\ e.pending = <<>> /\ e.cand = 0
      /\ e.stored = <<>> /\ e.unterminated = FALSE /\ e.result = "none"
  BY DEF NewExt
<1>2. e \in ExtType
  <2>1. /\ pc \in PcValues /\ "none" \in Results /\ 0 \in 0..MaxMembers /\ 0 \in 0..ByteLimit
        /\ 0 \in 0..Candidates
    BY ArchiveConstants DEF PcValues, Results
  <2>2. <<>> \in Seq([name : Names, temp : Temps]) /\ <<>> \in Seq(Shown) /\ NoTemp \in Temps \union {NoTemp}
    OBVIOUS
  <2>3. NewExt \in ExtType
    BY <2>1, <2>2 DEF NewExt, ExtType, PcValues
  <2> QED
    BY <2>1, <2>3 DEF ExtType
<1>3. Len(<<>>) = 0 /\ IsInjective(<<>>) /\ ToSet(<<>>) = {}
  BY DEF IsInjective, ToSet
<1>4. Shape(u, e, b) /\ Counted(e, b)
  BY <1>1, <1>3 DEF Shape, Counted, Placed, Early, ReadingPc
<1>5. Shows(e, V)
  <2>1. e.pc # "gone" => IsFiniteSet(V) /\ Cardinality(V) = 0
    BY <1>1, FS_EmptySet
  <2> QED
    BY <1>1, <1>3, <2>1 DEF Shows
<1>6. Keeps(u, e, {}, {})
  BY <1>1 DEF Keeps
<1> QED
  BY <1>2, <1>4, <1>5, <1>6 DEF UploadInv

LEMMA InitSound == Init => ArchiveInv
<1> SUFFICES ASSUME Init PROVE ArchiveInv
  OBVIOUS
<1>1. ASSUME NEW u \in Uploads
      PROVE  /\ body[u] \in BodyType /\ BodyShape(body[u]) /\ body[u].pos = 0 /\ ~body[u].trailer
             /\ Cardinality(SeenIn(body[u])) = 0
  <2>1. PICK b \in Bodies[u] : body[u] = NewBody(b)
    BY DEF Init
  <2>2. b.script \in Scripts /\ b.plan \in {"chunked", "length"} /\ b.bursts \in SUBSET Nat
    BY ArchiveConstants DEF Scripts, SentBodies
  <2> QED
    BY <2>1, <2>2, NewBodyIs
<1>2. ASSUME NEW u \in Uploads
      PROVE  ext[u] \in ExtType /\ UploadInv(u, ext[u], body[u], Visible(u), temps, registry, proc)
  <2>1. ext[u] = NewExt
    BY DEF Init
  <2>2. Visible(u) = {}
    BY ArchiveConstants DEF Init, Visible
  <2>3. temps = {} /\ registry = {}
    BY DEF Init
  <2>4. ext[u] \in ExtType /\ UploadInv(u, ext[u], body[u], Visible(u), {}, {}, proc)
    BY <1>1, <2>1, <2>2, FreshIs
  <2> QED
    BY <2>1, <2>3, <2>4
<1>3. Typed
  <2>1. proc = "run" /\ runs = 1 /\ doomed = {} /\ temps = {} /\ registry = {}
        /\ dest = [n \in Existing |-> "user"]
    BY DEF Init
  <2>2. ext \in [Uploads -> ExtType]
    BY <1>2 DEF Init
  <2>3. body \in [Uploads -> BodyType]
    BY <1>1 DEF Init
  <2>4. 1 \in 1..MaxRuns
    BY ArchiveConstants
  <2> QED
    BY <2>1, <2>2, <2>3, <2>4 DEF Typed
<1> QED
  BY <1>2, <1>3 DEF ArchiveInv, AllUploads

\* The process stops or dies, or nothing happens: no upload moves.
LEMMA StopKeeps ==
  ASSUME ArchiveInv, StopTake \/ StopRemove \/ StopExit \/ Kill \/ UNCHANGED vars
  PROVE  ArchiveInv'
<1>1. ext' = ext /\ body' = body /\ dest' = dest /\ runs' = runs
  BY DEF StopTake, StopRemove, StopExit, Kill, vars, procVars, diskVars
<1>2. \/ proc' \in {"removing", "dead"}
      \/ proc' = proc /\ temps' = temps /\ registry' = registry
  BY DEF StopTake, StopRemove, StopExit, Kill, vars, procVars, diskVars
<1>3. temps' \subseteq Temps /\ registry' \subseteq Temps /\ doomed' \subseteq Temps
  BY DEF ArchiveInv, Typed, StopTake, StopRemove, StopExit, Kill, vars, procVars, diskVars
<1>4. Typed'
  BY <1>1, <1>2, <1>3 DEF ArchiveInv, Typed
<1>5. ASSUME NEW u \in Uploads
      PROVE  UploadInv(u, ext'[u], body'[u], Visible(u)', temps', registry', proc')
  <2>1. UploadInv(u, ext[u], body[u], Visible(u), temps, registry, proc)
    BY DEF ArchiveInv, AllUploads
  <2>2. Visible(u)' = Visible(u)
    BY <1>1 DEF Visible
  <2> QED
    BY <1>1, <1>2, <2>1, <2>2 DEF UploadInv
<1> QED
  BY <1>4, <1>5 DEF ArchiveInv, AllUploads

LEMMA RestartKeeps ==
  ASSUME ArchiveInv, Restart
  PROVE  ArchiveInv'
<1>1. /\ proc' = "run" /\ runs' = runs + 1 /\ runs < MaxRuns
      /\ temps' = {} /\ registry' = {} /\ doomed' = {} /\ dest' = dest
  BY DEF Restart
<1>2. ASSUME NEW u \in Uploads
      PROVE  /\ ext'[u] \in ExtType /\ body'[u] \in BodyType
             /\ UploadInv(u, ext'[u], body'[u], Visible(u)', {}, {}, "run")
  <2>1. ext[u] \in ExtType /\ body[u] \in BodyType /\ Shape(u, ext[u], body[u])
        /\ Counted(ext[u], body[u]) /\ Shows(ext[u], Visible(u))
    BY UploadIs
  <2>2. Visible(u)' = Visible(u)
    BY <1>1 DEF Visible
  <2>3. CASE ext[u].pc \in {"new", "over"}
    <3>1. ext'[u] = ext[u] /\ body'[u] = body[u]
      BY <2>3 DEF Restart
    <3>2. Keeps(u, ext[u], {}, {})
      BY <2>3 DEF Keeps
    <3> QED
      BY <2>1, <2>2, <3>1, <3>2 DEF UploadInv
  <2>4. CASE ext[u].pc \notin {"new", "over"}
    <3> DEFINE e == [NewExt EXCEPT !.pc = "gone"]
               b == NewBody(body[u])
    <3>1. ext'[u] = e /\ body'[u] = b
      BY <2>4 DEF Restart
    <3>2. body[u].script \in Scripts /\ body[u].plan \in {"chunked", "length"} /\ body[u].bursts \in SUBSET Nat
      BY <2>1 DEF BodyType
    <3>3. b \in BodyType /\ BodyShape(b) /\ b.pos = 0 /\ ~b.trailer /\ Cardinality(SeenIn(b)) = 0
      BY <3>2, NewBodyIs
    <3> HIDE DEF b
    <3>4. e \in ExtType /\ UploadInv(u, e, b, Visible(u)', {}, {}, "run")
      BY <3>3, FreshIs
    <3> QED
      BY <3>1, <3>3, <3>4
  <2> QED
    BY <2>3, <2>4
<1>3. Typed'
  <2>1. ext' \in [Uploads -> ExtType] /\ body' \in [Uploads -> BodyType]
    BY <1>2 DEF Restart
  <2>2. runs' \in 1..MaxRuns
    BY <1>1, ArchiveConstants DEF ArchiveInv, Typed
  <2> QED
    BY <1>1, <2>1, <2>2 DEF ArchiveInv, Typed
<1> QED
  BY <1>1, <1>2, <1>3 DEF ArchiveInv, AllUploads

LEMMA NextKeeps ==
  ASSUME ArchiveInv, [Next]_vars
  PROVE  ArchiveInv'
<1>1. ASSUME NEW u \in Uploads, Thread(u) \/ Sender(u) PROVE ArchiveInv'
  <2>1. PICK e, b : Alone(u, e, b)
    BY <1>1, ThreadAlone, SenderAlone
  <2> QED
    BY <2>1, AloneKeeps
<1>2. CASE Restart
  BY <1>2, RestartKeeps
<1>3. CASE StopTake \/ StopRemove \/ StopExit \/ Kill \/ UNCHANGED vars
  BY <1>3, StopKeeps
<1> QED
  BY <1>1, <1>2, <1>3 DEF Next

\* The invariant the theorems below rest on.
THEOREM ArchiveInvariant == Spec => []ArchiveInv
<1>1. Init => ArchiveInv
  BY InitSound
<1>2. ArchiveInv /\ [Next]_vars => ArchiveInv'
  BY NextKeeps
<1> QED
  BY <1>1, <1>2, PTL DEF Spec

-----------------------------------------------------------------------------
(* The theorems. *)

\* Every variable keeps its type: member counts, byte counts and candidate
\* numbers stay within the limits of ExtractLimits, the positions in the body.
THEOREM ArchiveTyping == Spec => []TypeOK
<1>1. ArchiveInv => TypeOK
  <2> SUFFICES ASSUME ArchiveInv PROVE TypeOK
    OBVIOUS
  <2>1. ASSUME NEW u \in Uploads
        PROVE  /\ ext[u].pc \in PcValues /\ ext[u].count \in 0..MaxMembers
               /\ ext[u].bytes \in 0..ByteLimit /\ ext[u].cand \in 0..Candidates
               /\ body[u].pos \in 0..body[u].got /\ body[u].got \in 0..Len(body[u].script)
               /\ body[u].idle \in 0..PatienceSteps
    <3>1. ext[u] \in ExtType /\ body[u] \in BodyType /\ Shape(u, ext[u], body[u]) /\ Len(body[u].script) \in Nat
      BY UploadIs
    <3>2. body[u].pos \in 0..body[u].got /\ body[u].got \in 0..Len(body[u].script)
      BY <3>1 DEF BodyType, Shape, BodyShape
    <3> QED
      BY <3>1, <3>2 DEF ExtType, BodyType
  <2>2. /\ proc \in {"run", "removing", "dead"} /\ runs \in 1..MaxRuns
        /\ temps \subseteq Temps /\ registry \subseteq Temps /\ doomed \subseteq Temps
        /\ \A n \in DOMAIN dest : dest[n] \in Uploads \union {"user"}
    BY DEF ArchiveInv, Typed
  <2> QED
    BY <2>1, <2>2 DEF TypeOK, Temps
<1> QED
  BY <1>1, ArchiveInvariant, PTL

\* archive.rs:17-21: an upload whose extract returned shows every file its
\* sender sent, or none, and before the archive is whole it shows none.
THEOREM AllOrNothingAlways == Spec => []AllOrNothing
<1>1. ArchiveInv => AllOrNothing
  <2> SUFFICES ASSUME ArchiveInv, NEW u \in Uploads
               PROVE  /\ ext[u].pc = "over" /\ ext[u].result = "ok" => Cardinality(Visible(u)) = Cardinality(Files(u))
                      /\ ext[u].pc = "over" /\ ext[u].result # "ok" => Visible(u) = {}
                      /\ Visible(u) # {} => body[u].trailer \/ ext[u].pc = "gone"
    BY DEF AllOrNothing
  <2>1. /\ Shape(u, ext[u], body[u]) /\ Counted(ext[u], body[u]) /\ Shows(ext[u], Visible(u))
        /\ ext[u] \in ExtType /\ Cardinality(SeenIn(body[u])) \in Nat
    BY UploadIs
  <2>2. /\ Len(ext[u].stored) \in Nat /\ Len(ext[u].pending) \in Nat
        /\ \A V : IsFiniteSet(V) => (Cardinality(V) = 0 <=> V = {})
        /\ Len(<<>>) = 0
    BY <2>1, FS_EmptySet DEF ExtType
  <2>3. ASSUME ext[u].pc = "over", ext[u].result = "ok"
        PROVE  Cardinality(Visible(u)) = Cardinality(Files(u))
    <3>1. body[u].pos = body[u].got /\ ext[u].pending = <<>> /\ Placed(ext[u])
      BY <2>1, <2>3 DEF Shape, Placed
    <3>2. Files(u) = SeenIn(body[u])
      BY <3>1 DEF Files, SeenIn
    <3>3. Cardinality(SeenIn(body[u])) = Len(ext[u].pending) + Len(ext[u].stored)
      BY <2>1, <3>1 DEF Counted
    <3>4. Cardinality(Visible(u)) = Len(ext[u].stored)
      BY <2>1, <2>2, <2>3 DEF Shows
    <3>5. Len(ext[u].pending) = 0
      BY <2>2, <3>1
    <3>6. Cardinality(SeenIn(body[u])) = Len(ext[u].stored)
      BY <2>2, <3>3, <3>5
    <3> QED
      BY <3>2, <3>4, <3>6
  <2>4. ASSUME ext[u].pc = "over", ext[u].result # "ok" PROVE Visible(u) = {}
    BY <2>1, <2>2, <2>4 DEF Shows, Shape
  <2>5. ASSUME Visible(u) # {}, ext[u].pc # "gone" PROVE body[u].trailer
    <3>1. ext[u].stored # <<>> \/ ext[u].pc = "forget"
      <4> SUFFICES ASSUME ext[u].stored = <<>>, ext[u].pc # "forget" PROVE FALSE
        OBVIOUS
      <4>1. IsFiniteSet(Visible(u)) /\ Cardinality(Visible(u)) = Len(ext[u].stored) + 0
        BY <2>1, <2>5 DEF Shows
      <4> QED
        BY <2>2, <2>5, <4>1
    <3> QED
      BY <2>1, <3>1 DEF Shape
  <2> QED
    BY <2>3, <2>4, <2>5
<1> QED
  BY <1>1, ArchiveInvariant, PTL

\* ExtractProgress::whole and http.rs Patience: what is stored is past its
\* trailer, between two blocks, with nothing read but not decoded, and a body
\* taken as complete without its end stands at a chunk boundary.
THEOREM TakenWholeAlways == Spec => []TakenWhole
<1>1. ArchiveInv => TakenWhole
  <2> SUFFICES ASSUME ArchiveInv, NEW u \in Uploads, Placed(ext[u])
               PROVE  /\ body[u].trailer /\ body[u].block = "header" /\ body[u].pos = body[u].got
                      /\ ext[u].unterminated => body[u].plan = "chunked" /\ body[u].chunk = "size"
    BY DEF TakenWhole, Placed
  <2>1. Shape(u, ext[u], body[u])
    BY UploadIs
  <2> QED
    BY <2>1 DEF Shape, BodyShape
<1> QED
  BY <1>1, ArchiveInvariant, PTL

\* archive.rs Partials and sweep_partials: with no upload under way no hidden
\* file is on disk or registered, whatever stops and kills came before.
THEOREM NothingLeftAlways == Spec => []NothingLeft
<1>1. ArchiveInv => NothingLeft
  <2> SUFFICES ASSUME ArchiveInv, proc = "run"
               PROVE  /\ (\A u \in Uploads : ext[u].pc \in {"new", "over", "gone"}) => temps = {} /\ registry = {}
                      /\ \A t \in temps \ registry : ext[t[1]].pc \in {"register", "drop"} /\ ext[t[1]].cur = t
    BY DEF NothingLeft
  <2>1. ASSUME NEW t \in temps \union registry
        PROVE  t[1] \in Uploads /\ t # NoTemp /\ Keeps(t[1], ext[t[1]], temps, registry)
    <3>1. t \in Temps
      BY <2>1 DEF ArchiveInv, Typed
    <3>2. t[1] \in Uploads /\ t # NoTemp
      BY <3>1, NoTempIs DEF Temps
    <3> QED
      BY <3>2, UploadIs
  <2>2. ASSUME \A u \in Uploads : ext[u].pc \in {"new", "over", "gone"}, NEW t \in temps \union registry
        PROVE  FALSE
    <3>1. Holds(ext[t[1]], t)
      BY <2>1, <2>2 DEF Keeps
    <3>2. ext[t[1]].pending = <<>> /\ ext[t[1]].cur = NoTemp
      BY <2>1, <2>2, UploadIs DEF Shape
    <3> QED
      BY <2>1, <2>2, <3>1, <3>2 DEF Holds
  <2>3. ASSUME NEW t \in temps \ registry
        PROVE  ext[t[1]].pc \in {"register", "drop"} /\ ext[t[1]].cur = t
    BY <2>1, <2>3 DEF Keeps
  <2> QED
    BY <2>2, <2>3
<1> QED
  BY <1>1, ArchiveInvariant, PTL

\* Only publication and roll-back touch the visible files.
LEMMA DestStays ==
  ASSUME [Next]_vars
  PROVE  dest' = dest \/ \E u \in Uploads : Place(u) \/ Undo(u)
<1>1. ASSUME NEW u \in Uploads, Thread(u), ~Place(u), ~Undo(u) PROVE dest' = dest
  <2>1. CASE Begin(u) \/ QuietStep(u) \/ BodyFails(u) \/ BodyEnds(u)
    BY <2>1 DEF Begin, QuietStep, BodyFails, BodyEnds, diskVars
  <2>2. CASE DecodeBlock(u) \/ DecodeMember(u) \/ DecodeData(u) \/ DecodeTrailer(u) \/ DecodePadding(u) \/ DecodeGarbage(u)
    BY <2>2 DEF DecodeBlock, DecodeMember, DecodeData, DecodeTrailer, DecodePadding, DecodeGarbage, diskVars
  <2>3. CASE CreateTemp(u) \/ RegisterTemp(u) \/ Forget(u) \/ DropCurrent(u) \/ DropPending(u)
    BY <2>3 DEF CreateTemp, RegisterTemp, Forget, DropCurrent, DropPending
  <2> QED
    BY <1>1, <2>1, <2>2, <2>3 DEF Thread
<1>2. ASSUME NEW u \in Uploads, Sender(u) PROVE dest' = dest
  BY <1>2 DEF Sender, Arrive, LastChunk, diskVars
<1>3. CASE StopTake \/ StopRemove \/ StopExit \/ Kill \/ Restart \/ UNCHANGED vars
  BY <1>3 DEF StopTake, StopRemove, StopExit, Kill, Restart, vars, diskVars
<1> QED
  BY <1>1, <1>2, <1>3 DEF Next

\* What a step does to the visible files.
Untouched ==
    \A n \in DOMAIN dest :
        \/ n \in DOMAIN dest' /\ dest'[n] = dest[n]
        \/ n \notin DOMAIN dest' /\ dest[n] \in Uploads /\ ext[dest[n]].pc = "drop"

\* archive.rs open_new/persist_noclobber: no upload replaces or removes a file
\* that another upload or the user put there, roll-back included.
THEOREM NoClobberAlways == Spec => NoClobber
<1>1. ASSUME ArchiveInv, [Next]_vars PROVE [Untouched]_vars
  <2>1. CASE dest' = dest
    BY <2>1 DEF Untouched
  <2>2. ASSUME NEW u \in Uploads, Place(u) PROVE Untouched
    <3> DEFINE n == Given(ext[u])
    <3>1. \/ dest' = dest
          \/ n \notin DOMAIN dest /\ dest' = [m \in DOMAIN dest \union {n} |-> IF m = n THEN u ELSE dest[m]]
      BY <2>2 DEF Place, Given
    <3> HIDE DEF n
    <3> QED
      BY <3>1 DEF Untouched
  <2>3. ASSUME NEW u \in Uploads, Undo(u) PROVE Untouched
    <3> DEFINE n == Last(ext[u].stored)
    <3>1. /\ ext[u].pc = "drop"
          /\ dest' = dest \/ (ext[u].stored # <<>> /\ dest' = [m \in DOMAIN dest \ {n} |-> dest[m]])
      BY <2>3 DEF Undo
    <3>2. ASSUME ext[u].stored # <<>> PROVE n \in DOMAIN dest /\ dest[n] = u
      <4>1. /\ ext[u].stored \in Seq(Shown) /\ IsInjective(ext[u].stored)
            /\ ToSet(ext[u].stored) \subseteq Visible(u)
        BY <1>1, <3>1, UploadIs DEF Shows, ExtType
      <4>2. n \in ToSet(ext[u].stored)
        BY <3>2, <4>1, FrontIs
      <4> QED
        BY <4>1, <4>2 DEF Visible
    <3> HIDE DEF n
    <3> QED
      BY <3>1, <3>2 DEF Untouched
  <2> QED
    BY <1>1, <2>1, <2>2, <2>3, DestStays
<1>2. [Untouched]_vars <=> [\A n \in DOMAIN dest :
        \/ n \in DOMAIN dest' /\ dest'[n] = dest[n]
        \/ n \notin DOMAIN dest' /\ dest[n] \in Uploads /\ ext[dest[n]].pc = "drop"]_vars
  BY DEF Untouched
<1> QED
  BY <1>1, <1>2, ArchiveInvariant, PTL DEF Spec, NoClobber

\* What a publication adds has a name that is safe.
LEMMA PlacedIsSafe ==
  ASSUME ArchiveInv, NEW u \in Uploads, Place(u)
  PROVE  \/ dest' = dest
         \/ \E n : /\ Clean(n) /\ n # <<>> /\ n[1] # "." /\ Len(n) <= NameBytes
                  /\ dest' = [m \in DOMAIN dest \union {n} |-> IF m = n THEN u ELSE dest[m]]
<1> DEFINE n == Given(ext[u])
<1>1. \/ dest' = dest
      \/ /\ ext[u].pending # <<>> /\ ~(Len(n) > NameBytes)
         /\ dest' = [m \in DOMAIN dest \union {n} |-> IF m = n THEN u ELSE dest[m]]
  BY DEF Place, Given
<1>2. ASSUME ext[u].pending # <<>>
      PROVE  Clean(n) /\ n # <<>> /\ n[1] # "."
  <2>1. Head(ext[u].pending).name \in Names
    BY <1>2, PendingIs
  <2>2. ext[u].cand \in 0..Candidates
    BY UploadIs DEF ExtType
  <2>3. n = Candidate(Head(ext[u].pending).name, ext[u].cand)
    BY <2>1, <2>2, NameIs DEF Given
  <2> QED
    BY <2>1, <2>2, <2>3, NameIs, CandidateIs
<1> HIDE DEF n
<1>3. Clean(n) => Len(n) \in Nat
  BY DEF Clean
<1>4. NameBytes \in Nat
  BY ArchiveConstants
<1>5. CASE dest' # dest
  <2>1. Clean(n) /\ n # <<>> /\ n[1] # "." /\ Len(n) <= NameBytes
    BY <1>1, <1>2, <1>3, <1>4, <1>5
  <2>2. dest' = [m \in DOMAIN dest \union {n} |-> IF m = n THEN u ELSE dest[m]]
    BY <1>1, <1>5
  <2> QED
    BY <2>1, <2>2, Zenon
<1> QED
  BY <1>5

\* archive.rs ExtractProgress::whole, safe_name, candidate_names and
\* persist_noclobber: only a whole archive is stored, and every file an upload
\* shows has a name without separators and control characters, that is not
\* hidden and fits a file name, whatever paths its members had.
THEOREM StoredIsWholeAlways == Spec => []StoredIsWhole
<1>1. Init => SafelyNamed
  BY ArchiveConstants DEF Init, SafelyNamed
<1>2. ASSUME ArchiveInv, SafelyNamed, [Next]_vars PROVE SafelyNamed'
  <2>1. CASE dest' = dest
    BY <1>2, <2>1 DEF SafelyNamed
  <2>2. ASSUME NEW u \in Uploads, NEW n, Clean(n), n # <<>>, n[1] # ".", Len(n) <= NameBytes,
               dest' = [m \in DOMAIN dest \union {n} |-> IF m = n THEN u ELSE dest[m]]
        PROVE  SafelyNamed'
    BY <1>2, <2>2 DEF SafelyNamed, Clean
  <2>3. ASSUME NEW u \in Uploads, Undo(u), dest' # dest PROVE SafelyNamed'
    <3> DEFINE n == Last(ext[u].stored)
    <3>1. dest' = [m \in DOMAIN dest \ {n} |-> dest[m]]
      BY <2>3 DEF Undo
    <3> HIDE DEF n
    <3> QED
      BY <1>2, <3>1 DEF SafelyNamed
  <2> QED
    BY <1>2, <2>1, <2>2, <2>3, DestStays, PlacedIsSafe
<1>3. Spec => []SafelyNamed
  BY <1>1, <1>2, ArchiveInvariant, PTL DEF Spec
<1> QED
  BY <1>3, TakenWholeAlways, PTL DEF StoredIsWhole
=============================================================================
