----------------------------- MODULE FilesProofs -----------------------------
(***************************************************************************)
(* Proofs about the two modules that keep a tree of files: Scaffold, for   *)
(* any templates, tiers and places, any number of runs at work beside one  *)
(* another and beside the user; and Bundles, for any places and files and  *)
(* any text format that ReadWholeOrNotAtAll holds of.                      *)
(***************************************************************************)
EXTENDS Scaffold, Bundles, SequenceTheorems, NaturalsInduction,
        WellFoundedInduction, TLAPS

-----------------------------------------------------------------------------
(* Paths *)

\* What a segment is: a string.  The provers are not told that a literal is one.
Name == STRING \cup {"dlc.toml", "hosts", "cmd", "engine-component", "web", ""}
Path == Seq(Name)

\* Position by position, p begins with q.
Begins(q, p) == Len(q) <= Len(p) /\ \A i \in 1..Len(q) : q[i] = p[i]

LEMMA PathLength ==
    ASSUME NEW p \in Path
    PROVE  Len(p) \in Nat /\ DOMAIN p = 1..Len(p) /\ \A i \in 1..Len(p) : p[i] \in Name
  BY DEF Path

\* The first n segments of a path.
LEMMA Beginning ==
    ASSUME NEW p \in Path, NEW n \in 0..Len(p)
    PROVE  /\ SubSeq(p, 1, n) \in Path /\ Len(SubSeq(p, 1, n)) = n
           /\ \A i \in 1..n : SubSeq(p, 1, n)[i] = p[i]
  <1>1. n \in Int /\ 1 \in Int /\ \A i \in 1..n : p[i] \in Name
    BY PathLength
  <1>2. /\ SubSeq(p, 1, n) \in Path /\ Len(SubSeq(p, 1, n)) = IF 1 <= n THEN n - 1 + 1 ELSE 0
        /\ \A i \in 1..(n - 1 + 1) : SubSeq(p, 1, n)[i] = p[1 + i - 1]
    BY <1>1, SubSeqProperties DEF Path
  <1>. QED  BY <1>1, <1>2, PathLength

LEMMA SamePath ==
    ASSUME NEW p \in Path, NEW q \in Path, Len(p) = Len(q),
           \A i \in 1..Len(p) : p[i] = q[i]
    PROVE  p = q
  BY SeqEqual DEF Path

LEMMA Within ==
    ASSUME NEW a \in Nat, NEW m \in Nat, NEW n \in Nat
    PROVE  /\ a + m = a + n => m = n
           /\ a + m <= a + n <=> m <= n
           /\ m <= n => \A i \in 1..m : i \in 1..n
           /\ \A i \in 1..m : a + i \in 1..(a + m)
           /\ \A i \in 0..(m - 1) : i \in 0..m /\ i < m
  OBVIOUS

LEMMA PrefixBegins ==
    ASSUME NEW q \in Path, NEW p \in Path
    PROVE  /\ IsPrefix(q, p) <=> Begins(q, p)
           /\ IsStrictPrefix(q, p) <=> Begins(q, p) /\ Len(q) < Len(p)
  <1>1. Len(q) \in Nat /\ Len(p) \in Nat
    BY PathLength
  <1>2. SubSeq(q, 1, Len(q)) = q
    BY SubSeqFull DEF Path
  <1>3. Len(q) <= Len(p) => (SubSeq(p, 1, Len(q)) = q <=> \A i \in 1..Len(q) : q[i] = p[i])
    <2> SUFFICES ASSUME Len(q) <= Len(p)
                 PROVE  SubSeq(p, 1, Len(q)) = q <=> \A i \in 1..Len(q) : q[i] = p[i]
      OBVIOUS
    <2>1. /\ SubSeq(p, 1, Len(q)) \in Path /\ Len(SubSeq(p, 1, Len(q))) = Len(q)
          /\ \A i \in 1..Len(q) : SubSeq(p, 1, Len(q))[i] = p[i]
      BY <1>1, Beginning
    <2>. QED  BY <2>1, SamePath
  <1>4. IsPrefix(q, p) <=> Begins(q, p)
    BY <1>2, <1>3 DEF IsPrefix, Begins
  <1>5. Begins(q, p) => (q # p <=> Len(q) < Len(p))
    BY <1>1, SamePath DEF Begins
  <1>. QED  BY <1>4, <1>5 DEF IsStrictPrefix

LEMMA AboveIsPrefix ==
    ASSUME NEW p \in Path
    PROVE  \A q : q \in Above(p) <=> q \in Path /\ Begins(q, p) /\ Len(q) < Len(p)
  <1>1. Len(p) \in Nat
    BY PathLength
  <1>2. ASSUME NEW q \in Above(p) PROVE q \in Path /\ Begins(q, p) /\ Len(q) < Len(p)
    <2>1. PICK n \in 0..(Len(p) - 1) : q = SubSeq(p, 1, n)
      BY <1>2 DEF Above
    <2>2. n \in 0..Len(p) /\ n < Len(p)
      BY <1>1, Within
    <2>3. q \in Path /\ Len(q) = n /\ \A i \in 1..n : q[i] = p[i]
      BY <2>1, <2>2, Beginning
    <2>. QED  BY <2>2, <2>3 DEF Begins
  <1>3. ASSUME NEW q \in Path, Begins(q, p), Len(q) < Len(p) PROVE q \in Above(p)
    <2>1. Len(q) \in 0..(Len(p) - 1) /\ Len(q) \in 0..Len(p)
      BY <1>1, <1>3, PathLength
    <2> DEFINE n == Len(q)
               b == SubSeq(p, 1, n)
    <2>2. b \in Path /\ Len(b) = n /\ \A i \in 1..n : b[i] = p[i]
      BY <2>1, Beginning
    <2>3. \A i \in 1..n : q[i] = p[i]
      BY <1>3 DEF Begins
    <2>4. q = b
      <3> HIDE DEF b
      <3>. QED  BY <2>2, <2>3, SamePath
    <2>. QED  BY <2>1, <2>4 DEF Above
  <1>. QED  BY <1>2, <1>3

LEMMA BeginsOrder ==
    ASSUME NEW a \in Path, NEW b \in Path, NEW c \in Path
    PROVE  /\ Begins(a, a)
           /\ Begins(a, b) /\ Begins(b, c) => Begins(a, c)
           /\ Begins(a, c) /\ Begins(b, c) /\ Len(a) <= Len(b) => Begins(a, b)
           /\ Begins(a, b) => Len(a) <= Len(b)
           /\ Begins(a, b) /\ Len(a) = Len(b) => a = b
  <1>1. Len(a) \in Nat /\ Len(b) \in Nat /\ Len(c) \in Nat
    BY PathLength
  <1>. QED  BY <1>1, SamePath DEF Begins

\* What is above something above p is above p.
LEMMA AboveAbove ==
    ASSUME NEW p \in Path, NEW q \in Above(p)
    PROVE  Above(q) \subseteq Above(p) /\ q \in Path /\ q # p
  <1>1. q \in Path /\ Begins(q, p) /\ Len(q) < Len(p)
    BY AboveIsPrefix
  <1>2. ASSUME NEW r \in Above(q) PROVE r \in Above(p)
    <2>1. r \in Path /\ Begins(r, q) /\ Len(r) < Len(q)
      BY <1>1, AboveIsPrefix
    <2>2. Begins(r, p) /\ Len(r) < Len(p)
      BY <1>1, <2>1, BeginsOrder, PathLength
    <2>. QED  BY <2>1, <2>2, AboveIsPrefix
  <1>. QED  BY <1>1, <1>2, PathLength

\* A path below a, by what follows a.
LEMMA Joined ==
    ASSUME NEW a \in Path, NEW p \in Path
    PROVE  /\ a \o p \in Path /\ Len(a \o p) = Len(a) + Len(p) /\ Begins(a, a \o p)
           /\ \A i \in 1..Len(p) : (a \o p)[Len(a) + i] = p[i]
           /\ \A q \in Path : /\ a \o p = a \o q => p = q
                              /\ Begins(a \o p, a \o q) <=> Begins(p, q)
  <1>1. \A x \in Path : Len(x) \in Nat
    BY PathLength
  <1>2. \A x \in Path :
          /\ a \o x \in Path /\ Len(a \o x) = Len(a) + Len(x)
          /\ \A i \in 1..(Len(a) + Len(x)) :
               (a \o x)[i] = IF i <= Len(a) THEN a[i] ELSE x[i - Len(a)]
    BY ConcatProperties DEF Path
  <1>3. \A x \in Path : Begins(a, a \o x)
    BY <1>1, <1>2 DEF Begins
  <1>4. ASSUME NEW x \in Path
        PROVE  /\ \A i \in 1..Len(x) : (a \o x)[Len(a) + i] = x[i]
               /\ \A i \in 1..Len(a) : (a \o x)[i] = a[i]
    <2>1. ASSUME NEW i \in 1..Len(x) PROVE (a \o x)[Len(a) + i] = x[i]
      <3>1. /\ Len(a) + i \in 1..(Len(a) + Len(x)) /\ ~(Len(a) + i <= Len(a))
            /\ (Len(a) + i) - Len(a) = i
        BY <1>1
      <3>. QED  BY <1>2, <3>1
    <2>2. \A i \in 1..Len(a) : i \in 1..(Len(a) + Len(x)) /\ i <= Len(a)
      BY <1>1
    <2>. QED  BY <1>2, <2>1, <2>2
  <1>5. ASSUME NEW q \in Path PROVE Begins(a \o p, a \o q) <=> Begins(p, q)
    <2>1. /\ Len(a) \in Nat /\ Len(p) \in Nat /\ Len(q) \in Nat
          /\ Len(a \o p) = Len(a) + Len(p) /\ Len(a \o q) = Len(a) + Len(q)
          /\ Len(a \o p) <= Len(a \o q) <=> Len(p) <= Len(q)
      BY <1>1, <1>2, Within
    <2>2. ASSUME Begins(a \o p, a \o q) PROVE Begins(p, q)
      <3>1. Len(p) <= Len(q)
        BY <2>1, <2>2 DEF Begins
      <3>2. ASSUME NEW i \in 1..Len(p) PROVE p[i] = q[i]
        <4>1. Len(a) + i \in 1..Len(a \o p) /\ i \in 1..Len(q)
          BY <2>1, <3>1, Within
        <4>2. (a \o p)[Len(a) + i] = (a \o q)[Len(a) + i]
          BY <2>2, <4>1 DEF Begins
        <4>3. (a \o p)[Len(a) + i] = p[i] /\ (a \o q)[Len(a) + i] = q[i]
          BY <1>4, <4>1
        <4>. QED  BY <4>2, <4>3
      <3>. QED  BY <3>1, <3>2 DEF Begins
    <2>3. ASSUME Begins(p, q) PROVE Begins(a \o p, a \o q)
      <3>1. Len(p) <= Len(q) /\ \A i \in 1..Len(p) : p[i] = q[i]
        BY <2>3 DEF Begins
      <3>2. ASSUME NEW i \in 1..(Len(a) + Len(p)) PROVE (a \o p)[i] = (a \o q)[i]
        <4>1. i \in 1..(Len(a) + Len(q)) /\ (~(i <= Len(a)) => i - Len(a) \in 1..Len(p))
          BY <1>1, <3>1
        <4>2. /\ (a \o p)[i] = IF i <= Len(a) THEN a[i] ELSE p[i - Len(a)]
              /\ (a \o q)[i] = IF i <= Len(a) THEN a[i] ELSE q[i - Len(a)]
          BY <1>2, <4>1
        <4>. QED  BY <3>1, <4>1, <4>2
      <3>. QED  BY <1>2, <2>1, <3>1, <3>2 DEF Begins
    <2>. QED  BY <2>2, <2>3
  <1>6. ASSUME NEW q \in Path, a \o p = a \o q PROVE p = q
    <2>1. Len(p) = Len(q)
      <3>1. /\ Len(a) \in Nat /\ Len(p) \in Nat /\ Len(q) \in Nat
            /\ Len(a \o p) = Len(a) + Len(p) /\ Len(a \o q) = Len(a) + Len(q)
        BY <1>1, <1>2
      <3>2. Len(a \o p) = Len(a \o q)
        BY <1>6
      <3>. QED  BY <3>1, <3>2, Within
    <2>2. Begins(p, q)
      BY <1>2, <1>5, <1>6, BeginsOrder
    <2>. QED  BY <2>1, <2>2, BeginsOrder
  <1>. QED  BY <1>2, <1>3, <1>4, <1>5, <1>6

-----------------------------------------------------------------------------
(* Induction, in terms of sets *)

Descent == {ss \in Nat \X Nat : ss[1] < ss[2]}

LEMMA SetInduction ==
    ASSUME NEW S, 0 \in S, \A n \in Nat : n \in S => n + 1 \in S
    PROVE  Nat \subseteq S
  <1>1. IsWellFoundedOn(Descent, Nat)
    BY NatLessThanWellFounded DEF OpToRel, Descent
  <1>2. SUFFICES ASSUME Nat \ S # {} PROVE FALSE
    OBVIOUS
  <1>3. PICK n \in Nat \ S : \A m \in Nat \ S : <<m, n>> \notin Descent
    BY <1>1, <1>2, WFMin
  <1>4. n - 1 \in Nat /\ n - 1 < n
    BY <1>3
  <1>5. n - 1 \notin S
    BY <1>3, <1>4
  <1>6. <<n - 1, n>> \in Nat \X Nat /\ <<n - 1, n>>[1] = n - 1 /\ <<n - 1, n>>[2] = n
    BY <1>4
  <1>7. <<n - 1, n>> \in Descent
    BY <1>4, <1>6 DEF Descent
  <1>. QED  BY <1>3, <1>4, <1>5, <1>7

-----------------------------------------------------------------------------
(* Scaffold: the files of a project *)

\* f emits the first n templates for the tiers, each once and no others.
Emits(f, n, tiers) ==
    /\ f \in Seq(Path)
    /\ \A i \in 1..Len(f) : \E j \in 1..n : f[i] = Templates[j] /\ Emitted(f[i], tiers)
    /\ \A j \in 1..n : Emitted(Templates[j], tiers) => \E i \in 1..Len(f) : f[i] = Templates[j]
    /\ \A i, k \in 1..Len(f) : f[i] = f[k] => i = k

LEMMA SourcePaths ==
    Seq(STRING) \subseteq Path /\ Apps \subseteq Path /\ UserFiles \subseteq Path
  <1>1. STRING \subseteq Name
    BY DEF Name
  <1>2. Seq(STRING) \subseteq Path
    BY <1>1, SeqMonotonic DEF Path
  <1>. QED  BY <1>2, ScaffoldAssumption

LEMMA TemplatePaths ==
    /\ Len(Templates) \in Nat /\ DOMAIN Templates = 1..Len(Templates)
    /\ \A i \in 1..Len(Templates) : Templates[i] \in Path /\ Templates[i] # <<>>
    /\ \A i, j \in 1..Len(Templates) : Templates[i] = Templates[j] => i = j
  <1>1. Templates \in Seq(Path \ {<<>>})
    <2> DEFINE T == Seq(STRING) \ {<<>>}
               P == Path \ {<<>>}
    <2>1. Templates \in Seq(T)
      BY ScaffoldAssumption
    <2>2. T \subseteq P
      BY SourcePaths
    <2> HIDE DEF T, P
    <2>3. Templates \in Seq(P)
      BY <2>1, <2>2, SeqMonotonic
    <2>. QED  BY <2>3 DEF P
  <1> DEFINE P == Path \ {<<>>}
  <1> HIDE DEF P
  <1>2. Templates \in Seq(P)
    BY <1>1 DEF P
  <1>3. /\ Len(Templates) \in Nat /\ DOMAIN Templates = 1..Len(Templates)
        /\ \A i \in 1..Len(Templates) : Templates[i] \in P
    BY <1>2
  <1>4. \A i, j \in DOMAIN Templates : Templates[i] = Templates[j] => i = j
    BY ScaffoldAssumption
  <1>. QED  BY <1>3, <1>4 DEF P

\* Appending one element to a sequence of paths.
LEMMA Longer ==
    ASSUME NEW f \in Seq(Path), NEW p \in Path
    PROVE  /\ Append(f, p) \in Seq(Path) /\ Len(Append(f, p)) = Len(f) + 1 /\ Len(f) \in Nat
           /\ \A i \in 1..Len(f) : Append(f, p)[i] = f[i]
           /\ Append(f, p)[Len(f) + 1] = p
  OBVIOUS

LEMMA EmitsNext ==
    ASSUME NEW f, NEW n \in Nat, n + 1 <= Len(Templates), NEW tiers, Emits(f, n, tiers)
    PROVE  LET p == Templates[n + 1]
           IN  Emits(IF Emitted(p, tiers) THEN Append(f, p) ELSE f, n + 1, tiers)
  <1> DEFINE p == Templates[n + 1]
             g == Append(f, p)
  <1>1. n + 1 \in 1..Len(Templates) /\ \A j \in 1..n : j \in 1..Len(Templates) /\ j # n + 1
    BY TemplatePaths
  <1>2. p \in Path /\ f \in Seq(Path)
    BY <1>1, TemplatePaths DEF Emits
  <1>3. \A j \in 1..(n + 1) : j \in 1..n \/ j = n + 1
    OBVIOUS
  <1>4. 1..n \subseteq 1..(n + 1) /\ n + 1 \in 1..(n + 1)
    OBVIOUS
  <1>5. /\ \A i \in 1..Len(f) : \E j \in 1..n : f[i] = Templates[j] /\ Emitted(f[i], tiers)
        /\ \A j \in 1..n : Emitted(Templates[j], tiers) =>
                             \E i \in 1..Len(f) : f[i] = Templates[j]
        /\ \A i, k \in 1..Len(f) : f[i] = f[k] => i = k
    BY DEF Emits
  <1>6. CASE ~Emitted(p, tiers)
    <2>1. \A j \in 1..(n + 1) : Emitted(Templates[j], tiers) =>
                                  \E i \in 1..Len(f) : f[i] = Templates[j]
      BY <1>3, <1>5, <1>6
    <2>2. \A i \in 1..Len(f) : \E j \in 1..(n + 1) :
             f[i] = Templates[j] /\ Emitted(f[i], tiers)
      BY <1>4, <1>5
    <2>. QED  BY <1>2, <1>5, <1>6, <2>1, <2>2 DEF Emits
  <1>7. CASE Emitted(p, tiers)
    <2>1. /\ g \in Seq(Path) /\ Len(g) = Len(f) + 1 /\ Len(f) \in Nat
          /\ \A i \in 1..Len(f) : g[i] = f[i]
          /\ g[Len(f) + 1] = p
      BY <1>2, Longer
    <2> DEFINE m == Len(f)
    <2>2. \A i \in 1..(m + 1) : i \in 1..m \/ i = m + 1
      BY <2>1
    <2>3. 1..m \subseteq 1..(m + 1) /\ m + 1 \in 1..(m + 1)
      BY <2>1
    <2>4. \A i \in 1..m : f[i] # p
      BY <1>1, <1>5, TemplatePaths
    <2>5. p = Templates[n + 1]
      OBVIOUS
    <2> HIDE DEF g, m, p
    <2>6. ASSUME NEW i \in 1..(m + 1)
          PROVE  \E j \in 1..(n + 1) : g[i] = Templates[j] /\ Emitted(g[i], tiers)
      <3>1. CASE i \in 1..m
        BY <1>4, <1>5, <2>1, <3>1 DEF m
      <3>2. CASE i = m + 1
        BY <1>4, <1>7, <2>1, <2>5, <3>2 DEF m
      <3>. QED  BY <2>2, <3>1, <3>2
    <2>7. ASSUME NEW j \in 1..(n + 1), Emitted(Templates[j], tiers)
          PROVE  \E i \in 1..(m + 1) : g[i] = Templates[j]
      <3>1. CASE j \in 1..n
        BY <1>5, <2>1, <2>3, <2>7, <3>1 DEF m
      <3>2. CASE j = n + 1
        BY <2>1, <2>3, <2>5, <3>2 DEF m
      <3>. QED  BY <1>3, <3>1, <3>2
    <2>8. ASSUME NEW i \in 1..(m + 1), NEW k \in 1..(m + 1), g[i] = g[k] PROVE i = k
      <3>1. \A x \in 1..m : g[x] = f[x] /\ g[x] # p
        BY <2>1, <2>4 DEF m
      <3>2. g[m + 1] = p /\ \A x, y \in 1..m : f[x] = f[y] => x = y
        BY <1>5, <2>1 DEF m
      <3>. QED  BY <2>2, <2>8, <3>1, <3>2
    <2>9. Len(g) = m + 1
      BY <2>1 DEF m
    <2>10. Emits(g, n + 1, tiers)
      BY <2>1, <2>6, <2>7, <2>8, <2>9 DEF Emits
    <2>. QED  BY <1>7, <2>10 DEF g, p
  <1>. QED  BY <1>6, <1>7

\* scaffoldFiles() yields the templates of the tiers and of none, each once.
LEMMA FilesEmitted ==
    ASSUME NEW tiers
    PROVE  Emits(ScaffoldFiles(tiers), Len(Templates), tiers)
  <1> DEFINE N == Len(Templates)
             step(f, i) == IF i = 0 THEN <<>>
                           ELSE IF Emitted(Templates[i], tiers)
                                THEN Append(f[i - 1], Templates[i])
                           ELSE f[i - 1]
             files == CHOOSE f : f = [i \in 0..N |-> step(f, i)]
             Is(f, n) == f = [i \in 0..n |-> step(f, i)]
             Has(n) == \E f : Is(f, n) /\ \A i \in 0..n : Emits(f[i], i, tiers)
             S == {n \in Nat : n <= N => Has(n)}
  <1>1. N \in Nat
    BY TemplatePaths
  <1>2. ScaffoldFiles(tiers) = files[N]
    BY DEF ScaffoldFiles
  <1>3. 0 \in S
    <2> DEFINE f == [i \in 0..0 |-> <<>>]
    <2>1. Is(f, 0)
      OBVIOUS
    <2>2. Emits(<<>>, 0, tiers)
      BY DEF Emits
    <2>3. \A i \in 0..0 : f[i] = <<>> /\ i = 0
      OBVIOUS
    <2>. QED  BY <2>1, <2>2, <2>3
  <1>4. ASSUME NEW n \in Nat, n \in S PROVE n + 1 \in S
    <2>1. n + 1 \in Nat /\ (n + 1 <= N => n <= N)
      BY <1>1
    <2>2. SUFFICES ASSUME n + 1 <= N PROVE Has(n + 1)
      <3> HIDE DEF Has
      <3>. QED  BY <2>1
    <2>3. Has(n)
      <3> HIDE DEF Has
      <3>. QED  BY <1>4, <2>1, <2>2
    <2>4. PICK f : Is(f, n) /\ \A i \in 0..n : Emits(f[i], i, tiers)
      BY <2>3
    <2> DEFINE p == Templates[n + 1]
               next == IF Emitted(p, tiers) THEN Append(f[n], p) ELSE f[n]
               g == [i \in 0..(n + 1) |-> IF i = n + 1 THEN next ELSE f[i]]
    <2>5. n \in 0..n /\ n + 1 \in 1..N
      BY <1>1, <2>2
    <2>6. Emits(f[n], n, tiers)
      BY <2>4, <2>5
    <2>7. Emits(next, n + 1, tiers)
      BY <2>5, <2>6, EmitsNext
    <2>8. next = step(f, n + 1)
      OBVIOUS
    <2>9. \A i \in 0..n : f[i] = step(f, i)
      BY <2>4
    <2> HIDE DEF next
    <2>10. \A i \in 0..(n + 1) : i = n + 1 \/ i \in 0..n
      OBVIOUS
    <2>11. ASSUME NEW i \in 0..(n + 1) PROVE step(g, i) = step(f, i)
      <3>1. i # 0 => i - 1 \in 0..n /\ i - 1 # n + 1 /\ i - 1 \in 0..(n + 1)
        OBVIOUS
      <3>2. i # 0 => g[i - 1] = f[i - 1]
        BY <3>1
      <3>. QED  BY <3>2
    <2>12. \A i \in 0..(n + 1) : g[i] = step(g, i)
      BY <2>8, <2>9, <2>10, <2>11
    <2>13. Is(g, n + 1)
      BY <2>12
    <2>14. \A i \in 0..(n + 1) : Emits(g[i], i, tiers)
      BY <2>4, <2>7, <2>10
    <2>. QED  BY <2>13, <2>14
  <1>5. N \in S
    <2> HIDE DEF S
    <2>. QED  BY <1>1, <1>3, <1>4, SetInduction
  <1>6. PICK f : Is(f, N) /\ \A i \in 0..N : Emits(f[i], i, tiers)
    BY <1>1, <1>5
  <1>7. Is(files, N)
    BY <1>6
  <1>8. \A i \in 0..N : files[i] = step(files, i) /\ f[i] = step(f, i)
    BY <1>6, <1>7
  <1> HIDE DEF files
  <1> DEFINE T == {n \in Nat : n <= N => files[n] = f[n]}
  <1>9. 0 \in T
    BY <1>1, <1>8
  <1>10. ASSUME NEW n \in Nat, n \in T PROVE n + 1 \in T
    <2>1. SUFFICES ASSUME n + 1 <= N PROVE files[n + 1] = f[n + 1]
      OBVIOUS
    <2>2. n + 1 \in 0..N /\ n + 1 # 0 /\ (n + 1) - 1 = n /\ files[n] = f[n]
      BY <1>1, <1>10, <2>1
    <2>3. files[n + 1] = step(files, n + 1) /\ f[n + 1] = step(f, n + 1)
      BY <1>8, <2>2
    <2>. QED  BY <2>2, <2>3
  <1>11. N \in T
    <2> HIDE DEF T
    <2>. QED  BY <1>1, <1>9, <1>10, SetInduction
  <1>. QED  BY <1>1, <1>2, <1>6, <1>11

-----------------------------------------------------------------------------
(* Scaffold: the invariant *)

RunState == [app : Path, tiers : SUBSET Landscape, todo : Seq(Path), open : BOOLEAN]

\* Of run k: its files, how many of them are written, and where the next one goes.
FilesOf(k) == ScaffoldFiles(k.tiers)
DoneOf(k) == Len(FilesOf(k)) - Len(k.todo)
NextOf(k) == k.app \o Head(k.todo)

TreeInv ==
    /\ DOMAIN disk \subseteq Path /\ IsDir(<<>>)
    /\ \A p \in DOMAIN disk : \A q \in Above(p) : IsDir(q)

\* A run at work has the rest of its files before it.
Working(k) ==
    /\ k.app \in Apps /\ OptionsAccepted(k.tiers)
    /\ k.todo \in Seq(Path) /\ Len(k.todo) <= Len(FilesOf(k))
    /\ \A i \in 1..Len(k.todo) : k.todo[i] = FilesOf(k)[DoneOf(k) + i]
    /\ k.open => k.todo # <<>>

Holding(k, d) == k.open => NextOf(k) \in DOMAIN d /\ d[NextOf(k)] # Directory

\* Where nobody meddled, what stands below the project is what the run has made.
OwnWork(k, d) ==
    /\ \A q \in DOMAIN d : IsStrictPrefix(k.app, q) =>
          IF d[q] = Directory
          THEN \E i \in 1..Len(FilesOf(k)) : q \in Above(k.app \o FilesOf(k)[i])
          ELSE \/ \E i \in 1..DoneOf(k) : q = k.app \o FilesOf(k)[i]
               \/ k.open /\ q = NextOf(k)
    /\ \A i \in 1..DoneOf(k) :
          LET q == k.app \o FilesOf(k)[i]
          IN  q \in DOMAIN d /\ d[q] = ContentOf(FilesOf(k)[i], k.tiers)
    /\ k.open => d[NextOf(k)] = Truncated

RunInv(r) ==
    AtWork(r) => /\ Working(run[r]) /\ Holding(run[r], disk)
                 /\ ~meddled[r] => OwnWork(run[r], disk)

SInv ==
    /\ TreeInv
    /\ run \in [Runs -> RunState]
    /\ meddled \in [Runs -> BOOLEAN]
    /\ \A r \in Runs : RunInv(r)

-----------------------------------------------------------------------------
(* Scaffold: what a step does to the tree *)

\* A step at p: at most p itself and directories above it come to be there.
TouchedAt(p) ==
    /\ p \in Path /\ ~IsDir(p)
    /\ \A q \in Above(p) : ~HasFile(q)
    /\ DOMAIN disk \subseteq DOMAIN disk' /\ Above(p) \subseteq DOMAIN disk'
    /\ DOMAIN disk' \subseteq DOMAIN disk \cup Above(p) \cup {p}
    /\ \A q \in DOMAIN disk : q # p => disk'[q] = disk[q]
    /\ \A q \in Above(p) : disk'[q] = Directory
    /\ p \in DOMAIN disk' => disk'[p] # Directory

LEMMA Contents ==
    /\ Truncated # Directory /\ Torn # Directory /\ ByUser # Directory
    /\ \A p, tiers : ContentOf(p, tiers) \notin {Directory, Truncated, Torn, ByUser}
    /\ \A tiers : ContentOf(<<"dlc.toml">>, tiers) = ManifestOf(tiers)
  BY DEF Directory, Truncated, Torn, ByUser, Rendered, ManifestOf, ContentOf

LEMMA TouchedTree ==
    ASSUME TreeInv, NEW p, TouchedAt(p)
    PROVE  TreeInv' /\ \A q \in DOMAIN disk : disk[q] = Directory <=> disk'[q] = Directory
  <1>1. p \in Path /\ \A q \in Above(p) : q \in Path /\ q # p /\ Above(q) \subseteq Above(p)
    BY AboveAbove DEF TouchedAt
  <1>2. DOMAIN disk' \subseteq Path
    BY <1>1 DEF TouchedAt, TreeInv
  <1>3. \A q \in DOMAIN disk : disk[q] = Directory <=> disk'[q] = Directory
    BY DEF TouchedAt, IsDir
  <1>4. IsDir(<<>>)'
    BY <1>3 DEF TouchedAt, TreeInv, IsDir
  <1>5. ASSUME NEW x \in DOMAIN disk', NEW q \in Above(x) PROVE IsDir(q)'
    <2>1. CASE x \in DOMAIN disk
      <3>1. IsDir(q)
        BY <2>1, <1>5 DEF TreeInv
      <3>. QED  BY <1>3, <3>1 DEF IsDir, TouchedAt
    <2>2. CASE x \in Above(p) \cup {p}
      <3>1. q \in Above(p)
        BY <1>1, <1>5, <2>2
      <3>. QED  BY <3>1 DEF TouchedAt, IsDir
    <2>. QED  BY <1>5, <2>1, <2>2 DEF TouchedAt
  <1>. QED  BY <1>2, <1>3, <1>4, <1>5 DEF TreeInv

\* Below a directory that p is not in, nothing changes.
LEMMA TouchedElsewhere ==
    ASSUME TreeInv, NEW p, TouchedAt(p), NEW a \in Path, ~IsPrefix(a, p),
           NEW q \in Path, IsPrefix(a, q)
    PROVE  (q \in DOMAIN disk' <=> q \in DOMAIN disk)
           /\ (q \in DOMAIN disk => disk'[q] = disk[q])
  <1>1. p \in Path /\ Begins(a, q) /\ ~Begins(a, p)
    BY PrefixBegins DEF TouchedAt
  <1>2. q # p
    BY <1>1
  <1>3. q \notin Above(p)
    BY <1>1, AboveIsPrefix, BeginsOrder
  <1>. QED  BY <1>2, <1>3 DEF TouchedAt

LEMMA Arriving ==
    ASSUME NEW k \in RunState, Working(k)
    PROVE  /\ k.app \in Path /\ FilesOf(k) \in Seq(Path)
           /\ Len(FilesOf(k)) \in Nat /\ DoneOf(k) \in Nat /\ DoneOf(k) <= Len(FilesOf(k))
           /\ \A i \in 1..Len(FilesOf(k)) :
                /\ FilesOf(k)[i] \in Path
                /\ k.app \o FilesOf(k)[i] \in Path
                /\ IsStrictPrefix(k.app, k.app \o FilesOf(k)[i])
                /\ \A j \in 1..Len(FilesOf(k)) :
                     k.app \o FilesOf(k)[i] = k.app \o FilesOf(k)[j] => i = j
  <1> DEFINE f == FilesOf(k)
             n == Len(f)
  <1>1. Emits(f, Len(Templates), k.tiers)
    BY FilesEmitted DEF FilesOf
  <1>2. k.app \in Path /\ k.todo \in Seq(Path) /\ Len(k.todo) <= n
    BY DEF RunState, Working
  <1>3. f \in Seq(Path) /\ n \in Nat /\ DoneOf(k) \in Nat /\ DoneOf(k) <= n
    BY <1>1, <1>2 DEF Emits, DoneOf
  <1> HIDE DEF f
  <1>4. ASSUME NEW i \in 1..n
        PROVE  /\ f[i] \in Path /\ Len(f[i]) > 0 /\ k.app \o f[i] \in Path
               /\ IsStrictPrefix(k.app, k.app \o f[i])
    <2>1. f[i] \in Path
      BY <1>3
    <2>2. f[i] # <<>>
      BY <1>1, TemplatePaths DEF Emits
    <2>3. Len(f[i]) > 0
      BY <2>1, <2>2, PathLength, EmptySeq DEF Path
    <2>4. /\ k.app \o f[i] \in Path /\ Len(k.app \o f[i]) = Len(k.app) + Len(f[i])
          /\ Begins(k.app, k.app \o f[i])
      BY <1>2, <2>1, Joined
    <2>5. Len(k.app) \in Nat /\ Len(f[i]) \in Nat
      BY <1>2, <2>1, PathLength
    <2>6. Len(k.app) < Len(k.app \o f[i])
      <3>1. \A x, y \in Nat : y > 0 => x < x + y
        OBVIOUS
      <3>. QED  BY <2>3, <2>4, <2>5, <3>1
    <2>7. IsStrictPrefix(k.app, k.app \o f[i])
      BY <1>2, <2>4, <2>6, PrefixBegins
    <2>. QED  BY <2>1, <2>3, <2>4, <2>7
  <1>5. ASSUME NEW i \in 1..n, NEW j \in 1..n, k.app \o f[i] = k.app \o f[j]
        PROVE  i = j
    <2>1. f[i] = f[j]
      <3> DEFINE p == f[i]
                 q == f[j]
      <3>1. p \in Path /\ q \in Path /\ k.app \o p = k.app \o q /\ k.app \in Path
        BY <1>2, <1>4, <1>5
      <3> HIDE DEF p, q
      <3>2. p = q
        BY <3>1, Joined
      <3>. QED  BY <3>2 DEF p, q
    <2>. QED  BY <1>1, <2>1 DEF Emits
  <1>. QED  BY <1>2, <1>3, <1>4, <1>5 DEF f

\* The file that is next.
LEMMA NextFile ==
    ASSUME NEW k \in RunState, Working(k), k.todo # <<>>
    PROVE  /\ DoneOf(k) + 1 \in 1..Len(FilesOf(k))
           /\ Head(k.todo) = FilesOf(k)[DoneOf(k) + 1]
           /\ NextOf(k) = k.app \o FilesOf(k)[DoneOf(k) + 1]
           /\ NextOf(k) \in Path /\ IsStrictPrefix(k.app, NextOf(k))
           /\ \A i \in 1..DoneOf(k) : NextOf(k) # k.app \o FilesOf(k)[i]
  <1>1. k.todo \in Seq(Path) /\ Len(k.todo) \in Nat /\ Len(k.todo) > 0
    BY EmptySeq DEF Working
  <1>2. Len(FilesOf(k)) \in Nat /\ DoneOf(k) \in Nat
    BY Arriving
  <1>3. DoneOf(k) = Len(FilesOf(k)) - Len(k.todo)
    BY DEF DoneOf
  <1>4. DoneOf(k) + 1 \in 1..Len(FilesOf(k))
    BY <1>1, <1>2, <1>3
  <1>5. Head(k.todo) = k.todo[1] /\ 1 \in 1..Len(k.todo)
    BY <1>1
  <1>6. Head(k.todo) = FilesOf(k)[DoneOf(k) + 1]
    BY <1>5 DEF Working
  <1>7. ASSUME NEW i \in 1..DoneOf(k) PROVE NextOf(k) # k.app \o FilesOf(k)[i]
    <2>1. i \in 1..Len(FilesOf(k)) /\ i # DoneOf(k) + 1
      BY <1>4, <1>2
    <2>. QED  BY <1>4, <1>6, <2>1, Arriving DEF NextOf
  <1>. QED  BY <1>4, <1>6, <1>7, Arriving DEF NextOf

LEMMA FileTouches ==
    ASSUME NEW p \in Path, NEW content, content # Directory, ~IsDir(p),
           \A q \in Above(p) : IsDir(q), disk' = WithFile(p, content)
    PROVE  /\ TouchedAt(p) /\ DOMAIN disk' = DOMAIN disk \cup {p} /\ disk'[p] = content
           /\ \A q \in DOMAIN disk : q # p => disk'[q] = disk[q]
  <1>1. /\ DOMAIN disk' = DOMAIN disk \cup {p} /\ disk'[p] = content
        /\ \A q \in DOMAIN disk : q # p => disk'[q] = disk[q]
    BY DEF WithFile
  <1>2. \A q \in Above(p) : q # p /\ q \in DOMAIN disk /\ disk[q] = Directory
    BY AboveAbove DEF IsDir
  <1>. QED  BY <1>1, <1>2 DEF TouchedAt, HasFile

LEMMA DirsTouch ==
    ASSUME NEW p \in Path, ~IsDir(p), \A q \in Above(p) : ~HasFile(q), disk' = WithDirs(p)
    PROVE  /\ TouchedAt(p) /\ DOMAIN disk' = DOMAIN disk \cup Above(p)
           /\ \A q \in DOMAIN disk : disk'[q] = disk[q]
           /\ \A q \in DOMAIN disk' : q \notin DOMAIN disk => disk'[q] = Directory
  <1>1. /\ DOMAIN disk' = DOMAIN disk \cup Above(p)
        /\ \A q \in DOMAIN disk : disk'[q] = disk[q]
        /\ \A q \in DOMAIN disk' : q \notin DOMAIN disk => disk'[q] = Directory
    BY DEF WithDirs
  <1>2. p \notin Above(p)
    BY AboveAbove
  <1>3. \A q \in Above(p) : disk'[q] = Directory
    BY <1>1 DEF HasFile
  <1>4. p \in DOMAIN disk' => disk'[p] # Directory
    BY <1>1, <1>2 DEF IsDir
  <1>. QED  BY <1>1, <1>3, <1>4 DEF TouchedAt

LEMMA UserTouches ==
    ASSUME NEW p \in UserFiles, UserWrites(p)
    PROVE  TouchedAt(p)
  <1>1. /\ p \in Path /\ ~IsDir(p) /\ \A q \in Above(p) : ~HasFile(q)
        /\ disk' = [q \in DOMAIN disk \cup Above(p) \cup {p} |->
                      IF q = p THEN ByUser
                      ELSE IF q \in DOMAIN disk THEN disk[q] ELSE Directory]
    BY SourcePaths DEF UserWrites
  <1>2. \A q \in Above(p) : q # p
    BY <1>1, AboveAbove
  <1>3. /\ DOMAIN disk' = DOMAIN disk \cup Above(p) \cup {p} /\ disk'[p] = ByUser
        /\ \A q \in DOMAIN disk : q # p => disk'[q] = disk[q]
        /\ \A q \in Above(p) : q \notin DOMAIN disk => disk'[q] = Directory
    BY <1>1, <1>2
  <1>4. \A q \in Above(p) : disk'[q] = Directory
    BY <1>1, <1>2, <1>3 DEF HasFile
  <1>. QED  BY <1>1, <1>3, <1>4, Contents DEF TouchedAt

\* A run that somebody else's step leaves as it is.
LEMMA OtherRun ==
    ASSUME SInv, NEW r \in Runs, run'[r] = run[r], NEW p, TouchedAt(p),
           AtWork(r) /\ ~meddled'[r] => ~meddled[r] /\ ~IsPrefix(run[r].app, p)
    PROVE  RunInv(r)'
  <1> DEFINE k == run[r]
  <1>1. SUFFICES ASSUME AtWork(r)
                 PROVE  /\ Working(k) /\ Holding(k, disk')
                        /\ ~meddled'[r] => OwnWork(k, disk')
    BY DEF RunInv, AtWork
  <1>2. /\ TreeInv /\ k \in RunState /\ Working(k) /\ Holding(k, disk)
        /\ ~meddled[r] => OwnWork(k, disk)
    BY <1>1 DEF SInv, RunInv
  <1>3. TreeInv' /\ \A q \in DOMAIN disk : disk[q] = Directory <=> disk'[q] = Directory
    BY <1>2, TouchedTree
  <1>4. Holding(k, disk')
    BY <1>2, <1>3 DEF Holding, TouchedAt
  <1> HIDE DEF k
  <1>5. ASSUME ~meddled'[r] PROVE OwnWork(k, disk')
    <2>1. OwnWork(k, disk) /\ ~IsPrefix(k.app, p) /\ k.app \in Path
      BY <1>1, <1>2, <1>5 DEF k, RunState
    <2>2. DOMAIN disk \subseteq Path /\ DOMAIN disk' \subseteq Path
      BY <1>2, <1>3 DEF TreeInv
    <2>3. \A q \in Path : IsStrictPrefix(k.app, q) =>
             /\ q \in DOMAIN disk' <=> q \in DOMAIN disk
             /\ q \in DOMAIN disk => disk'[q] = disk[q]
      BY <1>2, <2>1, TouchedElsewhere DEF IsStrictPrefix
    <2>4. ASSUME NEW q \in DOMAIN disk', IsStrictPrefix(k.app, q)
          PROVE  IF disk'[q] = Directory
                 THEN \E i \in 1..Len(FilesOf(k)) : q \in Above(k.app \o FilesOf(k)[i])
                 ELSE \/ \E i \in 1..DoneOf(k) : q = k.app \o FilesOf(k)[i]
                      \/ k.open /\ q = NextOf(k)
      <3>1. q \in DOMAIN disk /\ disk'[q] = disk[q]
        BY <2>2, <2>3, <2>4
      <3>. QED  BY <2>1, <2>4, <3>1 DEF OwnWork
    <2>5. ASSUME NEW i \in 1..DoneOf(k)
          PROVE  LET q == k.app \o FilesOf(k)[i]
                 IN  q \in DOMAIN disk' /\ disk'[q] = ContentOf(FilesOf(k)[i], k.tiers)
      <3> DEFINE q == k.app \o FilesOf(k)[i]
      <3>1. Len(FilesOf(k)) \in Nat /\ DoneOf(k) \in Nat /\ DoneOf(k) <= Len(FilesOf(k))
        BY <1>2, Arriving
      <3>2. i \in 1..Len(FilesOf(k))
        BY <3>1
      <3>3. q \in Path /\ IsStrictPrefix(k.app, q)
        BY <1>2, <3>2, Arriving
      <3>4. q \in DOMAIN disk /\ disk[q] = ContentOf(FilesOf(k)[i], k.tiers)
        BY <2>1 DEF OwnWork
      <3>. QED  BY <2>3, <3>3, <3>4
    <2>6. ASSUME k.open PROVE disk'[NextOf(k)] = Truncated
      <3>1. k.todo # <<>>
        BY <1>2, <2>6 DEF Working
      <3>2. NextOf(k) \in Path /\ IsStrictPrefix(k.app, NextOf(k))
        BY <1>2, <3>1, NextFile
      <3>3. NextOf(k) \in DOMAIN disk /\ disk[NextOf(k)] = Truncated
        BY <1>2, <2>1, <2>6 DEF OwnWork, Holding
      <3>. QED  BY <2>3, <3>2, <3>3
    <2>. QED  BY <2>4, <2>5, <2>6 DEF OwnWork
  <1>. QED  BY <1>2, <1>4, <1>5 DEF k

-----------------------------------------------------------------------------
(* Scaffold: the steps of a run *)

\* Where a run that is about to write stands.
LEMMA AtTarget ==
    ASSUME SInv, NEW r \in Runs, Writing(r)
    PROVE  /\ run[r] \in RunState /\ Working(run[r]) /\ Holding(run[r], disk)
           /\ ~meddled[r] => OwnWork(run[r], disk)
           /\ run[r].todo # <<>> /\ Target(r) = NextOf(run[r])
           /\ Target(r) \in Path /\ run[r].app \in Path /\ IsStrictPrefix(run[r].app, Target(r))
           /\ AtWork(r)
  <1>1. /\ run[r] \in RunState /\ Working(run[r]) /\ Holding(run[r], disk)
        /\ ~meddled[r] => OwnWork(run[r], disk)
        /\ run[r].todo # <<>> /\ Target(r) = NextOf(run[r]) /\ AtWork(r)
    BY DEF SInv, RunInv, Writing, Target, NextOf
  <1>2. NextOf(run[r]) \in Path /\ IsStrictPrefix(run[r].app, NextOf(run[r]))
    BY <1>1, NextFile
  <1>. QED  BY <1>1, <1>2 DEF RunState

\* Whom a step of r at p meddles with.
LEMMA Meddling ==
    ASSUME NEW r \in Runs, NEW p, meddled \in [Runs -> BOOLEAN], meddled' = MeddledBy(r, p)
    PROVE  /\ meddled' \in [Runs -> BOOLEAN] /\ meddled'[r] = meddled[r]
           /\ \A s \in Runs : s # r /\ AtWork(s) /\ ~meddled'[s] =>
                                ~meddled[s] /\ ~IsPrefix(run[s].app, p)
  <1> DEFINE touched(s) == meddled[s] \/ (s # r /\ AtWork(s) /\ IsPrefix(run[s].app, p))
  <1>1. meddled' = [s \in Runs |-> touched(s)]
    BY DEF MeddledBy
  <1>2. \A s \in Runs : touched(s) \in BOOLEAN
    OBVIOUS
  <1>3. touched(r) = meddled[r]
    OBVIOUS
  <1>4. \A s \in Runs : s # r /\ AtWork(s) /\ ~touched(s) =>
                          ~meddled[s] /\ ~IsPrefix(run[s].app, p)
    OBVIOUS
  <1> HIDE DEF touched
  <1>. QED  BY <1>1, <1>2, <1>3, <1>4

LEMMA MakeDirsInv ==
    ASSUME SInv, NEW r \in Runs, MakeDirs(r)
    PROVE  SInv'
  <1> DEFINE k == run[r]
             p == Target(r)
  <1>1. /\ Writing(r) /\ ~k.open /\ ~IsDir(p) /\ \A q \in Above(p) : ~HasFile(q)
        /\ disk' = WithDirs(p) /\ meddled' = MeddledBy(r, p) /\ run' = run
    BY DEF MakeDirs, Blocked
  <1>2. /\ k \in RunState /\ Working(k)
        /\ ~meddled[r] => OwnWork(k, disk)
        /\ k.todo # <<>> /\ p = NextOf(k) /\ p \in Path /\ AtWork(r)
    BY <1>1, AtTarget
  <1>3. /\ TouchedAt(p) /\ DOMAIN disk' = DOMAIN disk \cup Above(p)
        /\ \A q \in DOMAIN disk : disk'[q] = disk[q]
        /\ \A q \in DOMAIN disk' : q \notin DOMAIN disk => disk'[q] = Directory
    BY <1>1, <1>2, DirsTouch
  <1>4. /\ meddled' \in [Runs -> BOOLEAN] /\ meddled'[r] = meddled[r]
        /\ \A s \in Runs : s # r /\ AtWork(s) /\ ~meddled'[s] =>
                             ~meddled[s] /\ ~IsPrefix(run[s].app, p)
    BY <1>1, Meddling DEF SInv
  <1> HIDE DEF k, p
  <1>5. TreeInv'
    BY <1>3, TouchedTree DEF SInv
  <1>6. ASSUME NEW s \in Runs, s # r PROVE RunInv(s)'
    BY <1>1, <1>3, <1>4, <1>6, OtherRun
  <1>7. RunInv(r)'
    <2>1. SUFFICES ASSUME ~meddled[r] PROVE OwnWork(k, disk')
      BY <1>1, <1>2, <1>4 DEF RunInv, Holding, k
    <2>2. OwnWork(k, disk)
      BY <1>2, <2>1
    <2>3. /\ DoneOf(k) + 1 \in 1..Len(FilesOf(k))
          /\ p = k.app \o FilesOf(k)[DoneOf(k) + 1]
      BY <1>2, NextFile
    <2>4. ASSUME NEW q \in DOMAIN disk', IsStrictPrefix(k.app, q)
          PROVE  IF disk'[q] = Directory
                 THEN \E i \in 1..Len(FilesOf(k)) : q \in Above(k.app \o FilesOf(k)[i])
                 ELSE \/ \E i \in 1..DoneOf(k) : q = k.app \o FilesOf(k)[i]
                      \/ k.open /\ q = NextOf(k)
      <3>1. CASE q \in DOMAIN disk
        BY <1>3, <2>2, <2>4, <3>1 DEF OwnWork
      <3>2. CASE q \notin DOMAIN disk
        <4>1. q \in Above(p) /\ disk'[q] = Directory
          BY <1>3, <3>2
        <4>. QED  BY <2>3, <4>1
      <3>. QED  BY <3>1, <3>2
    <2>5. ASSUME NEW i \in 1..DoneOf(k)
          PROVE  LET q == k.app \o FilesOf(k)[i]
                 IN  q \in DOMAIN disk' /\ disk'[q] = ContentOf(FilesOf(k)[i], k.tiers)
      BY <1>3, <2>2 DEF OwnWork
    <2>. QED  BY <1>1, <2>4, <2>5 DEF OwnWork, k
  <1>8. run' \in [Runs -> RunState]
    BY <1>1 DEF SInv
  <1>. QED  BY <1>4, <1>5, <1>6, <1>7, <1>8 DEF SInv

LEMMA OpenInv ==
    ASSUME SInv, NEW r \in Runs, Open(r)
    PROVE  SInv'
  <1> DEFINE k == run[r]
             p == Target(r)
             j == [k EXCEPT !.open = TRUE]
  <1>1. /\ Writing(r) /\ ~k.open /\ ~IsDir(p) /\ \A q \in Above(p) : ~HasFile(q)
        /\ Above(p) \subseteq DOMAIN disk
        /\ disk' = WithFile(p, Truncated) /\ meddled' = MeddledBy(r, p)
        /\ run' = [run EXCEPT ![r].open = TRUE]
    BY DEF Open, Blocked
  <1>2. /\ k \in RunState /\ Working(k)
        /\ ~meddled[r] => OwnWork(k, disk)
        /\ k.todo # <<>> /\ p = NextOf(k) /\ p \in Path /\ AtWork(r)
    BY <1>1, AtTarget
  <1>3. /\ TouchedAt(p) /\ DOMAIN disk' = DOMAIN disk \cup {p} /\ disk'[p] = Truncated
        /\ \A q \in DOMAIN disk : q # p => disk'[q] = disk[q]
    <2>1. \A q \in Above(p) : IsDir(q)
      BY <1>1 DEF IsDir, HasFile
    <2>. QED  BY <1>1, <1>2, <2>1, Contents, FileTouches
  <1>4. /\ meddled' \in [Runs -> BOOLEAN] /\ meddled'[r] = meddled[r]
        /\ \A s \in Runs : s # r /\ AtWork(s) /\ ~meddled'[s] =>
                             ~meddled[s] /\ ~IsPrefix(run[s].app, p)
    BY <1>1, Meddling DEF SInv
  <1>5. /\ j \in RunState /\ j.app = k.app /\ j.tiers = k.tiers /\ j.todo = k.todo /\ j.open
    BY <1>2 DEF RunState
  <1>6. run' \in [Runs -> RunState] /\ run'[r] = j /\ \A s \in Runs : s # r => run'[s] = run[s]
    BY <1>1, <1>5 DEF SInv
  <1> HIDE DEF k, p, j
  <1>7. TreeInv'
    BY <1>3, TouchedTree DEF SInv
  <1>8. ASSUME NEW s \in Runs, s # r PROVE RunInv(s)'
    BY <1>3, <1>4, <1>6, <1>8, OtherRun
  <1>9. /\ Working(j) /\ FilesOf(j) = FilesOf(k) /\ DoneOf(j) = DoneOf(k)
        /\ NextOf(j) = p
    BY <1>2, <1>5 DEF Working, FilesOf, DoneOf, NextOf
  <1>10. Holding(j, disk')
    BY <1>3, <1>9, Contents DEF Holding
  <1>11. ASSUME ~meddled[r] PROVE OwnWork(j, disk')
    <2>1. OwnWork(k, disk)
      BY <1>2, <1>11
    <2>2. ASSUME NEW q \in DOMAIN disk', IsStrictPrefix(k.app, q)
          PROVE  IF disk'[q] = Directory
                 THEN \E i \in 1..Len(FilesOf(k)) : q \in Above(k.app \o FilesOf(k)[i])
                 ELSE \/ \E i \in 1..DoneOf(k) : q = k.app \o FilesOf(k)[i]
                      \/ q = p
      <3>1. CASE q = p
        BY <1>3, <3>1, Contents
      <3>2. CASE q # p
        <4>1. q \in DOMAIN disk /\ disk'[q] = disk[q]
          BY <1>3, <3>2
        <4>. QED  BY <1>1, <2>1, <2>2, <4>1 DEF OwnWork, k
      <3>. QED  BY <3>1, <3>2
    <2>3. ASSUME NEW i \in 1..DoneOf(k)
          PROVE  LET q == k.app \o FilesOf(k)[i]
                 IN  q \in DOMAIN disk' /\ disk'[q] = ContentOf(FilesOf(k)[i], k.tiers)
      <3>1. p # k.app \o FilesOf(k)[i]
        BY <1>2, NextFile
      <3>. QED  BY <1>3, <2>1, <3>1 DEF OwnWork
    <2>4. NextOf(j) = p /\ j.open = TRUE /\ disk'[p] = Truncated
      BY <1>3, <1>5, <1>9
    <2>5. ASSUME NEW q \in DOMAIN disk', IsStrictPrefix(j.app, q)
          PROVE  IF disk'[q] = Directory
                 THEN \E i \in 1..Len(FilesOf(j)) : q \in Above(j.app \o FilesOf(j)[i])
                 ELSE \/ \E i \in 1..DoneOf(j) : q = j.app \o FilesOf(j)[i]
                      \/ j.open /\ q = NextOf(j)
      BY <1>5, <1>9, <2>2, <2>4, <2>5
    <2>6. ASSUME NEW i \in 1..DoneOf(j)
          PROVE  LET q == j.app \o FilesOf(j)[i]
                 IN  q \in DOMAIN disk' /\ disk'[q] = ContentOf(FilesOf(j)[i], j.tiers)
      BY <1>5, <1>9, <2>3
    <2>. QED  BY <2>4, <2>5, <2>6 DEF OwnWork
  <1>12. RunInv(r)'
    BY <1>4, <1>6, <1>9, <1>10, <1>11 DEF RunInv
  <1>. QED  BY <1>4, <1>6, <1>7, <1>8, <1>12 DEF SInv

\* The run as it is once a file is written.
LEMMA OneFileLess ==
    ASSUME NEW k \in RunState, Working(k), k.todo # <<>>,
           NEW j \in RunState, j.app = k.app, j.tiers = k.tiers, j.todo = Tail(k.todo),
           j.open = FALSE
    PROVE  Working(j) /\ FilesOf(j) = FilesOf(k) /\ DoneOf(j) = DoneOf(k) + 1
  <1>1. FilesOf(j) = FilesOf(k)
    BY DEF FilesOf
  <1> DEFINE todo == k.todo
             rest == Tail(todo)
             n == Len(FilesOf(k))
  <1>2. /\ n \in Nat /\ DoneOf(k) \in Nat /\ Len(todo) <= n
        /\ todo \in Seq(Path) /\ DoneOf(k) = n - Len(todo)
    BY Arriving DEF Working, DoneOf
  <1>3. /\ rest \in Seq(Path) /\ Len(rest) = Len(todo) - 1 /\ Len(todo) \in Nat
        /\ Len(rest) \in Nat
        /\ \A i \in 1..Len(rest) : rest[i] = todo[i + 1]
    BY <1>2, HeadTailProperties
  <1>4. \A i \in 1..Len(todo) : todo[i] = FilesOf(k)[DoneOf(k) + i]
    BY DEF Working
  <1> HIDE DEF todo, rest, n
  <1>5. DoneOf(j) = DoneOf(k) + 1
    <2>1. DoneOf(j) = n - Len(rest)
      BY <1>1 DEF DoneOf, n, rest, todo
    <2>. QED  BY <1>2, <1>3, <2>1
  <1>6. ASSUME NEW i \in 1..Len(rest) PROVE rest[i] = FilesOf(k)[DoneOf(j) + i]
    <2>1. i + 1 \in 1..Len(todo)
      BY <1>3
    <2>2. DoneOf(k) + (i + 1) = DoneOf(j) + i
      BY <1>2, <1>5
    <2>. QED  BY <1>3, <1>4, <2>1, <2>2
  <1>7. Len(rest) <= n
    BY <1>2, <1>3
  <1>. QED  BY <1>1, <1>3, <1>5, <1>6, <1>7 DEF Working, n, rest, todo

LEMMA WriteInv ==
    ASSUME SInv, NEW r \in Runs, Write(r)
    PROVE  SInv'
  <1> DEFINE k == run[r]
             p == Target(r)
             content == ContentOf(Head(k.todo), k.tiers)
             j == [k EXCEPT !.todo = Tail(k.todo), !.open = FALSE]
  <1>1. /\ Writing(r) /\ k.open
        /\ \/ disk' = WithFile(p, content)
           \/ disk[p] \notin {Truncated, content} /\ disk' = WithFile(p, Torn)
        /\ run' = [run EXCEPT ![r] = j] /\ meddled' = MeddledBy(r, p)
    BY DEF Write
  <1>2. /\ k \in RunState /\ Working(k)
        /\ ~meddled[r] => OwnWork(k, disk)
        /\ Holding(k, disk) /\ k.todo # <<>> /\ p = NextOf(k) /\ p \in Path /\ AtWork(r)
    BY <1>1, AtTarget
  <1>3. p \in DOMAIN disk /\ disk[p] # Directory /\ \A q \in Above(p) : IsDir(q)
    BY <1>1, <1>2 DEF Holding, SInv, TreeInv
  <1>4. /\ TouchedAt(p) /\ DOMAIN disk' = DOMAIN disk /\ disk'[p] \in {content, Torn}
        /\ disk[p] = Truncated => disk'[p] = content
        /\ \A q \in DOMAIN disk : q # p => disk'[q] = disk[q]
    <2>1. content # Directory /\ Torn # Directory
      BY Contents
    <2>2. CASE disk' = WithFile(p, content)
      BY <1>2, <1>3, <2>1, <2>2, FileTouches DEF IsDir
    <2>3. CASE disk[p] \notin {Truncated, content} /\ disk' = WithFile(p, Torn)
      BY <1>2, <1>3, <2>1, <2>3, FileTouches DEF IsDir
    <2>. QED  BY <1>1, <2>2, <2>3
  <1>5. /\ meddled' \in [Runs -> BOOLEAN] /\ meddled'[r] = meddled[r]
        /\ \A s \in Runs : s # r /\ AtWork(s) /\ ~meddled'[s] =>
                             ~meddled[s] /\ ~IsPrefix(run[s].app, p)
    BY <1>1, Meddling DEF SInv
  <1>6. /\ j \in RunState /\ j.app = k.app /\ j.tiers = k.tiers
        /\ j.todo = Tail(k.todo) /\ j.open = FALSE
    <2>1. Tail(k.todo) \in Seq(Path)
      BY <1>2, HeadTailProperties DEF Working
    <2>. QED  BY <1>2, <2>1 DEF RunState
  <1>7. run' \in [Runs -> RunState] /\ run'[r] = j /\ \A s \in Runs : s # r => run'[s] = run[s]
    BY <1>1, <1>6 DEF SInv
  <1>8. Working(j) /\ FilesOf(j) = FilesOf(k) /\ DoneOf(j) = DoneOf(k) + 1
    BY <1>2, <1>6, OneFileLess
  <1>9. /\ DoneOf(k) \in Nat /\ p = k.app \o FilesOf(k)[DoneOf(k) + 1]
        /\ content = ContentOf(FilesOf(k)[DoneOf(k) + 1], k.tiers)
        /\ \A i \in 1..DoneOf(k) : p # k.app \o FilesOf(k)[i]
    BY <1>2, NextFile, Arriving
  <1> HIDE DEF k, p, j, content
  <1>10. TreeInv'
    BY <1>4, TouchedTree DEF SInv
  <1>11. ASSUME NEW s \in Runs, s # r PROVE RunInv(s)'
    BY <1>4, <1>5, <1>7, <1>11, OtherRun
  <1>12. ASSUME ~meddled[r] PROVE OwnWork(j, disk')
    <2>1. OwnWork(k, disk) /\ disk'[p] = content
      BY <1>1, <1>2, <1>4, <1>12 DEF OwnWork, k
    <2>2. \A i \in 1..(DoneOf(k) + 1) : i \in 1..DoneOf(k) \/ i = DoneOf(k) + 1
      BY <1>9
    <2>3. DoneOf(k) + 1 \in 1..(DoneOf(k) + 1) /\ 1..DoneOf(k) \subseteq 1..(DoneOf(k) + 1)
      BY <1>9
    <2>4. ASSUME NEW q \in DOMAIN disk', IsStrictPrefix(k.app, q)
          PROVE  IF disk'[q] = Directory
                 THEN \E i \in 1..Len(FilesOf(k)) : q \in Above(k.app \o FilesOf(k)[i])
                 ELSE \E i \in 1..(DoneOf(k) + 1) : q = k.app \o FilesOf(k)[i]
      <3>1. CASE q = p
        BY <1>9, <2>1, <2>3, <3>1, Contents DEF content
      <3>2. CASE q # p
        <4>1. q \in DOMAIN disk /\ disk'[q] = disk[q] /\ q # NextOf(k)
          BY <1>2, <1>4, <3>2
        <4>. QED  BY <2>1, <2>3, <2>4, <4>1 DEF OwnWork
      <3>. QED  BY <3>1, <3>2
    <2>5. ASSUME NEW i \in 1..(DoneOf(k) + 1)
          PROVE  LET q == k.app \o FilesOf(k)[i]
                 IN  q \in DOMAIN disk' /\ disk'[q] = ContentOf(FilesOf(k)[i], k.tiers)
      <3>1. CASE i \in 1..DoneOf(k)
        <4>1. p # k.app \o FilesOf(k)[i]
          BY <1>9, <3>1
        <4>. QED  BY <1>4, <2>1, <3>1, <4>1 DEF OwnWork
      <3>2. CASE i = DoneOf(k) + 1
        BY <1>3, <1>4, <1>9, <2>1, <3>2
      <3>. QED  BY <2>2, <3>1, <3>2
    <2>. QED  BY <1>6, <1>8, <2>4, <2>5 DEF OwnWork
  <1>13. RunInv(r)'
    BY <1>5, <1>6, <1>7, <1>8, <1>12 DEF RunInv, Holding
  <1>. QED  BY <1>5, <1>7, <1>10, <1>11, <1>13 DEF SInv

\* A run is as it was when neither it nor the tree has changed.
LEMMA StillRun ==
    ASSUME NEW s \in Runs, RunInv(s), disk' = disk, run'[s] = run[s], meddled'[s] = meddled[s]
    PROVE  RunInv(s)'
  BY DEF RunInv, AtWork

LEMMA NewInv ==
    ASSUME SInv, NEW r \in Runs, NEW app \in Apps, NEW tiers \in SUBSET Landscape,
           New(r, app, tiers)
    PROVE  SInv'
  <1> DEFINE k == [app |-> app, tiers |-> tiers, todo |-> ScaffoldFiles(tiers), open |-> FALSE]
  <1>1. /\ OptionsAccepted(tiers) /\ ~Occupied(app) /\ disk' = disk
        /\ run' = [run EXCEPT ![r] = k] /\ meddled' = [meddled EXCEPT ![r] = FALSE]
    BY DEF New
  <1>2. /\ k.app = app /\ k.tiers = tiers /\ k.todo = ScaffoldFiles(tiers) /\ k.open = FALSE
    OBVIOUS
  <1>3. app \in Path /\ ScaffoldFiles(tiers) \in Seq(Path)
    BY FilesEmitted, SourcePaths DEF Emits
  <1>4. k \in RunState
    BY <1>3 DEF RunState
  <1> HIDE DEF k
  <1>5. run' \in [Runs -> RunState] /\ run'[r] = k /\ \A s \in Runs : s # r => run'[s] = run[s]
    BY <1>1, <1>4 DEF SInv
  <1>6. /\ meddled' \in [Runs -> BOOLEAN]
        /\ \A s \in Runs : s # r => meddled'[s] = meddled[s]
    BY <1>1 DEF SInv
  <1>7. TreeInv'
    BY <1>1 DEF SInv, TreeInv, IsDir
  <1>8. \A s \in Runs : s # r => RunInv(s)'
    BY <1>1, <1>5, <1>6, StillRun DEF SInv
  <1>9. Len(ScaffoldFiles(tiers)) \in Nat
    BY <1>3
  <1>10. FilesOf(k) = ScaffoldFiles(tiers) /\ DoneOf(k) = 0
    BY <1>2, <1>9 DEF FilesOf, DoneOf
  <1>11. Working(k)
    <2>1. \A i \in 1..Len(k.todo) : k.todo[i] = FilesOf(k)[DoneOf(k) + i]
      <3>1. \A i \in 1..Len(ScaffoldFiles(tiers)) : 0 + i = i
        BY <1>9
      <3>. QED  BY <1>2, <1>10, <3>1
    <2>2. Len(k.todo) <= Len(FilesOf(k))
      BY <1>2, <1>9, <1>10
    <2>. QED  BY <1>1, <1>2, <1>3, <2>1, <2>2 DEF Working
  <1>12. \A q \in DOMAIN disk : ~IsStrictPrefix(app, q)
    <2>1. SUFFICES ASSUME NEW q \in DOMAIN disk, IsStrictPrefix(app, q) PROVE FALSE
      OBVIOUS
    <2>2. q \in Path
      BY DEF SInv, TreeInv
    <2>3. app \in Above(q)
      BY <1>3, <2>1, <2>2, PrefixBegins, AboveIsPrefix
    <2>4. IsDir(app)
      BY <2>3 DEF SInv, TreeInv
    <2>5. q \in Below(app)
      BY <2>1 DEF Below
    <2>. QED  BY <1>1, <2>4, <2>5 DEF Occupied
  <1>13. OwnWork(k, disk')
    <2>1. 1..DoneOf(k) = {}
      BY <1>10
    <2>. QED  BY <1>1, <1>2, <1>12, <2>1 DEF OwnWork
  <1>14. RunInv(r)'
    BY <1>2, <1>5, <1>11, <1>13 DEF RunInv, Holding
  <1>. QED  BY <1>5, <1>6, <1>7, <1>8, <1>14 DEF SInv

\* A run that ends leaves everything as it is.
LEMMA EndInv ==
    ASSUME SInv, NEW r \in Runs, run' = [run EXCEPT ![r] = Resting], UNCHANGED <<disk, meddled>>
    PROVE  SInv'
  <1>1. Resting \in RunState /\ Resting.tiers = {}
    BY EmptySeq DEF Resting, RunState, Path
  <1>2. /\ run' \in [Runs -> RunState] /\ run'[r] = Resting
        /\ \A s \in Runs : s # r => run'[s] = run[s]
    BY <1>1 DEF SInv
  <1>3. TreeInv'
    BY DEF SInv, TreeInv, IsDir
  <1>4. \A s \in Runs : s # r => RunInv(s)'
    BY <1>2, StillRun DEF SInv
  <1>5. RunInv(r)'
    BY <1>1, <1>2 DEF RunInv, AtWork
  <1>6. meddled' \in [Runs -> BOOLEAN]
    BY DEF SInv
  <1>. QED  BY <1>2, <1>3, <1>4, <1>5, <1>6 DEF SInv

LEMMA UserWritesInv ==
    ASSUME SInv, NEW p \in UserFiles, UserWrites(p)
    PROVE  SInv'
  <1> DEFINE touched(s) == meddled[s] \/ (AtWork(s) /\ IsPrefix(run[s].app, p))
  <1>1. TouchedAt(p) /\ run' = run /\ meddled' = [s \in Runs |-> touched(s)]
    BY UserTouches DEF UserWrites
  <1>2. /\ \A s \in Runs : touched(s) \in BOOLEAN
        /\ \A s \in Runs : AtWork(s) /\ ~touched(s) =>
                             ~meddled[s] /\ ~IsPrefix(run[s].app, p)
    OBVIOUS
  <1> HIDE DEF touched
  <1>3. meddled' \in [Runs -> BOOLEAN] /\ \A s \in Runs : meddled'[s] = touched(s)
    BY <1>1, <1>2
  <1>4. TreeInv'
    BY <1>1, TouchedTree DEF SInv
  <1>5. \A s \in Runs : RunInv(s)'
    BY <1>1, <1>2, <1>3, OtherRun
  <1>. QED  BY <1>1, <1>3, <1>4, <1>5 DEF SInv

LEMMA UserRemovesInv ==
    ASSUME SInv, NEW app \in Apps, UserRemoves(app)
    PROVE  SInv'
  <1>1. /\ \A r \in Runs : ~AtWork(r)
        /\ disk' = [q \in DOMAIN disk \ Below(app) |-> disk[q]]
        /\ run' = run /\ meddled' = meddled
    BY DEF UserRemoves
  <1>2. \A r \in Runs : RunInv(r)'
    BY <1>1 DEF RunInv, AtWork
  <1>3. /\ DOMAIN disk' = DOMAIN disk \ Below(app) /\ DOMAIN disk' \subseteq DOMAIN disk
        /\ \A q \in DOMAIN disk' : disk'[q] = disk[q]
    BY <1>1
  <1>4. app \in Path /\ DOMAIN disk \subseteq Path /\ <<>> \in Path
    BY SourcePaths, EmptySeq DEF SInv, TreeInv, Path
  <1>5. IsDir(<<>>)'
    <2>1. ~IsStrictPrefix(app, <<>>)
      BY <1>4, PrefixBegins, PathLength, EmptySeq
    <2>. QED  BY <1>3, <2>1 DEF SInv, TreeInv, IsDir, Below
  <1>6. ASSUME NEW p \in DOMAIN disk', NEW q \in Above(p) PROVE IsDir(q)'
    <2>1. p \in Path /\ q \in Path /\ p \in DOMAIN disk /\ ~IsStrictPrefix(app, p)
      BY <1>3, <1>4, AboveIsPrefix DEF Below
    <2>2. IsDir(q)
      BY <2>1, <1>6 DEF SInv, TreeInv
    <2>3. ~IsStrictPrefix(app, q)
      <3>1. SUFFICES ASSUME IsStrictPrefix(app, q) PROVE FALSE
        OBVIOUS
      <3>2. app \in Above(q)
        BY <1>4, <2>1, <3>1, PrefixBegins, AboveIsPrefix
      <3>3. app \in Above(p)
        BY <2>1, <3>2, <1>6, AboveAbove
      <3>. QED  BY <1>4, <2>1, <3>3, PrefixBegins, AboveIsPrefix
    <2>. QED  BY <1>3, <2>2, <2>3 DEF IsDir, Below
  <1>7. TreeInv'
    BY <1>3, <1>4, <1>5, <1>6 DEF TreeInv
  <1>. QED  BY <1>1, <1>2, <1>7 DEF SInv

LEMMA InitInv == ScaffoldInit => SInv
  <1> SUFFICES ASSUME ScaffoldInit PROVE SInv
    OBVIOUS
  <1>1. DOMAIN disk = {<<>>} /\ disk[<<>>] = Directory /\ <<>> \in Path
    BY EmptySeq DEF ScaffoldInit, Path
  <1>2. Above(<<>>) = {}
    BY <1>1, AboveIsPrefix, PathLength, EmptySeq
  <1>3. TreeInv
    BY <1>1, <1>2 DEF TreeInv, IsDir
  <1>4. Resting \in RunState /\ Resting.tiers = {}
    BY EmptySeq DEF Resting, RunState, Path
  <1>5. \A r \in Runs : run[r] = Resting
    BY DEF ScaffoldInit
  <1>6. run \in [Runs -> RunState] /\ meddled \in [Runs -> BOOLEAN]
    BY <1>4 DEF ScaffoldInit
  <1>. QED  BY <1>3, <1>4, <1>5, <1>6 DEF SInv, RunInv, AtWork

LEMMA InvNext == SInv /\ [ScaffoldNext]_scaffoldVars => SInv'
  <1> SUFFICES ASSUME SInv, [ScaffoldNext]_scaffoldVars PROVE SInv'
    OBVIOUS
  <1>1. ASSUME NEW r \in Runs, NEW app \in Apps, NEW tiers \in SUBSET Landscape,
               New(r, app, tiers)
        PROVE  SInv'
    BY <1>1, NewInv
  <1>2. ASSUME NEW r \in Runs, MakeDirs(r) PROVE SInv'
    BY <1>2, MakeDirsInv
  <1>3. ASSUME NEW r \in Runs, Open(r) PROVE SInv'
    BY <1>3, OpenInv
  <1>4. ASSUME NEW r \in Runs, Write(r) PROVE SInv'
    BY <1>4, WriteInv
  <1>5. ASSUME NEW r \in Runs, Report(r) \/ GiveUp(r) PROVE SInv'
    BY <1>5, EndInv DEF Report, GiveUp
  <1>6. ASSUME NEW p \in UserFiles, UserWrites(p) PROVE SInv'
    BY <1>6, UserWritesInv
  <1>7. ASSUME NEW app \in Apps, UserRemoves(app) PROVE SInv'
    BY <1>7, UserRemovesInv
  <1>8. CASE UNCHANGED scaffoldVars
    <2>1. disk' = disk /\ run' = run /\ meddled' = meddled
      BY <1>8 DEF scaffoldVars
    <2>2. \A r \in Runs : RunInv(r)'
      BY <2>1, StillRun DEF SInv
    <2>3. TreeInv'
      BY <2>1 DEF SInv, TreeInv, IsDir
    <2>. QED  BY <2>1, <2>2, <2>3 DEF SInv
  <1>. QED  BY <1>1, <1>2, <1>3, <1>4, <1>5, <1>6, <1>7, <1>8 DEF ScaffoldNext

LEMMA Invariance == ScaffoldSpec => []SInv
  BY InitInv, InvNext, PTL DEF ScaffoldSpec

-----------------------------------------------------------------------------
(* Scaffold: the theorems *)

LEMMA Pairs ==
    ASSUME NEW S, NEW p \in Seq(S), NEW a \in S, NEW b \in S
    PROVE  /\ <<a, b>> \in Seq(S) /\ <<a, b>> # <<>> /\ Len(<<a, b>>) = 2
           /\ Begins(<<a, b>>, p) /\ 2 < Len(p) <=> Len(p) > 2 /\ p[1] = a /\ p[2] = b
  <1> DEFINE q == <<a, b>>
  <1>1. q \in Seq(S) /\ q # <<>> /\ Len(q) = 2 /\ q[1] = a /\ q[2] = b /\ Len(p) \in Nat
    OBVIOUS
  <1> HIDE DEF q
  <1>2. \A i \in 1..Len(q) : i = 1 \/ i = 2
    BY <1>1
  <1>3. 1 \in 1..Len(q) /\ 2 \in 1..Len(q)
    BY <1>1
  <1>4. 2 < Len(p) => (Begins(q, p) <=> p[1] = a /\ p[2] = b)
    <2>1. 2 < Len(p) => Len(q) <= Len(p)
      BY <1>1
    <2>2. (\A i \in 1..Len(q) : q[i] = p[i]) <=> q[1] = p[1] /\ q[2] = p[2]
      BY <1>2, <1>3
    <2>. QED  BY <1>1, <2>1, <2>2 DEF Begins
  <1>. QED  BY <1>1, <1>4 DEF q

LEMMA SlotTemplates ==
    ASSUME NEW p \in Path
    PROVE  /\ \A t \in Name : IsStrictPrefix(<<"hosts", t>>, p) <=> IsSlotFile(p) /\ p[2] = t
           /\ IsSlotFile(p) => p[2] \in Name /\ TierOf(p) = p[2]
           /\ IsStrictPrefix(<<"cmd", "engine-component">>, p) => TierOf(p) = "web"
  <1>1. Len(p) \in Nat /\ (Len(p) > 2 => p[2] \in Name)
    BY PathLength
  <1>2. ASSUME NEW a \in Name, NEW b \in Name
        PROVE  IsStrictPrefix(<<a, b>>, p) <=> Len(p) > 2 /\ p[1] = a /\ p[2] = b
    <2> DEFINE q == <<a, b>>
    <2>1. q \in Path /\ Len(q) = 2
      BY Pairs DEF Path
    <2>2. Begins(q, p) /\ 2 < Len(p) <=> Len(p) > 2 /\ p[1] = a /\ p[2] = b
      BY Pairs DEF Path
    <2> HIDE DEF q
    <2>3. IsStrictPrefix(q, p) <=> Begins(q, p) /\ 2 < Len(p)
      BY <2>1, PrefixBegins
    <2>. QED  BY <2>2, <2>3 DEF q
  <1>3. ASSUME NEW t \in Name
        PROVE  IsStrictPrefix(<<"hosts", t>>, p) <=> IsSlotFile(p) /\ p[2] = t
    <2>1. "hosts" \in Name
      BY DEF Name
    <2>2. IsStrictPrefix(<<"hosts", t>>, p) <=> Len(p) > 2 /\ p[1] = "hosts" /\ p[2] = t
      BY <1>2, <2>1
    <2>. QED  BY <2>2 DEF IsSlotFile
  <1>4. IsSlotFile(p) => p[2] \in Name /\ TierOf(p) = p[2]
    BY <1>1 DEF IsSlotFile, TierOf
  <1>5. ASSUME IsStrictPrefix(<<"cmd", "engine-component">>, p) PROVE TierOf(p) = "web"
    <2>1. p[1] = "cmd"
      <3>1. "cmd" \in Name /\ "engine-component" \in Name
        BY DEF Name
      <3>. QED  BY <1>2, <1>5, <3>1
    <2>2. ~IsSlotFile(p)
      BY <2>1 DEF IsSlotFile
    <2>. QED  BY <1>5, <2>2 DEF TierOf
  <1>. QED  BY <1>3, <1>4, <1>5

\* A finished run, nobody having meddled: the directories of the project are those
\* its files need.
LEMMA ProjectDirectories ==
    ASSUME TreeInv, NEW k \in RunState, Working(k), OwnWork(k, disk), k.todo = <<>>,
           NEW d \in Path, d # <<>>
    PROVE  IsDir(k.app \o d) <=> \E i \in 1..Len(FilesOf(k)) : IsStrictPrefix(d, FilesOf(k)[i])
  <1> DEFINE f == FilesOf(k)
             n == Len(f)
  <1>1. n \in Nat /\ DoneOf(k) = n /\ ~k.open
    <2>1. Len(k.todo) = 0
      BY EmptySeq
    <2>2. n \in Nat
      BY Arriving
    <2>. QED  BY <2>1, <2>2 DEF DoneOf, Working
  <1>2. /\ k.app \in Path
        /\ \A i \in 1..n : f[i] \in Path /\ k.app \o f[i] \in Path
    BY Arriving
  <1>3. \A i \in 1..n : k.app \o f[i] \in DOMAIN disk
    BY <1>1 DEF OwnWork
  <1> HIDE DEF f
  <1>4. /\ k.app \o d \in Path /\ Len(k.app \o d) = Len(k.app) + Len(d)
        /\ Begins(k.app, k.app \o d)
    BY <1>2, Joined
  <1>5. IsStrictPrefix(k.app, k.app \o d)
    <2>1. Len(d) \in Nat /\ Len(d) > 0 /\ Len(k.app) \in Nat
      BY <1>2, PathLength, EmptySeq DEF Path
    <2>2. Len(k.app) < Len(k.app \o d)
      BY <1>4, <2>1
    <2>. QED  BY <1>2, <1>4, <2>2, PrefixBegins
  <1>6. ASSUME NEW i \in 1..n
        PROVE  k.app \o d \in Above(k.app \o f[i]) <=> IsStrictPrefix(d, f[i])
    <2> DEFINE x == f[i]
    <2>1. x \in Path /\ k.app \o x \in Path
      BY <1>2
    <2> HIDE DEF x
    <2>2. Begins(k.app \o d, k.app \o x) <=> Begins(d, x)
      BY <1>2, <2>1, Joined
    <2>3. Len(k.app \o x) = Len(k.app) + Len(x)
      BY <1>2, <2>1, Joined
    <2>4. Len(d) \in Nat /\ Len(x) \in Nat /\ Len(k.app) \in Nat
      BY <1>2, <2>1, PathLength
    <2>5. Len(k.app \o d) < Len(k.app \o x) <=> Len(d) < Len(x)
      BY <1>4, <2>3, <2>4
    <2>6. k.app \o d \in Above(k.app \o x) <=>
             Begins(k.app \o d, k.app \o x) /\ Len(k.app \o d) < Len(k.app \o x)
      BY <1>4, <2>1, AboveIsPrefix
    <2>7. IsStrictPrefix(d, x) <=> Begins(d, x) /\ Len(d) < Len(x)
      BY <2>1, PrefixBegins
    <2>. QED  BY <2>2, <2>5, <2>6, <2>7 DEF x
  <1>7. ASSUME IsDir(k.app \o d) PROVE \E i \in 1..n : IsStrictPrefix(d, f[i])
    <2>1. PICK i \in 1..n : k.app \o d \in Above(k.app \o f[i])
      BY <1>5, <1>7 DEF OwnWork, IsDir, f
    <2>. QED  BY <1>6, <2>1
  <1>8. ASSUME NEW i \in 1..n, IsStrictPrefix(d, f[i]) PROVE IsDir(k.app \o d)
    BY <1>3, <1>6, <1>8 DEF TreeInv
  <1>. QED  BY <1>7, <1>8 DEF f

\* Whatever runs and users write beside one another, every path stands in
\* directories, and a run that has a file open finds a file there (WriteTree()).
THEOREM TypeCorrect == ScaffoldSpec => []ScaffoldTypeOK
  <1>1. ASSUME SInv PROVE ScaffoldTypeOK
    <2>1. ASSUME NEW r \in Runs, AtWork(r)
          PROVE  /\ run[r].app \in Apps /\ OptionsAccepted(run[r].tiers)
                 /\ ToSet(run[r].todo) \subseteq ToSet(Templates)
                 /\ run[r].open => HasFile(Target(r))
      <3> DEFINE k == run[r]
      <3>1. k \in RunState /\ Working(k) /\ Holding(k, disk)
        BY <1>1, <2>1 DEF SInv, RunInv
      <3>2. k.open => HasFile(Target(r))
        BY <3>1 DEF Holding, NextOf, HasFile, Target
      <3>3. k.app \in Apps /\ OptionsAccepted(k.tiers)
        BY <3>1 DEF Working
      <3> HIDE DEF k
      <3>4. ASSUME NEW i \in 1..Len(k.todo) PROVE k.todo[i] \in ToSet(Templates)
        <4>1. /\ Len(FilesOf(k)) \in Nat /\ DoneOf(k) = Len(FilesOf(k)) - Len(k.todo)
              /\ Len(k.todo) \in Nat /\ DoneOf(k) \in Nat
          BY <3>1, Arriving DEF DoneOf, Working
        <4>2. DoneOf(k) + i \in 1..Len(FilesOf(k))
          <5>1. DoneOf(k) + Len(k.todo) = Len(FilesOf(k))
            BY <4>1
          <5>. QED  BY <4>1, <5>1, Within
        <4>3. k.todo[i] = FilesOf(k)[DoneOf(k) + i]
          BY <3>1 DEF Working
        <4>4. \E j \in 1..Len(Templates) : FilesOf(k)[DoneOf(k) + i] = Templates[j]
          BY <4>2, FilesEmitted DEF FilesOf, Emits
        <4>. QED  BY <4>3, <4>4, TemplatePaths DEF ToSet
      <3>5. DOMAIN k.todo = 1..Len(k.todo)
        BY <3>1 DEF Working
      <3>6. ToSet(k.todo) \subseteq ToSet(Templates)
        BY <3>4, <3>5 DEF ToSet
      <3>. QED  BY <3>2, <3>3, <3>6 DEF k
    <2>. QED  BY <1>1, <2>1 DEF SInv, TreeInv, ScaffoldTypeOK
  <1>. QED  BY <1>1, Invariance, PTL

\* For any number of runs, templates and users: a file that `new` truncates was not
\* there when it looked whether the directory was occupied (DirIsOccupied()).
THEOREM NewOverwritesNothingSeen == ScaffoldSpec => NewSparesWork
  <1> DEFINE spared == \A r \in Runs : Open(r) /\ HasFile(Target(r)) => meddled[r]
  <1>1. ASSUME SInv PROVE spared
    <2> SUFFICES ASSUME NEW r \in Runs, Open(r), HasFile(Target(r)), ~meddled[r]
                 PROVE  FALSE
      OBVIOUS
    <2> DEFINE k == run[r]
    <2>1. Writing(r) /\ ~k.open
      BY DEF Open
    <2>2. /\ k \in RunState /\ Working(k) /\ OwnWork(k, disk)
          /\ k.todo # <<>> /\ Target(r) = NextOf(k) /\ IsStrictPrefix(k.app, Target(r))
      BY <1>1, <2>1, AtTarget
    <2>3. Target(r) \in DOMAIN disk /\ disk[Target(r)] # Directory
      BY DEF HasFile
    <2> HIDE DEF k
    <2>4. \E i \in 1..DoneOf(k) : NextOf(k) = k.app \o FilesOf(k)[i]
      BY <2>1, <2>2, <2>3 DEF OwnWork
    <2>. QED  BY <2>2, <2>4, NextFile
  <1>2. [](SInv) => [][spared]_scaffoldVars
    BY <1>1, PTL
  <1>. QED  BY <1>2, Invariance DEF NewSparesWork

\* For any tiers and templates: a project that is reported and that nobody meddled
\* with has exactly the slots of its tiers, declares them, and has no file that is
\* half written (scaffoldFiles(), tierOf(), tierSections()).
THEOREM ReportsAreTrue == ScaffoldSpec => ProjectAsAsked
  <1> DEFINE asked(r) ==
        LET app == run[r].app
            tiers == run[r].tiers
        IN  /\ disk[app \o <<"dlc.toml">>] = ManifestOf(tiers)
            /\ \A t \in Landscape : t \in tiers <=> IsDir(app \o <<"hosts", t>>)
            /\ "web" \in tiers <=> IsDir(app \o <<"cmd", "engine-component">>)
            /\ \A p \in Below(app) : disk[p] \notin {Truncated, Torn, ByUser}
  <1>1. ASSUME SInv, NEW r \in Runs, Report(r), ~meddled[r] PROVE asked(r)
    <2> DEFINE k == run[r]
    <2>1. /\ k \in RunState /\ Working(k) /\ OwnWork(k, disk) /\ TreeInv /\ k.todo = <<>>
          /\ OptionsAccepted(k.tiers) /\ k.tiers \in SUBSET Landscape
      BY <1>1 DEF SInv, RunInv, Report, Working, RunState
    <2> HIDE DEF k
    <2>2. DoneOf(k) = Len(FilesOf(k)) /\ ~k.open
      <3>1. Len(k.todo) = 0 /\ Len(FilesOf(k)) \in Nat
        BY <2>1, Arriving, EmptySeq
      <3>. QED  BY <2>1, <3>1 DEF DoneOf, Working
    <2>3. Emits(FilesOf(k), Len(Templates), k.tiers)
      BY FilesEmitted DEF FilesOf
    <2>4. ASSUME NEW p \in ToSet(Templates), Emitted(p, k.tiers)
          PROVE  \E i \in 1..Len(FilesOf(k)) : FilesOf(k)[i] = p
      <3>1. PICK j \in 1..Len(Templates) : p = Templates[j]
        BY <2>4, TemplatePaths DEF ToSet
      <3>2. Emitted(Templates[j], k.tiers)
        BY <2>4, <3>1
      <3>. QED  BY <2>3, <3>1, <3>2 DEF Emits
    <2>5. \A i \in 1..Len(FilesOf(k)) :
             FilesOf(k)[i] \in Path /\ Emitted(FilesOf(k)[i], k.tiers)
      BY <2>1, <2>3, Arriving DEF Emits
    <2>6. \A p \in ToSet(Templates) : p \in Path
      BY TemplatePaths DEF ToSet
    <2>7. disk[k.app \o <<"dlc.toml">>] = ManifestOf(k.tiers)
      <3>1. Emitted(<<"dlc.toml">>, k.tiers)
        <4>1. Len(<<"dlc.toml">>) = 1
          OBVIOUS
        <4>2. ~IsSlotFile(<<"dlc.toml">>)
          BY <4>1 DEF IsSlotFile
        <4>3. ~IsStrictPrefix(<<"cmd", "engine-component">>, <<"dlc.toml">>)
          BY DEF IsStrictPrefix, IsPrefix
        <4>. QED  BY <4>2, <4>3 DEF Emitted, TierOf
      <3>2. PICK i \in 1..Len(FilesOf(k)) : FilesOf(k)[i] = <<"dlc.toml">>
        BY <2>4, <3>1, ScaffoldAssumption
      <3>. QED  BY <2>1, <2>2, <3>2, Contents DEF OwnWork
    <2>8. ASSUME NEW t \in Landscape PROVE t \in k.tiers <=> IsDir(k.app \o <<"hosts", t>>)
      <3>1. t \in Name /\ t # ""
        BY ScaffoldAssumption DEF Name
      <3>2. <<"hosts", t>> \in Path /\ <<"hosts", t>> # <<>>
        <4>1. "hosts" \in Name /\ <<>> \in Seq(Name)
          BY EmptySeq DEF Name
        <4>. QED  BY <3>1, <4>1, Pairs DEF Path
      <3>3. IsDir(k.app \o <<"hosts", t>>) <=>
              \E i \in 1..Len(FilesOf(k)) : IsStrictPrefix(<<"hosts", t>>, FilesOf(k)[i])
        BY <2>1, <3>2, ProjectDirectories
      <3>4. ASSUME t \in k.tiers
            PROVE  \E i \in 1..Len(FilesOf(k)) : IsStrictPrefix(<<"hosts", t>>, FilesOf(k)[i])
        <4>1. t \in TemplateSlots
          BY <2>1, <3>4 DEF OptionsAccepted, SupportedTiers
        <4>2. PICK p \in ToSet(Templates) : IsSlotFile(p) /\ p[2] = t
          BY <4>1 DEF TemplateSlots
        <4>3. IsStrictPrefix(<<"hosts", t>>, p) /\ TierOf(p) = t
          BY <2>6, <3>1, <4>2, SlotTemplates
        <4>. QED  BY <2>4, <3>4, <4>3 DEF Emitted
      <3>5. ASSUME NEW i \in 1..Len(FilesOf(k)), IsStrictPrefix(<<"hosts", t>>, FilesOf(k)[i])
            PROVE  t \in k.tiers
        <4>1. TierOf(FilesOf(k)[i]) = t
          BY <2>5, <3>1, <3>5, SlotTemplates
        <4>. QED  BY <2>5, <3>1, <4>1 DEF Emitted
      <3>. QED  BY <3>3, <3>4, <3>5
    <2>9. "web" \in k.tiers <=> IsDir(k.app \o <<"cmd", "engine-component">>)
      <3> DEFINE shim == <<"cmd", "engine-component">>
      <3>1. shim \in Path /\ shim # <<>>
        <4>1. "cmd" \in Name /\ "engine-component" \in Name /\ <<>> \in Seq(Name)
          BY EmptySeq DEF Name
        <4>. QED  BY <4>1, Pairs DEF Path
      <3>2. IsDir(k.app \o shim) <=>
              \E i \in 1..Len(FilesOf(k)) : IsStrictPrefix(shim, FilesOf(k)[i])
        BY <2>1, <3>1, ProjectDirectories
      <3>3. PICK p \in ToSet(Templates) : IsStrictPrefix(shim, p)
        BY ScaffoldAssumption
      <3>4. TierOf(p) = "web"
        BY <2>6, <3>3, SlotTemplates
      <3>5. "web" \in k.tiers => \E i \in 1..Len(FilesOf(k)) : FilesOf(k)[i] = p
        BY <2>4, <3>4 DEF Emitted
      <3>6. ASSUME NEW i \in 1..Len(FilesOf(k)), IsStrictPrefix(shim, FilesOf(k)[i])
            PROVE  "web" \in k.tiers
        <4>1. TierOf(FilesOf(k)[i]) = "web"
          BY <2>5, <3>6, SlotTemplates
        <4>. QED  BY <2>5, <4>1 DEF Emitted
      <3>. QED  BY <3>2, <3>3, <3>5, <3>6
    <2>10. ASSUME NEW p \in Below(k.app) PROVE disk[p] \notin {Truncated, Torn, ByUser}
      <3>1. p \in DOMAIN disk /\ IsStrictPrefix(k.app, p)
        BY DEF Below
      <3>2. CASE disk[p] = Directory
        BY <3>2, Contents
      <3>3. CASE disk[p] # Directory
        <4>1. PICK i \in 1..DoneOf(k) : p = k.app \o FilesOf(k)[i]
          BY <2>1, <2>2, <3>1, <3>3 DEF OwnWork
        <4>2. disk[p] = ContentOf(FilesOf(k)[i], k.tiers)
          BY <2>1, <4>1 DEF OwnWork
        <4>. QED  BY <4>2, Contents
      <3>. QED  BY <3>2, <3>3
    <2>. QED  BY <2>7, <2>8, <2>9, <2>10 DEF k
  <1>2. ASSUME SInv PROVE \A r \in Runs : Report(r) /\ ~meddled[r] => asked(r)
    BY <1>1, <1>2
  <1> HIDE DEF asked
  <1>3. [](SInv) => [][\A r \in Runs : Report(r) /\ ~meddled[r] => asked(r)]_scaffoldVars
    BY <1>2, PTL
  <1>. QED  BY <1>3, Invariance DEF ProjectAsAsked, asked

-----------------------------------------------------------------------------
(* Bundles: clean paths *)

CleanPath == Seq(CleanSegment)

LEMMA CleanIsPath ==
    /\ CleanPath \subseteq Path /\ Seq(Segment) \subseteq Path
    /\ CleanPath \subseteq Seq(Segment) /\ CleanPath \subseteq Seq(STRING)
    /\ <<>> \in CleanPath
  <1>1. /\ CleanSegment \subseteq Name /\ Segment \subseteq Name
        /\ CleanSegment \subseteq Segment /\ CleanSegment \subseteq STRING
    BY DEF CleanSegment, Segment, Name
  <1>. QED  BY <1>1, SeqMonotonic, EmptySeq DEF CleanPath, Path

LEMMA CleanPieces ==
    ASSUME NEW p \in CleanPath
    PROVE  /\ \A q \in CleanPath : p \o q \in CleanPath
           /\ \A n \in 0..Len(p) : SubSeq(p, 1, n) \in CleanPath
           /\ \A s \in CleanSegment : Append(p, s) \in CleanPath
  <1>1. Len(p) \in Nat /\ \A i \in 1..Len(p) : p[i] \in CleanSegment
    BY DEF CleanPath
  <1>2. ASSUME NEW n \in 0..Len(p) PROVE SubSeq(p, 1, n) \in CleanPath
    <2>1. n \in Int /\ 1 \in Int /\ \A i \in 1..n : p[i] \in CleanSegment
      BY <1>1
    <2>. QED  BY <2>1, SubSeqProperties DEF CleanPath
  <1>. QED  BY <1>2, ConcatProperties DEF CleanPath

LEMMA CleanAbove ==
    ASSUME NEW p \in CleanPath
    PROVE  Ancestors(p) = Above(p) /\ Ancestors(p) \subseteq CleanPath /\ p \in Path
  <1>1. Len(p) \in Nat /\ p \in Path
    BY CleanIsPath, PathLength
  <1>2. \A n \in 0..(Len(p) - 1) : n \in 0..Len(p)
    BY <1>1
  <1>3. Ancestors(p) \subseteq CleanPath
    BY <1>2, CleanPieces DEF Ancestors
  <1>. QED  BY <1>1, <1>3 DEF Ancestors, Above

\* What follows p in q, and q put together again.
LEMMA SuffixRest ==
    ASSUME NEW p \in CleanPath, NEW q \in CleanPath, IsStrictPrefix(p, q)
    PROVE  Suffix(p, q) \in CleanPath \ {<<>>} /\ p \o Suffix(p, q) = q
  <1>1. p \in Path /\ q \in Path /\ Len(p) \in Nat /\ Len(q) \in Nat
    BY CleanIsPath, PathLength
  <1>2. \A i \in 1..Len(q) : q[i] \in CleanSegment
    BY DEF CleanPath
  <1>3. Begins(p, q) /\ Len(p) < Len(q)
    BY <1>1, PrefixBegins
  <1>4. /\ Len(p) + 1 \in Int /\ Len(q) \in Int /\ Len(p) + 1 <= Len(q)
        /\ \A i \in (Len(p) + 1)..Len(q) : q[i] \in CleanSegment
    BY <1>1, <1>2, <1>3
  <1> DEFINE s == Suffix(p, q)
  <1>5. /\ s \in CleanPath
        /\ Len(s) = Len(q) - (Len(p) + 1) + 1
        /\ \A i \in 1..(Len(q) - (Len(p) + 1) + 1) : s[i] = q[(Len(p) + 1) + i - 1]
    BY <1>4, SubSeqProperties DEF CleanPath, Suffix
  <1> HIDE DEF s
  <1>6. Len(s) = Len(q) - Len(p) /\ Len(s) > 0
    BY <1>1, <1>3, <1>5
  <1>7. s \in Path /\ s # <<>>
    BY <1>5, <1>6, CleanIsPath, EmptySeq
  <1>8. /\ p \o s \in Path /\ Len(p \o s) = Len(p) + Len(s) /\ Begins(p, p \o s)
        /\ \A i \in 1..Len(s) : (p \o s)[Len(p) + i] = s[i]
    BY <1>1, <1>7, Joined
  <1>9. Len(p \o s) = Len(q)
    BY <1>1, <1>6, <1>8
  <1>10. ASSUME NEW i \in 1..Len(q) PROVE (p \o s)[i] = q[i]
    <2>1. CASE i <= Len(p)
      BY <1>1, <1>3, <1>8, <2>1 DEF Begins
    <2>2. CASE i > Len(p)
      <3>1. i - Len(p) \in 1..Len(s) /\ Len(p) + (i - Len(p)) = i
            /\ i - Len(p) \in 1..(Len(q) - (Len(p) + 1) + 1)
            /\ (Len(p) + 1) + (i - Len(p)) - 1 = i
        BY <1>1, <1>6, <2>2
      <3>2. (p \o s)[Len(p) + (i - Len(p))] = s[i - Len(p)]
        BY <1>8, <3>1
      <3>3. s[i - Len(p)] = q[(Len(p) + 1) + (i - Len(p)) - 1]
        BY <1>5, <3>1
      <3>. QED  BY <3>1, <3>2, <3>3
    <2>3. i <= Len(p) \/ i > Len(p)
      BY <1>1
    <2>. QED  BY <2>1, <2>2, <2>3
  <1>11. p \o s = q
    BY <1>1, <1>8, <1>9, <1>10, SamePath
  <1>. QED  BY <1>5, <1>7, <1>11 DEF s

LEMMA SuffixJoins ==
    ASSUME NEW p \in CleanPath, NEW q \in CleanPath, q # <<>>
    PROVE  IsStrictPrefix(p, p \o q) /\ Suffix(p, p \o q) = q
  <1>1. p \in Path /\ q \in Path /\ Len(p) \in Nat /\ Len(q) \in Nat
    BY CleanIsPath, PathLength
  <1>2. /\ p \o q \in Path /\ Len(p \o q) = Len(p) + Len(q) /\ Begins(p, p \o q)
        /\ \A r \in Path : p \o q = p \o r => q = r
    BY <1>1, Joined
  <1>3. Len(q) # 0
    BY <1>1, EmptySeq DEF Path
  <1>4. Len(p) < Len(p \o q)
    BY <1>1, <1>2, <1>3
  <1>5. IsStrictPrefix(p, p \o q)
    BY <1>1, <1>2, <1>4, PrefixBegins
  <1>6. p \o q \in CleanPath
    BY CleanPieces
  <1> DEFINE s == Suffix(p, p \o q)
  <1>7. s \in CleanPath /\ p \o s = p \o q
    BY <1>5, <1>6, SuffixRest
  <1> HIDE DEF s
  <1>8. s = q
    BY <1>2, <1>7, CleanIsPath
  <1>. QED  BY <1>5, <1>8 DEF s

-----------------------------------------------------------------------------
(* Bundles: trees *)

\* What MkdirAll() leaves behind: every entry stands in directories up to the root.
Tree(t) ==
    /\ DOMAIN t \subseteq CleanPath
    /\ IsDirectory(t, <<>>)
    /\ \A p \in DOMAIN t : \A q \in Ancestors(p) : IsDirectory(t, q)

\* Between t and u nothing but directories leading to p differs outside p.
Confined(t, u, p) ==
    \A q \in DOMAIN t \cup DOMAIN u :
        \/ IsPrefix(p, q)
        \/ q \notin DOMAIN t /\ IsStrictPrefix(q, p) /\ IsDirectory(u, q)
        \/ q \in DOMAIN t \cap DOMAIN u /\ u[q] = t[q]

LEMMA ParentIsAbove ==
    ASSUME NEW t, Tree(t), NEW p \in DOMAIN t, p # <<>>
    PROVE  IsDirectory(t, Parent(p))
  <1>1. p \in CleanPath
    BY DEF Tree
  <1>2. Len(p) \in Nat \ {0}
    BY <1>1, EmptySeq DEF CleanPath
  <1>3. Len(p) - 1 \in 0..(Len(p) - 1)
    BY <1>2
  <1>4. Parent(p) \in Ancestors(p)
    BY <1>3 DEF Parent, Ancestors
  <1>. QED  BY <1>4 DEF Tree

LEMMA ConfinedTwice ==
    ASSUME NEW t, NEW u, NEW v, NEW p, Confined(t, u, p), Confined(u, v, p)
    PROVE  Confined(t, v, p)
  <1> SUFFICES ASSUME NEW q \in DOMAIN t \cup DOMAIN v, ~IsPrefix(p, q)
               PROVE  \/ q \notin DOMAIN t /\ IsStrictPrefix(q, p) /\ IsDirectory(v, q)
                      \/ q \in DOMAIN t \cap DOMAIN v /\ v[q] = t[q]
    BY DEF Confined
  <1>1. q \in DOMAIN t \cup DOMAIN u =>
            \/ q \notin DOMAIN t /\ IsStrictPrefix(q, p) /\ q \in DOMAIN u /\ u[q] = Folder
            \/ q \in DOMAIN t \cap DOMAIN u /\ u[q] = t[q]
    BY DEF Confined, IsDirectory
  <1>2. q \in DOMAIN u \cup DOMAIN v =>
            \/ q \notin DOMAIN u /\ IsStrictPrefix(q, p) /\ q \in DOMAIN v /\ v[q] = Folder
            \/ q \in DOMAIN u \cap DOMAIN v /\ v[q] = u[q]
    BY DEF Confined, IsDirectory
  <1>. QED  BY <1>1, <1>2 DEF IsDirectory

LEMMA ConfinedStays ==
    ASSUME NEW t, NEW p
    PROVE  Confined(t, t, p)
  BY DEF Confined

\* What one file written leaves of a tree.
WrittenAs(u, t, p, c) ==
    /\ DOMAIN u = DOMAIN t \cup Ancestors(p) \cup {p} /\ u[p] = c
    /\ \A q \in Ancestors(p) : q # p /\ u[q] = Folder
    /\ \A q \in DOMAIN t \ {p} : u[q] = t[q]

\* One file written where CanWrite() lets it.
LEMMA Written ==
    ASSUME NEW t, NEW p, NEW c, CanWrite(t, p), Tree(t), p \in CleanPath
    PROVE  WrittenAs(WriteAt(t, p, c), t, p, c)
  <1> DEFINE dirs == Ancestors(p) \ DOMAIN t
             u == WriteAt(t, p, c)
  <1>1. u = [q \in DOMAIN t \cup dirs \cup {p} |->
                IF q = p THEN c ELSE IF q \in dirs THEN Folder ELSE t[q]]
    BY DEF WriteAt
  <1>2. \A q \in Ancestors(p) : q # p /\ (q \in DOMAIN t => t[q] = Folder)
    BY CleanAbove, AboveAbove DEF CanWrite, IsFile
  <1> HIDE DEF u
  <1>3. DOMAIN u = DOMAIN t \cup Ancestors(p) \cup {p} /\ u[p] = c
    BY <1>1
  <1>4. \A q \in Ancestors(p) : u[q] = Folder
    BY <1>1, <1>2
  <1>5. \A q \in DOMAIN t \ {p} : u[q] = t[q]
    BY <1>1
  <1>6. WrittenAs(u, t, p, c)
    BY <1>2, <1>3, <1>4, <1>5 DEF WrittenAs
  <1>. QED  BY <1>6 DEF u

LEMMA WrittenTree ==
    ASSUME NEW t, NEW u, NEW p, NEW c, u = WriteAt(t, p, c),
           CanWrite(t, p), Tree(t), p \in CleanPath
    PROVE  Tree(u)
  <1>1. WrittenAs(u, t, p, c)
    BY Written
  <1>2. /\ DOMAIN u = DOMAIN t \cup Ancestors(p) \cup {p} /\ u[p] = c
        /\ \A q \in Ancestors(p) : q # p /\ u[q] = Folder
        /\ \A q \in DOMAIN t \ {p} : u[q] = t[q]
    BY <1>1 DEF WrittenAs
  <1>3. /\ DOMAIN t \subseteq CleanPath /\ IsDirectory(t, <<>>) /\ ~IsDirectory(t, p)
        /\ \A x \in DOMAIN t : \A q \in Ancestors(x) : IsDirectory(t, q)
    BY DEF Tree, CanWrite
  <1>4. \A q : IsDirectory(t, q) => IsDirectory(u, q)
    BY <1>2, <1>3 DEF IsDirectory
  <1>5. ASSUME NEW x \in DOMAIN u, NEW q \in Ancestors(x) PROVE IsDirectory(u, q)
    <2>1. CASE x \in DOMAIN t
      BY <1>3, <1>4, <1>5, <2>1
    <2>2. CASE x = p
      BY <1>2, <1>5, <2>2 DEF IsDirectory
    <2>3. CASE x \in Ancestors(p)
      <3>1. x \in Above(p) /\ p \in Path /\ x \in CleanPath
        BY <2>3, CleanAbove
      <3>2. q \in Above(x)
        BY <1>5, <3>1, CleanAbove
      <3>3. q \in Ancestors(p)
        BY <3>1, <3>2, AboveAbove, CleanAbove
      <3>. QED  BY <1>2, <3>3 DEF IsDirectory
    <2>. QED  BY <1>2, <2>1, <2>2, <2>3
  <1>6. DOMAIN u \subseteq CleanPath
    BY <1>2, <1>3, CleanAbove
  <1>7. Tree(u)
    BY <1>3, <1>4, <1>5, <1>6 DEF Tree
  <1>. QED  BY <1>7

LEMMA WrittenConfined ==
    ASSUME NEW t, NEW u, NEW p, NEW c, u = WriteAt(t, p, c),
           CanWrite(t, p), Tree(t), p \in CleanPath,
           NEW a \in CleanPath, IsPrefix(a, p)
    PROVE  Confined(t, u, a)
  <1>1. a \in Path /\ p \in Path
    BY CleanIsPath
  <1>2. Begins(a, p)
    BY <1>1, PrefixBegins
  <1>3. WrittenAs(u, t, p, c)
    BY Written
  <1>4. /\ DOMAIN u = DOMAIN t \cup Ancestors(p) \cup {p} /\ u[p] = c
        /\ \A q \in Ancestors(p) : q # p /\ u[q] = Folder
        /\ \A q \in DOMAIN t \ {p} : u[q] = t[q]
    BY <1>3 DEF WrittenAs
  <1>5. ASSUME NEW q \in Ancestors(p) PROVE IsPrefix(a, q) \/ IsStrictPrefix(q, a)
    <2>1. q \in Path /\ Begins(q, p)
      BY <1>1, <1>5, CleanAbove, AboveIsPrefix
    <2>2. Len(a) \in Nat /\ Len(q) \in Nat
      BY <1>1, <2>1, PathLength
    <2>3. CASE Len(a) <= Len(q)
      <3>1. Begins(a, q)
        BY <1>1, <1>2, <2>1, <2>3, BeginsOrder
      <3>. QED  BY <1>1, <2>1, <3>1, PrefixBegins
    <2>4. CASE Len(q) < Len(a)
      <3>1. Begins(q, a)
        BY <1>1, <1>2, <2>1, <2>2, <2>4, BeginsOrder
      <3>. QED  BY <1>1, <2>1, <2>4, <3>1, PrefixBegins
    <2>. QED  BY <2>2, <2>3, <2>4
  <1>6. ASSUME NEW q \in DOMAIN t \cup DOMAIN u
        PROVE  \/ IsPrefix(a, q)
               \/ q \notin DOMAIN t /\ IsStrictPrefix(q, a) /\ IsDirectory(u, q)
               \/ q \in DOMAIN t \cap DOMAIN u /\ u[q] = t[q]
    <2>1. CASE q = p
      BY <2>1
    <2>2. CASE q \in DOMAIN t \ {p}
      BY <1>4, <2>2
    <2>3. CASE q \in Ancestors(p) \ DOMAIN t
      BY <1>4, <1>5, <2>3 DEF IsDirectory
    <2>. QED  BY <1>4, <1>6, <2>1, <2>2, <2>3
  <1>7. Confined(t, u, a)
    BY <1>6 DEF Confined
  <1>. QED  BY <1>7

\* A directory emptied: nothing of it is left, and nothing else is touched.
LEMMA Emptied ==
    ASSUME NEW t, Tree(t), NEW p \in CleanPath
    PROVE  LET u == RemoveTree(t, p)
           IN  /\ Tree(u) /\ Confined(t, u, p)
               /\ \A q \in DOMAIN u : ~IsStrictPrefix(p, q)
  <1> DEFINE u == RemoveTree(t, p)
  <1>1. CASE ~IsDirectory(t, p)
    <2>1. u = t
      BY <1>1 DEF RemoveTree
    <2>2. ASSUME NEW q \in DOMAIN t PROVE ~IsStrictPrefix(p, q)
      <3>1. q \in CleanPath /\ p \notin Ancestors(q)
        BY <1>1, <2>2 DEF Tree
      <3>2. q \in Path /\ p \in Path /\ p \notin Above(q)
        BY <3>1, CleanIsPath, CleanAbove
      <3>. QED  BY <3>2, AboveIsPrefix, PrefixBegins
    <2>. QED  BY <2>1, <2>2, ConfinedStays
  <1>2. CASE IsDirectory(t, p)
    <2>1. u = [q \in {r \in DOMAIN t : ~IsStrictPrefix(p, r)} |-> t[q]]
      BY <1>2 DEF RemoveTree
    <2> HIDE DEF u
    <2>2. /\ DOMAIN u = {r \in DOMAIN t : ~IsStrictPrefix(p, r)}
          /\ \A q \in DOMAIN u : u[q] = t[q]
      BY <2>1
    <2>3. /\ DOMAIN t \subseteq CleanPath /\ IsDirectory(t, <<>>)
          /\ \A x \in DOMAIN t : \A q \in Ancestors(x) : IsDirectory(t, q)
      BY DEF Tree
    <2>4. ASSUME NEW x \in DOMAIN u, NEW q \in Ancestors(x) PROVE IsDirectory(u, q)
      <3>1. x \in CleanPath /\ x \in Path /\ p \in Path /\ q \in Above(x) /\ q \in Path
        BY <2>2, <2>3, <2>4, CleanIsPath, CleanAbove
      <3>2. Begins(q, x) /\ Len(q) < Len(x)
        BY <3>1, AboveIsPrefix
      <3>3. ~(Begins(p, x) /\ Len(p) < Len(x))
        BY <2>2, <3>1, PrefixBegins
      <3>4. Len(p) \in Nat /\ Len(q) \in Nat /\ Len(x) \in Nat
        BY <3>1, PathLength
      <3>5. ~(Begins(p, q) /\ Len(p) < Len(q))
        BY <3>1, <3>2, <3>3, <3>4, BeginsOrder
      <3>6. ~IsStrictPrefix(p, q)
        BY <3>1, <3>5, PrefixBegins
      <3>. QED  BY <2>2, <2>3, <2>4, <3>6 DEF IsDirectory
    <2>5. ~IsStrictPrefix(p, <<>>)
      <3>1. <<>> \in Path /\ p \in Path /\ Len(<<>>) = 0 /\ Len(p) \in Nat
        BY CleanIsPath, PathLength, EmptySeq
      <3>. QED  BY <3>1, PrefixBegins
    <2>6. Tree(u)
      BY <2>2, <2>3, <2>4, <2>5 DEF Tree, IsDirectory
    <2>7. \A q : IsStrictPrefix(p, q) => IsPrefix(p, q)
      BY DEF IsStrictPrefix
    <2>8. Confined(t, u, p)
      BY <2>2, <2>7 DEF Confined
    <2>. QED  BY <2>2, <2>6, <2>8 DEF u
  <1>. QED  BY <1>1, <1>2

-----------------------------------------------------------------------------
(* Bundles: where a path leads *)

Cleaned == [path : CleanPath, escapes : BOOLEAN]

LEMMA CleanStepIsClean ==
    ASSUME NEW acc \in Cleaned, NEW s \in Segment
    PROVE  CleanStep(acc, s) \in Cleaned
  <1>1. acc.path \in CleanPath /\ acc.escapes \in BOOLEAN
    BY DEF Cleaned
  <1>2. CASE s \in {"", "."}
    BY <1>2 DEF CleanStep
  <1>3. CASE s \notin {"", ".", ".."}
    <2>1. s \in CleanSegment
      BY <1>3 DEF CleanSegment
    <2>2. Append(acc.path, s) \in CleanPath
      BY <1>1, <2>1, CleanPieces
    <2>3. CleanStep(acc, s) = [path |-> Append(acc.path, s), escapes |-> acc.escapes]
      BY <1>3 DEF CleanStep
    <2>. QED  BY <1>1, <2>2, <2>3 DEF Cleaned
  <1>4. CASE s = ".." /\ acc.path # <<>>
    <2>1. CleanStep(acc, s) = [path |-> Parent(acc.path), escapes |-> acc.escapes]
      BY <1>4 DEF CleanStep
    <2>2. Len(acc.path) \in Nat \ {0}
      BY <1>1, <1>4, EmptySeq DEF CleanPath
    <2>3. Len(acc.path) - 1 \in 0..Len(acc.path)
      BY <2>2
    <2>4. Parent(acc.path) \in CleanPath
      BY <1>1, <2>3, CleanPieces DEF Parent
    <2>. QED  BY <1>1, <2>1, <2>4 DEF Cleaned
  <1>5. CASE s = ".." /\ acc.path = <<>>
    <2>1. CleanStep(acc, s) = [path |-> <<>>, escapes |-> TRUE]
      BY <1>5 DEF CleanStep
    <2>. QED  BY <2>1, CleanIsPath DEF Cleaned
  <1>. QED  BY <1>2, <1>3, <1>4, <1>5

\* Clean() takes its path step by step.
LEMMA CleanUnfolds ==
    ASSUME NEW s, Len(s) \in Nat
    PROVE  \E acc : /\ acc[0] = [path |-> <<>>, escapes |-> FALSE]
                    /\ \A i \in 1..Len(s) : acc[i] = CleanStep(acc[i - 1], s[i])
                    /\ Clean(s) = acc[Len(s)]
  <1> DEFINE N == Len(s)
             z == [path |-> <<>>, escapes |-> FALSE]
             step(f, i) == IF i = 0 THEN z ELSE CleanStep(f[i - 1], s[i])
             Is(f, n) == f = [i \in 0..n |-> step(f, i)]
             acc == CHOOSE f : Is(f, N)
             S == {n \in Nat : \E f : Is(f, n)}
  <1>1. Clean(s) = acc[N]
    BY DEF Clean
  <1> HIDE DEF z
  <1>2. 0 \in S
    <2> DEFINE f == [i \in 0..0 |-> z]
    <2>1. Is(f, 0)
      OBVIOUS
    <2>. QED  BY <2>1
  <1>3. ASSUME NEW n \in Nat, n \in S PROVE n + 1 \in S
    <2>1. PICK f : Is(f, n)
      BY <1>3
    <2> DEFINE next == CleanStep(f[n], s[n + 1])
               g == [i \in 0..(n + 1) |-> IF i = n + 1 THEN next ELSE f[i]]
    <2>2. next = step(f, n + 1)
      <3>1. n + 1 # 0 /\ (n + 1) - 1 = n
        OBVIOUS
      <3>. QED  BY <3>1, Zenon
    <2>3. \A i \in 0..n : f[i] = step(f, i)
      BY <2>1
    <2> HIDE DEF next
    <2>4. ASSUME NEW i \in 0..(n + 1) PROVE step(g, i) = step(f, i)
      <3>1. i # 0 => i - 1 \in 0..n /\ i - 1 # n + 1 /\ i - 1 \in 0..(n + 1)
        OBVIOUS
      <3>2. i # 0 => g[i - 1] = f[i - 1]
        BY <3>1
      <3>. QED  BY <3>2
    <2>5. \A i \in 0..(n + 1) : i = n + 1 \/ i \in 0..n
      OBVIOUS
    <2>6. \A i \in 0..(n + 1) : g[i] = step(g, i)
      BY <2>2, <2>3, <2>4, <2>5
    <2>7. Is(g, n + 1)
      BY <2>6
    <2> HIDE DEF Is, g
    <2>8. \E h : Is(h, n + 1)
      BY <2>7
    <2>. QED  BY <2>8
  <1>4. N \in S
    <2> HIDE DEF S
    <2>. QED  BY <1>2, <1>3, SetInduction
  <1>5. Is(acc, N)
    <2> HIDE DEF Is
    <2>. QED  BY <1>4
  <1>6. \A i \in 0..N : acc[i] = step(acc, i)
    BY <1>5
  <1> HIDE DEF acc
  <1>7. \A i \in 1..N : i \in 0..N /\ i # 0
    OBVIOUS
  <1>8. 0 \in 0..N
    OBVIOUS
  <1>9. acc[0] = z /\ \A i \in 1..N : acc[i] = CleanStep(acc[i - 1], s[i])
    BY <1>6, <1>7, <1>8
  <1>. QED  BY <1>1, <1>9 DEF z

\* Whatever was asked for, it leads to a clean path.
LEMMA CleanIsClean ==
    ASSUME NEW s \in Seq(Segment)
    PROVE  Clean(s) \in Cleaned
  <1>1. Len(s) \in Nat /\ \A i \in 1..Len(s) : s[i] \in Segment
    OBVIOUS
  <1>2. PICK acc : /\ acc[0] = [path |-> <<>>, escapes |-> FALSE]
                   /\ \A i \in 1..Len(s) : acc[i] = CleanStep(acc[i - 1], s[i])
                   /\ Clean(s) = acc[Len(s)]
    BY <1>1, CleanUnfolds
  <1> DEFINE S == {n \in Nat : n <= Len(s) => acc[n] \in Cleaned}
  <1>3. 0 \in S
    <2>1. [path |-> <<>>, escapes |-> FALSE] \in Cleaned
      BY CleanIsPath DEF Cleaned
    <2>. QED  BY <1>2, <2>1
  <1>4. ASSUME NEW n \in Nat, n \in S PROVE n + 1 \in S
    <2>1. n + 1 <= Len(s) => n <= Len(s) /\ n + 1 \in 1..Len(s) /\ (n + 1) - 1 = n
      BY <1>1
    <2>2. n + 1 <= Len(s) => acc[n + 1] = CleanStep(acc[n], s[n + 1])
      BY <1>2, <2>1
    <2>3. n + 1 <= Len(s) => acc[n] \in Cleaned /\ s[n + 1] \in Segment
      BY <1>1, <1>4, <2>1
    <2>4. n + 1 <= Len(s) => acc[n + 1] \in Cleaned
      BY <2>2, <2>3, CleanStepIsClean
    <2>. QED  BY <2>4
  <1>5. Len(s) \in S
    <2>1. Len(s) \in Nat
      BY <1>1
    <2> HIDE DEF S
    <2>. QED  BY <2>1, <1>3, <1>4, SetInduction
  <1>. QED  BY <1>1, <1>2, <1>5

\* and a clean one leads where it says.
LEMMA CleanStays ==
    ASSUME NEW s \in CleanPath
    PROVE  Clean(s).path = s /\ Clean(s).escapes = FALSE
  <1>1. Len(s) \in Nat /\ \A i \in 1..Len(s) : s[i] \in CleanSegment
    BY DEF CleanPath
  <1>2. PICK acc : /\ acc[0] = [path |-> <<>>, escapes |-> FALSE]
                   /\ \A i \in 1..Len(s) : acc[i] = CleanStep(acc[i - 1], s[i])
                   /\ Clean(s) = acc[Len(s)]
    BY <1>1, CleanUnfolds
  <1> DEFINE Upto(a, n) == /\ a.escapes = FALSE /\ a.path \in CleanPath
                           /\ Len(a.path) = n /\ \A i \in 1..n : a.path[i] = s[i]
             S == {n \in Nat : n <= Len(s) => Upto(acc[n], n)}
  <1>3. 0 \in S
    BY <1>2, CleanIsPath, EmptySeq
  <1>4. ASSUME NEW n \in Nat, n \in S, n + 1 <= Len(s) PROVE Upto(acc[n + 1], n + 1)
    <2>1. n <= Len(s) /\ n + 1 \in 1..Len(s) /\ (n + 1) - 1 = n
      BY <1>1, <1>4
    <2> DEFINE a == acc[n]
               c == s[n + 1]
    <2>2. acc[n + 1] = CleanStep(a, c) /\ c \in CleanSegment
      BY <1>1, <1>2, <2>1
    <2>3. Upto(a, n)
      BY <1>4, <2>1
    <2> HIDE DEF a, c
    <2>4. CleanStep(a, c) = [path |-> Append(a.path, c), escapes |-> a.escapes]
      BY <2>2 DEF CleanStep, CleanSegment
    <2> DEFINE w == Append(a.path, c)
    <2>5. /\ w \in CleanPath /\ Len(w) = n + 1 /\ w[n + 1] = c
          /\ \A i \in 1..n : w[i] = a.path[i]
      BY <2>2, <2>3 DEF CleanPath
    <2>6. CleanStep(a, c).path = w /\ CleanStep(a, c).escapes = FALSE
      BY <2>3, <2>4
    <2>7. \A i \in 1..(n + 1) : i \in 1..n \/ i = n + 1
      OBVIOUS
    <2> HIDE DEF w
    <2>8. \A i \in 1..(n + 1) : w[i] = s[i]
      BY <2>3, <2>5, <2>7 DEF c
    <2>. QED  BY <2>2, <2>5, <2>6, <2>8
  <1>5. Len(s) \in S
    <2> HIDE DEF Upto
    <2>1. \A n \in Nat : n \in S => n + 1 \in S
      BY <1>4
    <2>2. Len(s) \in Nat
      BY <1>1
    <2> HIDE DEF S
    <2>. QED  BY <2>2, <1>3, <2>1, SetInduction
  <1>6. Upto(acc[Len(s)], Len(s))
    BY <1>1, <1>5
  <1>. QED  BY <1>2, <1>6, CleanIsPath, SamePath

\* SplitAll() takes its names one by one.
LEMMA SplitUnfolds ==
    ASSUME NEW s, Len(s) \in Nat
    PROVE  \E acc : /\ acc[0] = <<>>
                    /\ \A i \in 1..Len(s) : acc[i] = acc[i - 1] \o Split(s[i])
                    /\ SplitAll(s) = acc[Len(s)]
  <1> DEFINE N == Len(s)
             z == <<>>
             step(f, i) == IF i = 0 THEN z ELSE f[i - 1] \o Split(s[i])
             Is(f, n) == f = [i \in 0..n |-> step(f, i)]
             acc == CHOOSE f : Is(f, N)
             S == {n \in Nat : \E f : Is(f, n)}
  <1>1. SplitAll(s) = acc[N]
    BY DEF SplitAll
  <1> HIDE DEF z
  <1>2. 0 \in S
    <2> DEFINE f == [i \in 0..0 |-> z]
    <2>1. Is(f, 0)
      OBVIOUS
    <2>. QED  BY <2>1
  <1>3. ASSUME NEW n \in Nat, n \in S PROVE n + 1 \in S
    <2>1. PICK f : Is(f, n)
      BY <1>3
    <2> DEFINE next == f[n] \o Split(s[n + 1])
               g == [i \in 0..(n + 1) |-> IF i = n + 1 THEN next ELSE f[i]]
    <2>2. next = step(f, n + 1)
      <3>1. n + 1 # 0 /\ (n + 1) - 1 = n
        OBVIOUS
      <3>. QED  BY <3>1, Zenon
    <2>3. \A i \in 0..n : f[i] = step(f, i)
      BY <2>1
    <2> HIDE DEF next
    <2>4. ASSUME NEW i \in 0..(n + 1) PROVE step(g, i) = step(f, i)
      <3>1. i # 0 => i - 1 \in 0..n /\ i - 1 # n + 1 /\ i - 1 \in 0..(n + 1)
        OBVIOUS
      <3>2. i # 0 => g[i - 1] = f[i - 1]
        BY <3>1
      <3>. QED  BY <3>2
    <2>5. \A i \in 0..(n + 1) : i = n + 1 \/ i \in 0..n
      OBVIOUS
    <2>6. \A i \in 0..(n + 1) : g[i] = step(g, i)
      BY <2>2, <2>3, <2>4, <2>5
    <2>7. Is(g, n + 1)
      BY <2>6
    <2> HIDE DEF Is, g
    <2>8. \E h : Is(h, n + 1)
      BY <2>7
    <2>. QED  BY <2>8
  <1>4. N \in S
    <2> HIDE DEF S
    <2>. QED  BY <1>2, <1>3, SetInduction
  <1>5. Is(acc, N)
    <2> HIDE DEF Is
    <2>. QED  BY <1>4
  <1>6. \A i \in 0..N : acc[i] = step(acc, i)
    BY <1>5
  <1> HIDE DEF acc
  <1>7. \A i \in 1..N : i \in 0..N /\ i # 0
    OBVIOUS
  <1>8. 0 \in 0..N
    OBVIOUS
  <1>9. acc[0] = z /\ \A i \in 1..N : acc[i] = acc[i - 1] \o Split(s[i])
    BY <1>6, <1>7, <1>8
  <1>. QED  BY <1>1, <1>9 DEF z

LEMMA One ==
    ASSUME NEW S, NEW x \in S
    PROVE  <<x>> \in Seq(S) /\ Len(<<x>>) = 1 /\ <<x>>[1] = x
  OBVIOUS

LEMMA SplitIsSegments ==
    ASSUME NEW s \in Seq(STRING)
    PROVE  SplitAll(s) \in Seq(Segment)
  <1>1. Len(s) \in Nat /\ \A i \in 1..Len(s) : s[i] \in STRING
    OBVIOUS
  <1>2. PICK acc : /\ acc[0] = <<>>
                   /\ \A i \in 1..Len(s) : acc[i] = acc[i - 1] \o Split(s[i])
                   /\ SplitAll(s) = acc[Len(s)]
    BY <1>1, SplitUnfolds
  <1>3. ASSUME NEW name \in STRING PROVE Split(name) \in Seq(Segment)
    <2>1. CASE name \in DOMAIN Segments
      BY <2>1, BundlesAssumption DEF Split
    <2>2. CASE name \notin DOMAIN Segments
      <3>1. name \in Segment
        BY <2>2 DEF Segment
      <3>2. <<name>> \in Seq(Segment)
        BY <3>1, One
      <3>3. Split(name) = <<name>>
        BY <2>2 DEF Split
      <3>. QED  BY <3>2, <3>3
    <2>. QED  BY <2>1, <2>2
  <1> DEFINE S == {n \in Nat : n <= Len(s) => acc[n] \in Seq(Segment)}
  <1>4. 0 \in S
    BY <1>2, EmptySeq
  <1>5. ASSUME NEW n \in Nat, n \in S PROVE n + 1 \in S
    <2>1. n + 1 <= Len(s) => n <= Len(s) /\ n + 1 \in 1..Len(s) /\ (n + 1) - 1 = n
      BY <1>1
    <2>2. n + 1 <= Len(s) => acc[n + 1] = acc[n] \o Split(s[n + 1])
      BY <1>2, <2>1
    <2>3. n + 1 <= Len(s) => acc[n] \in Seq(Segment) /\ Split(s[n + 1]) \in Seq(Segment)
      BY <1>1, <1>3, <1>5, <2>1
    <2>4. n + 1 <= Len(s) => acc[n + 1] \in Seq(Segment)
      BY <2>2, <2>3, ConcatProperties
    <2>. QED  BY <2>4
  <1>6. Len(s) \in S
    <2>1. Len(s) \in Nat
      BY <1>1
    <2> HIDE DEF S
    <2>. QED  BY <2>1, <1>4, <1>5, SetInduction
  <1>. QED  BY <1>1, <1>2, <1>6

LEMMA SplitStays ==
    ASSUME NEW s \in CleanPath
    PROVE  SplitAll(s) = s
  <1>1. Len(s) \in Nat /\ \A i \in 1..Len(s) : s[i] \in CleanSegment
    BY DEF CleanPath
  <1>2. PICK acc : /\ acc[0] = <<>>
                   /\ \A i \in 1..Len(s) : acc[i] = acc[i - 1] \o Split(s[i])
                   /\ SplitAll(s) = acc[Len(s)]
    BY <1>1, SplitUnfolds
  <1> DEFINE Upto(a, n) == a \in CleanPath /\ Len(a) = n /\ \A i \in 1..n : a[i] = s[i]
             S == {n \in Nat : n <= Len(s) => Upto(acc[n], n)}
  <1>3. 0 \in S
    BY <1>2, CleanIsPath, EmptySeq
  <1>4. ASSUME NEW n \in Nat, n \in S, n + 1 <= Len(s) PROVE Upto(acc[n + 1], n + 1)
    <2>1. n <= Len(s) /\ n + 1 \in 1..Len(s) /\ (n + 1) - 1 = n
      BY <1>1, <1>4
    <2> DEFINE a == acc[n]
               c == s[n + 1]
    <2>2. acc[n + 1] = a \o Split(c) /\ c \in CleanSegment
      BY <1>1, <1>2, <2>1
    <2>3. Upto(a, n)
      BY <1>4, <2>1
    <2> HIDE DEF a, c
    <2>4. Split(c) = <<c>>
      BY <2>2 DEF Split, CleanSegment, Segment
    <2> DEFINE w == a \o <<c>>
    <2>5. a \in Seq(CleanSegment) /\ Len(a) = n /\ <<c>> \in Seq(CleanSegment)
          /\ Len(<<c>>) = 1 /\ <<c>>[1] = c
      BY <2>2, <2>3, One DEF CleanPath
    <2>6. /\ w \in Seq(CleanSegment) /\ Len(w) = n + 1
          /\ \A i \in 1..(n + 1) : w[i] = IF i <= n THEN a[i] ELSE <<c>>[i - n]
      BY <2>5, ConcatProperties
    <2> HIDE DEF w
    <2>7. w[n + 1] = c /\ \A i \in 1..n : w[i] = a[i]
      <3>1. /\ n + 1 \in 1..(n + 1) /\ ~(n + 1 <= n) /\ (n + 1) - n = 1
            /\ \A i \in 1..n : i \in 1..(n + 1) /\ i <= n
        OBVIOUS
      <3>. QED  BY <2>5, <2>6, <3>1
    <2>8. \A i \in 1..(n + 1) : i \in 1..n \/ i = n + 1
      OBVIOUS
    <2>9. \A i \in 1..(n + 1) : w[i] = s[i]
      BY <2>3, <2>7, <2>8 DEF c
    <2>10. acc[n + 1] = w
      BY <2>2, <2>4 DEF w
    <2>. QED  BY <2>6, <2>9, <2>10 DEF CleanPath
  <1>5. Len(s) \in S
    <2> HIDE DEF Upto
    <2>1. \A n \in Nat : n \in S => n + 1 \in S
      BY <1>4
    <2>2. Len(s) \in Nat
      BY <1>1
    <2> HIDE DEF S
    <2>. QED  BY <2>2, <1>3, <2>1, SetInduction
  <1>6. Upto(acc[Len(s)], Len(s))
    BY <1>1, <1>5
  <1>. QED  BY <1>2, <1>6, CleanIsPath, SamePath

-----------------------------------------------------------------------------
(* Bundles: the files of a bundle *)

\* WriteTree() writes file by file.
LEMMA WriteUnfolds ==
    ASSUME NEW t, NEW dest, NEW s, Len(s) \in Nat
    PROVE  \E acc : /\ acc[0] = [ok |-> TRUE, tree |-> t]
                    /\ \A i \in 1..Len(s) : acc[i] = WriteFile(dest, acc[i - 1], s[i])
                    /\ WriteTree(t, dest, s) = acc[Len(s)]
  <1> DEFINE N == Len(s)
             z == [ok |-> TRUE, tree |-> t]
             step(f, i) == IF i = 0 THEN z ELSE WriteFile(dest, f[i - 1], s[i])
             Is(f, n) == f = [i \in 0..n |-> step(f, i)]
             acc == CHOOSE f : Is(f, N)
             S == {n \in Nat : \E f : Is(f, n)}
  <1>1. WriteTree(t, dest, s) = acc[N]
    BY DEF WriteTree
  <1> HIDE DEF z
  <1>2. 0 \in S
    <2> DEFINE f == [i \in 0..0 |-> z]
    <2>1. Is(f, 0)
      OBVIOUS
    <2>. QED  BY <2>1
  <1>3. ASSUME NEW n \in Nat, n \in S PROVE n + 1 \in S
    <2>1. PICK f : Is(f, n)
      BY <1>3
    <2> DEFINE next == WriteFile(dest, f[n], s[n + 1])
               g == [i \in 0..(n + 1) |-> IF i = n + 1 THEN next ELSE f[i]]
    <2>2. next = step(f, n + 1)
      <3>1. n + 1 # 0 /\ (n + 1) - 1 = n
        OBVIOUS
      <3>. QED  BY <3>1, Zenon
    <2>3. \A i \in 0..n : f[i] = step(f, i)
      BY <2>1
    <2> HIDE DEF next
    <2>4. ASSUME NEW i \in 0..(n + 1) PROVE step(g, i) = step(f, i)
      <3>1. i # 0 => i - 1 \in 0..n /\ i - 1 # n + 1 /\ i - 1 \in 0..(n + 1)
        OBVIOUS
      <3>2. i # 0 => g[i - 1] = f[i - 1]
        BY <3>1
      <3>. QED  BY <3>2
    <2>5. \A i \in 0..(n + 1) : i = n + 1 \/ i \in 0..n
      OBVIOUS
    <2>6. \A i \in 0..(n + 1) : g[i] = step(g, i)
      BY <2>2, <2>3, <2>4, <2>5
    <2>7. Is(g, n + 1)
      BY <2>6
    <2> HIDE DEF Is, g
    <2>8. \E h : Is(h, n + 1)
      BY <2>7
    <2>. QED  BY <2>8
  <1>4. N \in S
    <2> HIDE DEF S
    <2>. QED  BY <1>2, <1>3, SetInduction
  <1>5. Is(acc, N)
    <2> HIDE DEF Is
    <2>. QED  BY <1>4
  <1>6. \A i \in 0..N : acc[i] = step(acc, i)
    BY <1>5
  <1> HIDE DEF acc
  <1>7. \A i \in 1..N : i \in 0..N /\ i # 0
    OBVIOUS
  <1>8. 0 \in 0..N
    OBVIOUS
  <1>9. acc[0] = z /\ \A i \in 1..N : acc[i] = WriteFile(dest, acc[i - 1], s[i])
    BY <1>6, <1>7, <1>8
  <1>. QED  BY <1>1, <1>9 DEF z

FileList == Seq(Seq(STRING) \X (STRING \ {Folder}))

\* Files with clean paths, each once.
Faithful(files) ==
    /\ \A f \in files : f[1] \in CleanPath \ {<<>>} /\ f[2] # Folder
    /\ \A f, g \in files : f[1] = g[1] => f[2] = g[2]

LEMMA ListedFiles ==
    ASSUME NEW files \in FileList
    PROVE  /\ Len(files) \in Nat /\ DOMAIN files = 1..Len(files)
           /\ \A i \in 1..Len(files) :
                /\ files[i][1] \in Seq(STRING) /\ files[i][2] \in STRING \ {Folder}
                /\ files[i] = <<files[i][1], files[i][2]>>
  <1> DEFINE A == Seq(STRING)
             B == STRING \ {Folder}
             F == A \X B
  <1>1. \A f \in F : f[1] \in A /\ f[2] \in B /\ f = <<f[1], f[2]>>
    OBVIOUS
  <1> HIDE DEF F
  <1>2. files \in Seq(F)
    BY DEF FileList, F
  <1>3. Len(files) \in Nat /\ DOMAIN files = 1..Len(files)
        /\ \A i \in 1..Len(files) : files[i] \in F
    BY <1>2
  <1>. QED  BY <1>1, <1>3

\* One file of the list.
LEMMA FileStep ==
    ASSUME NEW acc, Tree(acc.tree), NEW dest \in CleanPath,
           NEW file, file[1] \in Seq(STRING), file[2] # Folder
    PROVE  LET next == WriteFile(dest, acc, file)
               p == SafeJoin(dest, SplitAll(file[1]))
           IN  /\ Tree(next.tree) /\ Confined(acc.tree, next.tree, dest)
               /\ next.ok => /\ acc.ok /\ p \in CleanPath /\ CanWrite(acc.tree, p)
                             /\ next.tree = WriteAt(acc.tree, p, file[2])
  <1> DEFINE segments == SplitAll(file[1])
             p == SafeJoin(dest, segments)
             next == WriteFile(dest, acc, file)
  <1>1. segments \in Seq(Segment)
    BY SplitIsSegments
  <1>2. Clean(segments).path \in CleanPath
    BY <1>1, CleanIsClean DEF Cleaned
  <1>3. p \in CleanPath /\ IsPrefix(dest, p)
    <2> DEFINE r == Clean(segments).path
    <2>1. p = dest \o r /\ r \in CleanPath
      BY <1>2 DEF SafeJoin
    <2> HIDE DEF r
    <2>2. dest \in Path /\ r \in Path /\ dest \o r \in CleanPath
      BY <2>1, CleanIsPath, CleanPieces
    <2>3. Begins(dest, dest \o r) /\ dest \o r \in Path
      BY <2>2, Joined
    <2>4. IsPrefix(dest, dest \o r)
      BY <2>2, <2>3, PrefixBegins
    <2>. QED  BY <2>1, <2>2, <2>4
  <1>4. next = IF ~acc.ok THEN acc
               ELSE IF ~Allowed(segments) \/ ~CanWrite(acc.tree, p)
               THEN [ok |-> FALSE, tree |-> acc.tree]
               ELSE [ok |-> TRUE, tree |-> WriteAt(acc.tree, p, file[2])]
    BY DEF WriteFile
  <1> HIDE DEF next, p, segments
  <1>5. CASE ~acc.ok
    <2>1. next = acc
      BY <1>4, <1>5
    <2>. QED  BY <1>5, <2>1, ConfinedStays DEF next, p, segments
  <1>6. CASE acc.ok /\ (~Allowed(segments) \/ ~CanWrite(acc.tree, p))
    <2>1. next = [ok |-> FALSE, tree |-> acc.tree]
      BY <1>4, <1>6
    <2>2. next.ok = FALSE /\ next.tree = acc.tree
      BY <2>1
    <2>. QED  BY <2>2, ConfinedStays DEF next, p, segments
  <1>7. CASE acc.ok /\ Allowed(segments) /\ CanWrite(acc.tree, p)
    <2>1. next = [ok |-> TRUE, tree |-> WriteAt(acc.tree, p, file[2])]
      BY <1>4, <1>7
    <2>2. next.tree = WriteAt(acc.tree, p, file[2])
      BY <2>1
    <2>3. Tree(next.tree) /\ Confined(acc.tree, next.tree, dest)
      BY <1>3, <1>7, <2>2, WrittenTree, WrittenConfined
    <2>. QED  BY <1>3, <1>7, <2>2, <2>3 DEF next, p, segments
  <1>. QED  BY <1>5, <1>6, <1>7

\* However far it gets, WriteTree() stays where it was sent.
LEMMA FilesWritten ==
    ASSUME NEW t, Tree(t), NEW dest \in CleanPath, NEW files \in FileList
    PROVE  LET u == WriteTree(t, dest, files).tree
           IN  Tree(u) /\ Confined(t, u, dest)
  <1>1. Len(files) \in Nat
        /\ \A i \in 1..Len(files) : files[i][1] \in Seq(STRING) /\ files[i][2] # Folder
    BY ListedFiles
  <1>2. PICK acc : /\ acc[0] = [ok |-> TRUE, tree |-> t]
                   /\ \A i \in 1..Len(files) : acc[i] = WriteFile(dest, acc[i - 1], files[i])
                   /\ WriteTree(t, dest, files) = acc[Len(files)]
    <2>1. Len(files) \in Nat
      BY <1>1
    <2>. QED  BY <2>1, WriteUnfolds
  <1> DEFINE Fine(u) == Tree(u) /\ Confined(t, u, dest)
             S == {n \in Nat : n <= Len(files) => Fine(acc[n].tree)}
  <1>3. 0 \in S
    <2>1. acc[0].tree = t
      BY <1>2
    <2>2. Fine(t)
      BY ConfinedStays
    <2>. QED  BY <2>1, <2>2
  <1>4. ASSUME NEW n \in Nat, n \in S, n + 1 <= Len(files) PROVE Fine(acc[n + 1].tree)
    <2>1. n <= Len(files) /\ n + 1 \in 1..Len(files) /\ (n + 1) - 1 = n
      BY <1>1, <1>4
    <2>2. acc[n + 1] = WriteFile(dest, acc[n], files[n + 1])
      BY <1>2, <2>1
    <2>3. Fine(acc[n].tree)
      BY <1>4, <2>1
    <2>4. Tree(acc[n + 1].tree) /\ Confined(acc[n].tree, acc[n + 1].tree, dest)
      BY <1>1, <2>1, <2>2, <2>3, FileStep
    <2>. QED  BY <2>3, <2>4, ConfinedTwice
  <1>5. Len(files) \in S
    <2> HIDE DEF Fine
    <2>1. \A n \in Nat : n \in S => n + 1 \in S
      BY <1>4
    <2>2. Len(files) \in Nat
      BY <1>1
    <2> HIDE DEF S
    <2>. QED  BY <2>2, <1>3, <2>1, SetInduction
  <1>. QED  BY <1>1, <1>2, <1>5

\* Into an empty place, and to the end, it puts the files of the list and no others.
LEMMA FilesReplaced ==
    ASSUME NEW t, Tree(t), NEW dest \in CleanPath, NEW files \in FileList,
           Faithful(ToSet(files)), \A q \in DOMAIN t : ~IsStrictPrefix(dest, q)
    PROVE  LET w == WriteTree(t, dest, files)
           IN  w.ok => ToSet(files) = {<<Suffix(dest, q), w.tree[q]>> :
                                         q \in FilesUnder(w.tree, dest)}
  <1> DEFINE N == Len(files)
             P(i) == dest \o files[i][1]
             Only(u, n) == \A q \in FilesUnder(u, dest) : \E i \in 1..n : q = P(i)
             There(u, n) == \A i \in 1..n : P(i) \in DOMAIN u /\ u[P(i)] = files[i][2]
  <1>1. N \in Nat /\ DOMAIN files = 1..N
        /\ \A i \in 1..N : /\ files[i][1] \in Seq(STRING) /\ files[i][2] # Folder
                           /\ files[i] = <<files[i][1], files[i][2]>>
    BY ListedFiles
  <1>2. PICK acc : /\ acc[0] = [ok |-> TRUE, tree |-> t]
                   /\ \A i \in 1..N : acc[i] = WriteFile(dest, acc[i - 1], files[i])
                   /\ WriteTree(t, dest, files) = acc[N]
    <2>1. N \in Nat
      BY <1>1
    <2>. QED  BY <2>1, WriteUnfolds
  <1>3. ToSet(files) = {files[i] : i \in 1..N}
    BY <1>1 DEF ToSet
  <1>4. /\ \A i \in 1..N : files[i][1] \in CleanPath /\ files[i][1] # <<>>
        /\ \A i, j \in 1..N : files[i][1] = files[j][1] => files[i][2] = files[j][2]
    BY <1>3 DEF Faithful
  <1>5. \A i \in 1..N : SafeJoin(dest, SplitAll(files[i][1])) = P(i)
    BY <1>4, SplitStays, CleanStays DEF SafeJoin
  <1>6. \A i, j \in 1..N : P(i) = P(j) => files[i][2] = files[j][2]
    <2>1. ASSUME NEW i \in 1..N, NEW j \in 1..N, P(i) = P(j)
          PROVE  files[i][2] = files[j][2]
      <3> DEFINE x == files[i][1]
                 y == files[j][1]
      <3>1. dest \in Path /\ x \in Path /\ y \in Path
        BY <1>4, CleanIsPath
      <3>2. dest \o x = dest \o y
        BY <2>1
      <3> HIDE DEF x, y
      <3>3. x = y
        BY <3>1, <3>2, Joined
      <3>. QED  BY <1>4, <3>3 DEF x, y
    <2>. QED  BY <2>1
  <1> DEFINE Good(a, n) == Tree(a.tree) /\ (a.ok => Only(a.tree, n) /\ There(a.tree, n))
             S == {n \in Nat : n <= N => Good(acc[n], n)}
  <1>7. 0 \in S
    <2>1. acc[0].tree = t
      BY <1>2
    <2>2. FilesUnder(t, dest) = {}
      BY DEF FilesUnder
    <2>3. Only(t, 0) /\ There(t, 0)
      BY <2>2
    <2>. QED  BY <2>1, <2>3
  <1>8. ASSUME NEW n \in Nat, n \in S, n + 1 <= N PROVE Good(acc[n + 1], n + 1)
    <2>1. n <= N /\ n + 1 \in 1..N /\ (n + 1) - 1 = n /\ 1..n \subseteq 1..N
      BY <1>1, <1>8
    <2> DEFINE a == acc[n]
               b == acc[n + 1]
               f == files[n + 1]
               p == P(n + 1)
               u == b.tree
    <2>2. b = WriteFile(dest, a, f) /\ Good(a, n)
      BY <1>2, <1>8, <2>1
    <2>3. /\ Tree(u)
          /\ b.ok => a.ok /\ p \in CleanPath /\ CanWrite(a.tree, p) /\ u = WriteAt(a.tree, p, f[2])
      <3> HIDE DEF a, b, p, Good
      <3>1. Tree(a.tree) /\ f[1] \in Seq(STRING) /\ f[2] # Folder
        BY <1>1, <2>1, <2>2 DEF Good
      <3>2. SafeJoin(dest, SplitAll(f[1])) = p
        BY <1>5, <2>1 DEF p
      <3> HIDE DEF f
      <3>. QED  BY <2>2, <3>1, <3>2, FileStep
    <2>4. SUFFICES ASSUME b.ok PROVE Only(u, n + 1) /\ There(u, n + 1)
      BY <2>3
    <2> HIDE DEF a, b, u, p, f
    <2>5. /\ DOMAIN u = DOMAIN a.tree \cup Ancestors(p) \cup {p} /\ u[p] = f[2]
          /\ \A q \in Ancestors(p) : u[q] = Folder
          /\ \A q \in DOMAIN a.tree \ {p} : u[q] = a.tree[q]
      <3>1. WrittenAs(WriteAt(a.tree, p, f[2]), a.tree, p, f[2])
        BY <2>2, <2>3, <2>4, Written
      <3>2. WrittenAs(u, a.tree, p, f[2])
        BY <2>3, <2>4, <3>1
      <3>. QED  BY <3>2 DEF WrittenAs
    <2>6. Only(a.tree, n) /\ There(a.tree, n)
      BY <2>2, <2>3, <2>4
    <2>7. p = P(n + 1) /\ f[2] = files[n + 1][2]
      BY DEF p, f
    <2>8. \A i \in 1..(n + 1) : i \in 1..n \/ i = n + 1
      OBVIOUS
    <2>9. \A i \in 1..n : i \in 1..(n + 1)
      OBVIOUS
    <2>10. n + 1 \in 1..(n + 1)
      OBVIOUS
    <2> HIDE DEF P
    <2>11. ASSUME NEW q \in FilesUnder(u, dest) PROVE \E i \in 1..(n + 1) : q = P(i)
      <3>1. q \in DOMAIN u /\ u[q] # Folder /\ IsStrictPrefix(dest, q)
        BY <2>11 DEF FilesUnder, IsFile
      <3>2. CASE q = p
        BY <2>7, <2>10, <3>2
      <3>3. CASE q # p
        <4>1. q \in DOMAIN a.tree /\ a.tree[q] # Folder
          BY <2>5, <3>1, <3>3
        <4>2. q \in FilesUnder(a.tree, dest)
          BY <3>1, <4>1 DEF FilesUnder, IsFile
        <4>. QED  BY <2>6, <2>9, <4>2
      <3>. QED  BY <3>2, <3>3
    <2>12. ASSUME NEW i \in 1..(n + 1) PROVE P(i) \in DOMAIN u /\ u[P(i)] = files[i][2]
      <3>1. CASE P(i) = p
        <4>1. files[i][2] = files[n + 1][2]
          BY <1>6, <2>1, <2>7, <2>8, <3>1
        <4>. QED  BY <2>5, <2>7, <3>1, <4>1
      <3>2. CASE P(i) # p
        <4>1. i \in 1..n
          BY <2>7, <2>8, <3>2
        <4>. QED  BY <2>5, <2>6, <3>2, <4>1
      <3>. QED  BY <3>1, <3>2
    <2>. QED  BY <2>11, <2>12
  <1>9. N \in S
    <2> HIDE DEF Good
    <2>1. \A n \in Nat : n \in S => n + 1 \in S
      BY <1>8
    <2>2. N \in Nat
      BY <1>1
    <2> HIDE DEF S
    <2>. QED  BY <2>2, <1>7, <2>1, SetInduction
  <1> DEFINE w == WriteTree(t, dest, files)
  <1>10. Good(acc[N], N)
    <2> HIDE DEF Good
    <2>1. N \in Nat
      BY <1>1
    <2>. QED  BY <1>9, <2>1
  <1>11. w = acc[N] /\ Good(w, N)
    <2> HIDE DEF Good
    <2>1. w = acc[N]
      BY <1>2
    <2>. QED  BY <1>10, <2>1
  <1>12. SUFFICES ASSUME w.ok
                  PROVE  ToSet(files) = {<<Suffix(dest, q), w.tree[q]>> :
                                           q \in FilesUnder(w.tree, dest)}
    OBVIOUS
  <1>13. Only(w.tree, N) /\ There(w.tree, N)
    BY <1>11, <1>12
  <1> HIDE DEF w
  <1>14. ASSUME NEW i \in 1..N
         PROVE  /\ P(i) \in FilesUnder(w.tree, dest)
                /\ files[i] = <<Suffix(dest, P(i)), w.tree[P(i)]>>
    <2>1. files[i][1] \in CleanPath /\ files[i][1] # <<>>
      BY <1>4
    <2>2. IsStrictPrefix(dest, P(i)) /\ Suffix(dest, P(i)) = files[i][1]
      BY <2>1, SuffixJoins
    <2>3. P(i) \in DOMAIN w.tree /\ w.tree[P(i)] = files[i][2] /\ files[i][2] # Folder
      BY <1>1, <1>13
    <2> HIDE DEF P
    <2>4. P(i) \in FilesUnder(w.tree, dest)
      BY <2>2, <2>3 DEF FilesUnder, IsFile
    <2>5. files[i] = <<files[i][1], files[i][2]>>
      BY <1>1
    <2>. QED  BY <2>2, <2>3, <2>4, <2>5
  <1> HIDE DEF P
  <1> DEFINE now == {<<Suffix(dest, q), w.tree[q]>> : q \in FilesUnder(w.tree, dest)}
  <1>15. ASSUME NEW f \in ToSet(files) PROVE f \in now
    <2>1. PICK i \in 1..N : f = files[i]
      BY <1>3, <1>15
    <2>. QED  BY <1>14, <2>1
  <1>16. ASSUME NEW q \in FilesUnder(w.tree, dest)
         PROVE  <<Suffix(dest, q), w.tree[q]>> \in ToSet(files)
    <2>1. PICK i \in 1..N : q = P(i)
      BY <1>13, <1>16
    <2>2. files[i] \in ToSet(files)
      BY <1>3
    <2>. QED  BY <1>14, <2>1, <2>2
  <1>. QED  BY <1>15, <1>16

-----------------------------------------------------------------------------
(* Bundles: the invariant *)

BundlesInv ==
    /\ Tree(tree)
    /\ dataChanged \in BOOLEAN
    /\ exported # {<<"by_hand">>} => Faithful(exported)

LEMMA ResolvedIsClean ==
    ASSUME NEW prefix \in Places
    PROVE  Resolved(prefix) \in CleanPath
  <1>1. prefix \in Seq(Segment)
    BY BundlesAssumption
  <1>. QED  BY <1>1, CleanIsClean DEF Cleaned, Resolved

\* What a tree gives away, named from p on.
LEMMA ExportIsFaithful ==
    ASSUME NEW t, Tree(t), NEW p \in CleanPath
    PROVE  Faithful({<<Suffix(p, q), t[q]>> : q \in Exportable(t, p)})
  <1> DEFINE e == {<<Suffix(p, q), t[q]>> : q \in Exportable(t, p)}
  <1>1. ASSUME NEW q \in Exportable(t, p)
        PROVE  /\ q \in CleanPath /\ t[q] # Folder
               /\ Suffix(p, q) \in CleanPath \ {<<>>} /\ p \o Suffix(p, q) = q
    <2>1. q \in DOMAIN t /\ t[q] # Folder /\ IsStrictPrefix(p, q)
      BY <1>1 DEF Exportable, FilesUnder, IsFile
    <2>2. q \in CleanPath
      BY <2>1 DEF Tree
    <2>. QED  BY <2>1, <2>2, SuffixRest
  <1>2. ASSUME NEW f \in e
        PROVE  \E q \in Exportable(t, p) : f[1] = Suffix(p, q) /\ f[2] = t[q]
    <2>1. PICK q \in Exportable(t, p) : f = <<Suffix(p, q), t[q]>>
      BY <1>2
    <2>2. f[1] = Suffix(p, q) /\ f[2] = t[q]
      BY <2>1
    <2>. QED  BY <2>2
  <1> HIDE DEF e
  <1>3. \A f \in e : f[1] \in CleanPath \ {<<>>} /\ f[2] # Folder
    BY <1>1, <1>2
  <1>4. ASSUME NEW f \in e, NEW g \in e, f[1] = g[1] PROVE f[2] = g[2]
    <2>1. PICK q \in Exportable(t, p) : f[1] = Suffix(p, q) /\ f[2] = t[q]
      BY <1>2
    <2>2. PICK r \in Exportable(t, p) : g[1] = Suffix(p, r) /\ g[2] = t[r]
      BY <1>2
    <2>3. Suffix(p, q) = Suffix(p, r)
      BY <1>4, <2>1, <2>2
    <2>4. p \o Suffix(p, q) = q /\ p \o Suffix(p, r) = r
      BY <1>1
    <2>5. q = r
      BY <2>3, <2>4
    <2>. QED  BY <2>1, <2>2, <2>5
  <1>5. Faithful(e)
    BY <1>3, <1>4 DEF Faithful
  <1>. QED  BY <1>5 DEF e

\* What arrives is a list of files, if it is read at all.
Listed(text) == NodeIn(text).ok => FilesIn(NodeIn(text).value, <<>>) \in FileList

LEMMA ImportStays ==
    ASSUME Tree(tree), NEW received, Listed(received), NEW prefix \in Places, NEW mode,
           ImportOf(received, prefix, mode)
    PROVE  /\ Tree(tree') /\ Confined(tree, tree', Resolved(prefix))
           /\ dataChanged' \in BOOLEAN /\ exported' = exported
  <1> DEFINE parsed == NodeIn(received)
             dest == Resolved(prefix)
             files == FilesIn(parsed.value, <<>>)
             before == IF mode = "replace" THEN RemoveTree(tree, dest) ELSE tree
             written == WriteTree(before, dest, files)
             accepted == parsed.ok /\ Resolves(prefix)
  <1>1. /\ tree' = IF accepted THEN written.tree ELSE tree
        /\ dataChanged' = (accepted /\ written.ok)
        /\ exported' = exported
    BY DEF ImportOf
  <1>2. dest \in CleanPath
    BY ResolvedIsClean
  <1>3. parsed.ok => files \in FileList
    BY DEF Listed
  <1>4. Tree(before) /\ Confined(tree, before, dest)
    <2> HIDE DEF dest
    <2>1. CASE mode = "replace"
      BY <1>2, <2>1, Emptied
    <2>2. CASE mode # "replace"
      BY <2>2, ConfinedStays
    <2>. QED  BY <2>1, <2>2
  <1> HIDE DEF before, files, dest
  <1>5. accepted => Tree(written.tree) /\ Confined(before, written.tree, dest)
    BY <1>2, <1>3, <1>4, FilesWritten
  <1>6. dataChanged' \in BOOLEAN
    BY <1>1
  <1> HIDE DEF accepted, written
  <1>7. CASE accepted
    BY <1>1, <1>4, <1>5, <1>6, <1>7, ConfinedTwice DEF dest
  <1>8. CASE ~accepted
    BY <1>1, <1>6, <1>8, ConfinedStays DEF dest
  <1>. QED  BY <1>7, <1>8

\* The bundle at hand is a list of files, and so is one cut short, being refused.
LEMMA TextsAreListed ==
    ASSUME NEW Tokens, bundle \in Seq(Tokens), ReadWholeOrNotAtAll, bundle # <<>>
    PROVE  Listed(bundle) /\ Listed(Front(bundle))
  <1>1. FilesIn(NodeIn(bundle).value, <<>>) \in FileList
    BY DEF ReadWholeOrNotAtAll, FileList
  <1>2. Len(bundle) \in Nat \ {0}
    BY EmptySeq
  <1>3. Len(bundle) - 1 \in 0..(Len(bundle) - 1)
    BY <1>2
  <1>4. ~NodeIn(SubSeq(bundle, 1, Len(bundle) - 1)).ok
    BY <1>3 DEF ReadWholeOrNotAtAll
  <1>5. ~NodeIn(Front(bundle)).ok
    BY <1>4 DEF Front
  <1>. QED  BY <1>1, <1>5 DEF Listed

LEMMA ResetStays ==
    ASSUME Tree(tree), NEW prefix \in Places, Reset(prefix)
    PROVE  /\ Tree(tree') /\ Confined(tree, tree', Resolved(prefix))
           /\ dataChanged' \in BOOLEAN /\ exported' = exported
  <1>1. tree' = RemoveTree(tree, Resolved(prefix)) /\ dataChanged' = TRUE /\ exported' = exported
    BY DEF Reset
  <1>2. Resolved(prefix) \in CleanPath
    BY ResolvedIsClean
  <1>. QED  BY <1>1, <1>2, Emptied

LEMMA AppWritesInv ==
    ASSUME BundlesInv, NEW file \in AppFiles, AppWrites(file[1], file[2])
    PROVE  BundlesInv'
  <1>1. file[1] \in CleanPath
    BY BundlesAssumption DEF CleanPath
  <1>2. /\ CanWrite(tree, file[1]) /\ tree' = WriteAt(tree, file[1], file[2])
        /\ dataChanged' = FALSE /\ exported' = exported
    BY DEF AppWrites
  <1>3. Tree(tree')
    BY <1>1, <1>2, WrittenTree DEF BundlesInv
  <1>. QED  BY <1>2, <1>3 DEF BundlesInv

LEMMA AppRemovesInv ==
    ASSUME BundlesInv, NEW p, p # <<>>, AppRemoves(p)
    PROVE  BundlesInv'
  <1>1. /\ p \in DOMAIN tree /\ \A q \in DOMAIN tree : ~IsStrictPrefix(p, q)
        /\ tree' = [q \in DOMAIN tree \ {p} |-> tree[q]]
        /\ dataChanged' = FALSE /\ exported' = exported
    BY DEF AppRemoves
  <1>2. Tree(tree)
    BY DEF BundlesInv
  <1>3. DOMAIN tree' = DOMAIN tree \ {p} /\ \A q \in DOMAIN tree' : tree'[q] = tree[q]
    BY <1>1
  <1>4. ASSUME NEW x \in DOMAIN tree', NEW q \in Ancestors(x) PROVE IsDirectory(tree', q)
    <2>1. x \in DOMAIN tree /\ x \in CleanPath /\ p \in CleanPath
      BY <1>1, <1>2, <1>3, <1>4 DEF Tree
    <2>2. IsDirectory(tree, q)
      BY <1>2, <1>4, <2>1 DEF Tree
    <2>3. x \in Path /\ q \in Above(x)
      BY <1>4, <2>1, CleanAbove
    <2>4. q \in Path /\ Begins(q, x) /\ Len(q) < Len(x)
      BY <2>3, AboveIsPrefix
    <2>5. IsStrictPrefix(q, x)
      BY <2>3, <2>4, PrefixBegins
    <2>6. q # p
      BY <1>1, <2>1, <2>5
    <2>. QED  BY <1>3, <2>2, <2>6 DEF IsDirectory
  <1>5. Tree(tree')
    BY <1>2, <1>3, <1>4 DEF Tree, IsDirectory
  <1>. QED  BY <1>1, <1>5 DEF BundlesInv

LEMMA BundlesInitInv == BundlesInit => BundlesInv
  <1> SUFFICES ASSUME BundlesInit PROVE BundlesInv
    OBVIOUS
  <1>1. tree = [p \in {<<>>} |-> Folder] /\ dataChanged = FALSE /\ exported = {}
    BY DEF BundlesInit
  <1>2. DOMAIN tree = {<<>>} /\ tree[<<>>] = Folder
    BY <1>1
  <1>3. Ancestors(<<>>) = {}
    <2>1. <<>> \in CleanPath /\ <<>> \in Path /\ Len(<<>>) = 0
      BY CleanIsPath, EmptySeq
    <2>2. 0..(Len(<<>>) - 1) = {}
      BY <2>1
    <2>. QED  BY <2>2 DEF Ancestors
  <1>4. Tree(tree)
    BY <1>2, <1>3, CleanIsPath DEF Tree, IsDirectory
  <1>5. Faithful(exported)
    BY <1>1 DEF Faithful
  <1>. QED  BY <1>1, <1>4, <1>5 DEF BundlesInv

LEMMA BundlesStep ==
    ASSUME NEW Tokens, bundle \in Seq(Tokens), ReadWholeOrNotAtAll,
           BundlesInv, [BundlesNext]_bundlesVars
    PROVE  BundlesInv'
  <1>1. Tree(tree)
    BY DEF BundlesInv
  <1>2. ASSUME NEW prefix \in Places, Export(prefix) PROVE BundlesInv'
    <2> DEFINE p == Resolved(prefix)
    <2>1. /\ exported' = {<<Suffix(p, q), tree[q]>> : q \in Exportable(tree, p)}
          /\ dataChanged' = FALSE /\ tree' = tree
      BY <1>2 DEF Export
    <2>2. p \in CleanPath
      BY ResolvedIsClean
    <2> HIDE DEF p
    <2>3. Faithful(exported')
      BY <1>1, <2>1, <2>2, ExportIsFaithful
    <2>. QED  BY <1>1, <2>1, <2>3 DEF BundlesInv
  <1>3. ASSUME NEW prefix \in Places, Reset(prefix) PROVE BundlesInv'
    BY <1>1, <1>3, ResetStays DEF BundlesInv
  <1>4. ASSUME NEW node \in HandMade, WriteByHand(node) PROVE BundlesInv'
    BY <1>4 DEF WriteByHand, BundlesInv
  <1>5. ASSUME NEW prefix \in Places, NEW mode \in Modes,
               Import(prefix, mode) \/ ImportCutShort(prefix, mode)
        PROVE  BundlesInv'
    <2>1. PICK received \in {bundle, Front(bundle)} : ImportOf(received, prefix, mode)
      BY <1>5 DEF Import, ImportCutShort
    <2>2. bundle # <<>>
      BY <2>1 DEF ImportOf
    <2>3. Listed(received)
      BY <2>2, TextsAreListed
    <2>. QED  BY <1>1, <2>1, <2>3, ImportStays DEF BundlesInv
  <1>6. ASSUME NEW file \in AppFiles, AppWrites(file[1], file[2]) PROVE BundlesInv'
    BY <1>6, AppWritesInv
  <1>7. ASSUME NEW file \in AppFiles, AppRemoves(file[1]) PROVE BundlesInv'
    <2>1. file[1] # <<>>
      BY BundlesAssumption
    <2>. QED  BY <1>7, <2>1, AppRemovesInv
  <1>8. CASE UNCHANGED bundlesVars
    BY <1>8 DEF bundlesVars, BundlesInv
  <1>. QED  BY <1>2, <1>3, <1>4, <1>5, <1>6, <1>7, <1>8 DEF BundlesNext

-----------------------------------------------------------------------------
(* Bundles: the theorems *)

\* At every reachable state the tree is one: every file and directory stands in a
\* directory, whatever was exported, imported, broken off, reset, written or removed
\* (fs.go, commands.go), given a text format that reads a bundle whole or not at all.
THEOREM BundlesTypeCorrect ==
    ASSUME NEW Tokens
    PROVE  BundlesSpec /\ [](bundle \in Seq(Tokens)) /\ []ReadWholeOrNotAtAll
               => []BundlesTypeOK
  <1>1. BundlesInv => BundlesTypeOK
    BY ParentIsAbove DEF BundlesInv, BundlesTypeOK, Tree
  <1>2. bundle \in Seq(Tokens) /\ ReadWholeOrNotAtAll /\ BundlesInv /\ [BundlesNext]_bundlesVars
            => BundlesInv'
    BY BundlesStep
  <1>. QED  BY <1>1, <1>2, BundlesInitInv, PTL DEF BundlesSpec

\* No import or reset, completed or broken off, touches anything outside its prefix
\* but for making the directories that lead to it (SafeJoin(), ResolveUnder()).
THEOREM NothingLeavesThePrefix ==
    ASSUME NEW Tokens
    PROVE  BundlesSpec /\ [](bundle \in Seq(Tokens)) /\ []ReadWholeOrNotAtAll
               => StaysUnderPrefix
  <1> DEFINE Stays == \A prefix \in Places :
          /\ tree' # tree
          /\ Reset(prefix) \/ \E mode \in Modes : Import(prefix, mode)
          =>
              LET p == Resolved(prefix)
              IN  \A q \in DOMAIN tree \cup DOMAIN tree' :
                      \/ IsPrefix(p, q)
                      \/ q \notin DOMAIN tree /\ IsStrictPrefix(q, p) /\ IsDirectory(tree', q)
                      \/ q \in DOMAIN tree \cap DOMAIN tree' /\ tree'[q] = tree[q]
  <1>1. ASSUME bundle \in Seq(Tokens), ReadWholeOrNotAtAll, BundlesInv PROVE Stays
    <2>1. Tree(tree)
      BY <1>1 DEF BundlesInv
    <2>2. SUFFICES ASSUME NEW prefix \in Places,
                          Reset(prefix) \/ \E mode \in Modes : Import(prefix, mode)
                   PROVE  Confined(tree, tree', Resolved(prefix))
      BY DEF Confined
    <2>3. CASE Reset(prefix)
      BY <2>1, <2>3, ResetStays
    <2>4. ASSUME NEW mode \in Modes, Import(prefix, mode)
          PROVE  Confined(tree, tree', Resolved(prefix))
      <3>1. ImportOf(bundle, prefix, mode) /\ bundle # <<>>
        BY <2>4 DEF Import, ImportOf
      <3>2. Listed(bundle)
        BY <1>1, <3>1, TextsAreListed
      <3>. QED  BY <2>1, <3>1, <3>2, ImportStays
    <2>. QED  BY <2>2, <2>3, <2>4
  <1>2. bundle \in Seq(Tokens) /\ ReadWholeOrNotAtAll /\ BundlesInv => [Stays]_bundlesVars
    BY <1>1
  <1>3. bundle \in Seq(Tokens) /\ ReadWholeOrNotAtAll /\ BundlesInv /\ [BundlesNext]_bundlesVars
            => BundlesInv'
    BY BundlesStep
  <1>. QED  BY <1>2, <1>3, BundlesInitInv, PTL DEF BundlesSpec, StaysUnderPrefix

\* Importing an exported bundle with REPLACE leaves, below the prefix, exactly the
\* files that were exported, whatever was written, removed or imported there since
\* (handleExportFs(), handleImportFs()).
THEOREM ReplaceBringsBack ==
    ASSUME NEW Tokens
    PROVE  BundlesSpec /\ [](bundle \in Seq(Tokens)) /\ []ReadWholeOrNotAtAll
               => ReplaceRestores
  <1> DEFINE Restores == \A prefix \in Places :
          dataChanged' /\ exported # {<<"by_hand">>} /\ Import(prefix, "replace") =>
              LET p == Resolved(prefix)
              IN  exported = {<<Suffix(p, q), tree'[q]>> : q \in FilesUnder(tree', p)}
  <1>1. ASSUME ReadWholeOrNotAtAll, BundlesInv PROVE Restores
    <2> SUFFICES ASSUME NEW prefix \in Places, dataChanged', exported # {<<"by_hand">>},
                        Import(prefix, "replace")
                 PROVE  LET p == Resolved(prefix)
                        IN  exported = {<<Suffix(p, q), tree'[q]>> : q \in FilesUnder(tree', p)}
      OBVIOUS
    <2> DEFINE p == Resolved(prefix)
               files == FilesIn(NodeIn(bundle).value, <<>>)
               before == RemoveTree(tree, p)
               written == WriteTree(before, p, files)
    <2>1. ImportOf(bundle, prefix, "replace")
      BY DEF Import
    <2>2. bundle # <<>> /\ written.ok /\ tree' = written.tree
      BY <2>1 DEF ImportOf
    <2>3. files \in FileList /\ ToSet(files) = exported
      BY <1>1, <2>2 DEF ReadWholeOrNotAtAll, FileList
    <2>4. Faithful(ToSet(files))
      BY <1>1, <2>3 DEF BundlesInv
    <2>5. p \in CleanPath
      BY ResolvedIsClean
    <2> HIDE DEF files, p
    <2>6. Tree(before) /\ \A q \in DOMAIN before : ~IsStrictPrefix(p, q)
      BY <1>1, <2>5, Emptied DEF BundlesInv
    <2> HIDE DEF before
    <2>7. ToSet(files) = {<<Suffix(p, q), written.tree[q]>> : q \in FilesUnder(written.tree, p)}
      BY <2>2, <2>3, <2>4, <2>5, <2>6, FilesReplaced
    <2> HIDE DEF written
    <2>8. exported = {<<Suffix(p, q), tree'[q]>> : q \in FilesUnder(tree', p)}
      BY <2>2, <2>3, <2>7
    <2>. QED  BY <2>8 DEF p
  <1>2. ReadWholeOrNotAtAll /\ BundlesInv => [Restores]_bundlesVars
    BY <1>1
  <1>3. bundle \in Seq(Tokens) /\ ReadWholeOrNotAtAll /\ BundlesInv /\ [BundlesNext]_bundlesVars
            => BundlesInv'
    BY BundlesStep
  <1>. QED  BY <1>2, <1>3, BundlesInitInv, PTL DEF BundlesSpec, ReplaceRestores
=============================================================================
