-------------------------- MODULE CommandLineProofs --------------------------
(***************************************************************************)
(* Proofs about CommandLine, for any commands, any words and lines of any  *)
(* length: its type invariant, that the native runner and the terminal     *)
(* make the same request of a line, that a self-contained flag may stand   *)
(* on either side of an argument, that the line the inspector shows for a  *)
(* form makes the form's request, and that no bare word of a line is       *)
(* dropped.                                                                *)
(***************************************************************************)
EXTENDS CommandLine, FiniteSetTheorems, SequenceTheorems, NaturalsInduction,
        WellFoundedInduction, TLAPS

\* The order of the natural numbers, as a relation.
Descent == {ss \in Nat \X Nat : ss[1] < ss[2]}

LEMMA SetInduction ==
    ASSUME NEW S, 0 \in S, \A n \in Nat : n \in S => n + 1 \in S
    PROVE  Nat \subseteq S
  <1>1. IsWellFoundedOn(Descent, Nat)
    BY NatLessThanWellFounded DEF OpToRel, Descent
  <1>2. SUFFICES ASSUME Nat \ S # {} PROVE FALSE
    OBVIOUS
  <1>3. PICK n \in Nat \ S : \A m \in Nat \ S : <<m, n>> \notin Descent
    BY <1>1, <1>2, WFMin
  <1>4. n - 1 \in Nat /\ n - 1 < n
    BY <1>3
  <1>5. n - 1 \notin S
    BY <1>3, <1>4
  <1>6. <<n - 1, n>> \in Nat \X Nat /\ <<n - 1, n>>[1] = n - 1 /\ <<n - 1, n>>[2] = n
    BY <1>4
  <1>7. <<n - 1, n>> \in Descent
    BY <1>4, <1>6 DEF Descent
  <1>. QED  BY <1>3, <1>4, <1>5, <1>7

-----------------------------------------------------------------------------
(* Reading word by word *)

Start == Reading(NoValues, <<>>, "", FALSE)
Unsorted == Permuted(<<>>, <<>>, "", FALSE)

\* A line is read word by word.
LEMMA ReadUnfolds ==
    ASSUME NEW tier, NEW s, Len(s) \in Nat
    PROVE  \E acc : /\ acc[0] = Start
                    /\ \A i \in 1..Len(s) : acc[i] = ReadStep(tier, acc[i - 1], s[i])
                    /\ ReadWords(tier, s) = acc[Len(s)]
  <1> DEFINE N == Len(s)
             z == Start
             step(f, i) == IF i = 0 THEN z ELSE ReadStep(tier, f[i - 1], s[i])
             Is(f, n) == f = [i \in 0..n |-> step(f, i)]
             acc == CHOOSE f : Is(f, N)
             S == {n \in Nat : \E f : Is(f, n)}
  <1>1. ReadWords(tier, s) = acc[N]
    BY DEF ReadWords, Start
  <1> HIDE DEF z
  <1>2. 0 \in S
    <2> DEFINE f == [i \in 0..0 |-> z]
    <2>1. Is(f, 0)
      OBVIOUS
    <2>. QED  BY <2>1
  <1>3. ASSUME NEW n \in Nat, n \in S PROVE n + 1 \in S
    <2>1. PICK f : Is(f, n)
      BY <1>3
    <2> DEFINE next == ReadStep(tier, f[n], s[n + 1])
               g == [i \in 0..(n + 1) |-> IF i = n + 1 THEN next ELSE f[i]]
    <2>2. next = step(f, n + 1)
      <3>1. n + 1 # 0 /\ (n + 1) - 1 = n
        OBVIOUS
      <3>. QED  BY <3>1, Zenon
    <2>3. \A i \in 0..n : f[i] = step(f, i)
      BY <2>1
    <2> HIDE DEF next
    <2>4. ASSUME NEW i \in 0..(n + 1) PROVE step(g, i) = step(f, i)
      <3>1. i # 0 => i - 1 \in 0..n /\ i - 1 # n + 1 /\ i - 1 \in 0..(n + 1)
        OBVIOUS
      <3>2. i # 0 => g[i - 1] = f[i - 1]
        BY <3>1
      <3>. QED  BY <3>2
    <2>5. \A i \in 0..(n + 1) : i = n + 1 \/ i \in 0..n
      OBVIOUS
    <2>6. \A i \in 0..(n + 1) : g[i] = step(g, i)
      BY <2>2, <2>3, <2>4, <2>5
    <2>7. Is(g, n + 1)
      BY <2>6
    <2> HIDE DEF Is, g
    <2>8. \E h : Is(h, n + 1)
      BY <2>7
    <2>. QED  BY <2>8
  <1>4. N \in S
    <2> HIDE DEF S
    <2>. QED  BY <1>2, <1>3, SetInduction
  <1>5. Is(acc, N)
    <2> HIDE DEF Is
    <2>. QED  BY <1>4
  <1>6. \A i \in 0..N : acc[i] = step(acc, i)
    BY <1>5
  <1> HIDE DEF acc
  <1>7. \A i \in 1..N : i \in 0..N /\ i # 0
    OBVIOUS
  <1>8. 0 \in 0..N
    OBVIOUS
  <1>9. acc[0] = z /\ \A i \in 1..N : acc[i] = ReadStep(tier, acc[i - 1], s[i])
    BY <1>6, <1>7, <1>8
  <1>. QED  BY <1>1, <1>9 DEF z

\* So is it permuted,
LEMMA PermuteUnfolds ==
    ASSUME NEW s, Len(s) \in Nat
    PROVE  \E acc : /\ acc[0] = Unsorted
                    /\ \A i \in 1..Len(s) : acc[i] = PermuteStep(acc[i - 1], s[i])
                    /\ PermuteAll(s) = acc[Len(s)]
  <1> DEFINE N == Len(s)
             z == Unsorted
             step(f, i) == IF i = 0 THEN z ELSE PermuteStep(f[i - 1], s[i])
             Is(f, n) == f = [i \in 0..n |-> step(f, i)]
             acc == CHOOSE f : Is(f, N)
             S == {n \in Nat : \E f : Is(f, n)}
  <1>1. PermuteAll(s) = acc[N]
    BY DEF PermuteAll, Unsorted
  <1> HIDE DEF z
  <1>2. 0 \in S
    <2> DEFINE f == [i \in 0..0 |-> z]
    <2>1. Is(f, 0)
      OBVIOUS
    <2>. QED  BY <2>1
  <1>3. ASSUME NEW n \in Nat, n \in S PROVE n + 1 \in S
    <2>1. PICK f : Is(f, n)
      BY <1>3
    <2> DEFINE next == PermuteStep(f[n], s[n + 1])
               g == [i \in 0..(n + 1) |-> IF i = n + 1 THEN next ELSE f[i]]
    <2>2. next = step(f, n + 1)
      <3>1. n + 1 # 0 /\ (n + 1) - 1 = n
        OBVIOUS
      <3>. QED  BY <3>1, Zenon
    <2>3. \A i \in 0..n : f[i] = step(f, i)
      BY <2>1
    <2> HIDE DEF next
    <2>4. ASSUME NEW i \in 0..(n + 1) PROVE step(g, i) = step(f, i)
      <3>1. i # 0 => i - 1 \in 0..n /\ i - 1 # n + 1 /\ i - 1 \in 0..(n + 1)
        OBVIOUS
      <3>2. i # 0 => g[i - 1] = f[i - 1]
        BY <3>1
      <3>. QED  BY <3>2
    <2>5. \A i \in 0..(n + 1) : i = n + 1 \/ i \in 0..n
      OBVIOUS
    <2>6. \A i \in 0..(n + 1) : g[i] = step(g, i)
      BY <2>2, <2>3, <2>4, <2>5
    <2>7. Is(g, n + 1)
      BY <2>6
    <2> HIDE DEF Is, g
    <2>8. \E h : Is(h, n + 1)
      BY <2>7
    <2>. QED  BY <2>8
  <1>4. N \in S
    <2> HIDE DEF S
    <2>. QED  BY <1>2, <1>3, SetInduction
  <1>5. Is(acc, N)
    <2> HIDE DEF Is
    <2>. QED  BY <1>4
  <1>6. \A i \in 0..N : acc[i] = step(acc, i)
    BY <1>5
  <1> HIDE DEF acc
  <1>7. \A i \in 1..N : i \in 0..N /\ i # 0
    OBVIOUS
  <1>8. 0 \in 0..N
    OBVIOUS
  <1>9. acc[0] = z /\ \A i \in 1..N : acc[i] = PermuteStep(acc[i - 1], s[i])
    BY <1>6, <1>7, <1>8
  <1>. QED  BY <1>1, <1>9 DEF z

\* and the words left over are given out flag by flag.
LEMMA AssignUnfolds ==
    ASSUME NEW parsed, NEW s, s = Positionals, Len(s) \in Nat
    PROVE  \E acc : /\ acc[0] = parsed
                    /\ \A i \in 1..Len(s) : acc[i] = Assign(acc[i - 1], s[i])
                    /\ AssignPositionals(parsed) = acc[Len(s)]
  <1> DEFINE N == Len(s)
             z == parsed
             step(f, i) == IF i = 0 THEN z ELSE Assign(f[i - 1], s[i])
             Is(f, n) == f = [i \in 0..n |-> step(f, i)]
             acc == CHOOSE f : Is(f, N)
             S == {n \in Nat : \E f : Is(f, n)}
  <1>1. AssignPositionals(parsed) = acc[N]
    BY DEF AssignPositionals
  <1> HIDE DEF z
  <1>2. 0 \in S
    <2> DEFINE f == [i \in 0..0 |-> z]
    <2>1. Is(f, 0)
      OBVIOUS
    <2>. QED  BY <2>1
  <1>3. ASSUME NEW n \in Nat, n \in S PROVE n + 1 \in S
    <2>1. PICK f : Is(f, n)
      BY <1>3
    <2> DEFINE next == Assign(f[n], s[n + 1])
               g == [i \in 0..(n + 1) |-> IF i = n + 1 THEN next ELSE f[i]]
    <2>2. next = step(f, n + 1)
      <3>1. n + 1 # 0 /\ (n + 1) - 1 = n
        OBVIOUS
      <3>. QED  BY <3>1, Zenon
    <2>3. \A i \in 0..n : f[i] = step(f, i)
      BY <2>1
    <2> HIDE DEF next
    <2>4. ASSUME NEW i \in 0..(n + 1) PROVE step(g, i) = step(f, i)
      <3>1. i # 0 => i - 1 \in 0..n /\ i - 1 # n + 1 /\ i - 1 \in 0..(n + 1)
        OBVIOUS
      <3>2. i # 0 => g[i - 1] = f[i - 1]
        BY <3>1
      <3>. QED  BY <3>2
    <2>5. \A i \in 0..(n + 1) : i = n + 1 \/ i \in 0..n
      OBVIOUS
    <2>6. \A i \in 0..(n + 1) : g[i] = step(g, i)
      BY <2>2, <2>3, <2>4, <2>5
    <2>7. Is(g, n + 1)
      BY <2>6
    <2> HIDE DEF Is, g
    <2>8. \E h : Is(h, n + 1)
      BY <2>7
    <2>. QED  BY <2>8
  <1>4. N \in S
    <2> HIDE DEF S
    <2>. QED  BY <1>2, <1>3, SetInduction
  <1>5. Is(acc, N)
    <2> HIDE DEF Is
    <2>. QED  BY <1>4
  <1>6. \A i \in 0..N : acc[i] = step(acc, i)
    BY <1>5
  <1> HIDE DEF acc
  <1>7. \A i \in 1..N : i \in 0..N /\ i # 0
    OBVIOUS
  <1>8. 0 \in 0..N
    OBVIOUS
  <1>9. acc[0] = z /\ \A i \in 1..N : acc[i] = Assign(acc[i - 1], s[i])
    BY <1>6, <1>7, <1>8
  <1>. QED  BY <1>1, <1>9 DEF z

\* One word more.
LEMMA ReadAppend ==
    ASSUME NEW tier, NEW X, NEW s \in Seq(X), NEW w \in X
    PROVE  ReadWords(tier, Append(s, w)) = ReadStep(tier, ReadWords(tier, s), w)
  <1> DEFINE n == Len(s)
             t == Append(s, w)
  <1>1. /\ n \in Nat /\ Len(t) = n + 1 /\ t[n + 1] = w
        /\ \A i \in 1..n : t[i] = s[i]
    OBVIOUS
  <1> HIDE DEF n, t
  <1>2. PICK a : /\ a[0] = Start
                 /\ \A i \in 1..n : a[i] = ReadStep(tier, a[i - 1], s[i])
                 /\ ReadWords(tier, s) = a[n]
    BY <1>1, ReadUnfolds DEF n
  <1>3. Len(t) \in Nat
    BY <1>1
  <1>4. PICK b : /\ b[0] = Start
                 /\ \A i \in 1..Len(t) : b[i] = ReadStep(tier, b[i - 1], t[i])
                 /\ ReadWords(tier, t) = b[Len(t)]
    BY <1>3, ReadUnfolds
  <1> DEFINE S == {k \in Nat : k <= n => a[k] = b[k]}
  <1>5. 0 \in S
    BY <1>2, <1>4
  <1>6. ASSUME NEW k \in Nat, k \in S PROVE k + 1 \in S
    <2>1. SUFFICES ASSUME k + 1 <= n PROVE a[k + 1] = b[k + 1]
      OBVIOUS
    <2>2. /\ k <= n /\ k + 1 \in 1..n /\ k + 1 \in 1..Len(t) /\ (k + 1) - 1 = k
      BY <1>1, <2>1
    <2>3. a[k] = b[k] /\ t[k + 1] = s[k + 1]
      BY <1>1, <1>6, <2>2
    <2>. QED  BY <1>2, <1>4, <2>2, <2>3
  <1>7. n \in S
    <2> HIDE DEF S
    <2>1. n \in Nat
      BY <1>1
    <2>. QED  BY <2>1, <1>5, <1>6, SetInduction
  <1>8. a[n] = b[n] /\ n + 1 \in 1..Len(t) /\ (n + 1) - 1 = n
    BY <1>1, <1>7
  <1>9. b[n + 1] = ReadStep(tier, b[n], w)
    BY <1>1, <1>4, <1>8
  <1>. QED  BY <1>1, <1>2, <1>4, <1>8, <1>9 DEF t


LEMMA PermuteAppend ==
    ASSUME NEW X, NEW s \in Seq(X), NEW w \in X
    PROVE  PermuteAll(Append(s, w)) = PermuteStep(PermuteAll(s), w)
  <1> DEFINE n == Len(s)
             t == Append(s, w)
  <1>1. /\ n \in Nat /\ Len(t) = n + 1 /\ t[n + 1] = w
        /\ \A i \in 1..n : t[i] = s[i]
    OBVIOUS
  <1> HIDE DEF n, t
  <1>2. PICK a : /\ a[0] = Unsorted
                 /\ \A i \in 1..n : a[i] = PermuteStep(a[i - 1], s[i])
                 /\ PermuteAll(s) = a[n]
    BY <1>1, PermuteUnfolds DEF n
  <1>3. Len(t) \in Nat
    BY <1>1
  <1>4. PICK b : /\ b[0] = Unsorted
                 /\ \A i \in 1..Len(t) : b[i] = PermuteStep(b[i - 1], t[i])
                 /\ PermuteAll(t) = b[Len(t)]
    BY <1>3, PermuteUnfolds
  <1> DEFINE S == {k \in Nat : k <= n => a[k] = b[k]}
  <1>5. 0 \in S
    BY <1>2, <1>4
  <1>6. ASSUME NEW k \in Nat, k \in S PROVE k + 1 \in S
    <2>1. SUFFICES ASSUME k + 1 <= n PROVE a[k + 1] = b[k + 1]
      OBVIOUS
    <2>2. /\ k <= n /\ k + 1 \in 1..n /\ k + 1 \in 1..Len(t) /\ (k + 1) - 1 = k
      BY <1>1, <2>1
    <2>3. a[k] = b[k] /\ t[k + 1] = s[k + 1]
      BY <1>1, <1>6, <2>2
    <2>. QED  BY <1>2, <1>4, <2>2, <2>3
  <1>7. n \in S
    <2> HIDE DEF S
    <2>1. n \in Nat
      BY <1>1
    <2>. QED  BY <2>1, <1>5, <1>6, SetInduction
  <1>8. a[n] = b[n] /\ n + 1 \in 1..Len(t) /\ (n + 1) - 1 = n
    BY <1>1, <1>7
  <1>9. b[n + 1] = PermuteStep(b[n], w)
    BY <1>1, <1>4, <1>8
  <1>. QED  BY <1>1, <1>2, <1>4, <1>8, <1>9 DEF t

\* Induction over a sequence that grows at its end.
LEMMA SeqInduction ==
    ASSUME NEW X, NEW S, <<>> \in S,
           \A s \in Seq(X), w \in X : s \in S => Append(s, w) \in S
    PROVE  Seq(X) \subseteq S
  <1> DEFINE N == {n \in Nat : \A s \in Seq(X) : Len(s) = n => s \in S}
  <1>1. 0 \in N
    <2>1. \A s \in Seq(X) : Len(s) = 0 => s = <<>>
      BY EmptySeq
    <2>. QED  BY <2>1
  <1>2. ASSUME NEW n \in Nat, n \in N PROVE n + 1 \in N
    <2>1. SUFFICES ASSUME NEW s \in Seq(X), Len(s) = n + 1 PROVE s \in S
      OBVIOUS
    <2>2. s # <<>>
      BY <2>1, EmptySeq
    <2>3. /\ SubSeq(s, 1, Len(s) - 1) \in Seq(X) /\ s[Len(s)] \in X
          /\ s = Append(SubSeq(s, 1, Len(s) - 1), s[Len(s)])
          /\ Len(SubSeq(s, 1, Len(s) - 1)) = n
      BY <2>1, <2>2
    <2>4. SubSeq(s, 1, Len(s) - 1) \in S
      BY <1>2, <2>3
    <2>. QED  BY <2>3, <2>4
  <1>3. Nat \subseteq N
    <2> HIDE DEF N
    <2>. QED  BY <1>1, <1>2, SetInduction
  <1>4. ASSUME NEW s \in Seq(X) PROVE s \in S
    <2>1. Len(s) \in Nat
      OBVIOUS
    <2>. QED  BY <1>3, <2>1
  <1>. QED  BY <1>4

LEMMA ReadNothing ==
    ASSUME NEW tier
    PROVE  ReadWords(tier, <<>>) = Start
  <1> DEFINE s == <<>>
  <1>1. Len(s) = 0
    OBVIOUS
  <1> HIDE DEF s
  <1>2. ReadWords(tier, s) = Start
    BY <1>1, ReadUnfolds
  <1>. QED  BY <1>2 DEF s

LEMMA PermuteNothing == PermuteAll(<<>>) = Unsorted
  <1> DEFINE s == <<>>
  <1>1. Len(s) = 0
    OBVIOUS
  <1> HIDE DEF s
  <1>2. PermuteAll(s) = Unsorted
    BY <1>1, PermuteUnfolds
  <1>. QED  BY <1>2 DEF s

-----------------------------------------------------------------------------
(* What a reader holds *)

\* The texts that may become values.
Text == {w.text : w \in Words} \cup {w.value : w \in Words} \cup {"true"}
Value(F) == [FlagNames -> Seq(F)]

\* Words without an own spelling of the tiers, and their texts.
FairText == {t \in Text : ~OwnSpelling(t)}
FairWord == {w \in Words : /\ w.text # "--"
                              /\ ~OwnSpelling(w.text) /\ ~OwnSpelling(w.value)}

LEMMA FlagNamed ==
    ASSUME command \in Commands, NEW w, IsKnown(w)
    PROVE  FlagOf(w) \in ToSet(command) /\ FlagOf(w).name \in FlagNames /\ FlagOf(w).name # ""
  <1> DEFINE f == FlagOf(w)
  <1>1. f \in FlagsNamed(w)
    BY DEF IsKnown, FlagOf
  <1> HIDE DEF f
  <1>2. f \in ToSet(command)
    BY <1>1 DEF FlagsNamed
  <1>3. f.name # ""
    BY <1>2, CommandLineAssumption
  <1>4. f.name \in FlagNames
    BY <1>2 DEF FlagNames
  <1>. QED  BY <1>2, <1>3, <1>4 DEF f

LEMMA ReadingFields ==
    ASSUME NEW v, NEW r, NEW o, NEW e
    PROVE  /\ Reading(v, r, o, e).ok = TRUE /\ Reading(v, r, o, e).values = v
           /\ Reading(v, r, o, e).rest = r /\ Reading(v, r, o, e).open = o
           /\ Reading(v, r, o, e).ended = e
  BY DEF Reading

LEMMA RefusalFields == Refusal.ok = FALSE
  BY DEF Refusal

LEMMA PermutedFields ==
    ASSUME NEW f, NEW p, NEW o, NEW e
    PROVE  /\ Permuted(f, p, o, e).flags = f /\ Permuted(f, p, o, e).pos = p
           /\ Permuted(f, p, o, e).open = o /\ Permuted(f, p, o, e).ended = e
  BY DEF Permuted

LEMMA OneValueMore ==
    ASSUME NEW F, NEW v \in Value(F), NEW n \in FlagNames, NEW x \in F
    PROVE  With(v, n, x) \in Value(F)
  <1>1. Append(v[n], x) \in Seq(F)
    BY DEF Value
  <1>. QED  BY <1>1 DEF With, Value

LEMMA FairTexts ==
    ASSUME NEW w \in FairWord
    PROVE  w.text \in FairText /\ w.value \in FairText /\ "true" \in FairText
  <1>1. w \in Words /\ ~OwnSpelling(w.text) /\ ~OwnSpelling(w.value)
    BY DEF FairWord
  <1>2. ~OwnSpelling("true")
    BY CommandLineAssumption DEF OwnSpelling, BoolTexts
  <1>3. w.text \in Text /\ w.value \in Text /\ "true" \in Text
    BY <1>1 DEF Text
  <1>. QED  BY <1>1, <1>2, <1>3 DEF FairText

\* What the terminal holds of fair words: fair texts.
Fair(r) ==
    r.ok => /\ r.values \in Value(FairText) /\ r.rest \in Seq(FairText)
            /\ r.open # "" => r.open \in FlagNames

LEMMA FairReading ==
    ASSUME NEW v \in Value(FairText), NEW x \in Seq(FairText), NEW o, NEW e,
           o # "" => o \in FlagNames
    PROVE  Fair(Reading(v, x, o, e))
  BY DEF Fair, Reading

LEMMA FairParts ==
    ASSUME NEW r, r.ok, Fair(r)
    PROVE  /\ r.values \in Value(FairText) /\ r.rest \in Seq(FairText)
           /\ r.open # "" => r.open \in FlagNames
  BY DEF Fair

LEMMA OneMore ==
    ASSUME NEW X, NEW s \in Seq(X), NEW x \in X
    PROVE  Append(s, x) \in Seq(X)
  OBVIOUS

LEMMA StartIsFair == Fair(Start)
  <1>1. NoValues \in Value(FairText) /\ <<>> \in Seq(FairText)
    BY DEF NoValues, Value
  <1>. QED  BY <1>1, FairReading DEF Start

LEMMA FlagTaken ==
    ASSUME command \in Commands, NEW w \in FairWord,
           NEW r, r.ok, Fair(r)
    PROVE  Fair(TakeFlag(r, w))
  <1>1. CASE ~IsKnown(w)
    BY <1>1, RefusalFields DEF TakeFlag, Fair
  <1>2. CASE IsKnown(w) /\ TakesNext(w)
    <2>1. TakeFlag(r, w) = Reading(r.values, r.rest, FlagOf(w).name, FALSE)
      BY <1>2 DEF TakeFlag
    <2>2. FlagOf(w).name \in FlagNames
      BY <1>2, FlagNamed
    <2>. QED  BY <2>1, <2>2, FairParts, FairReading
  <1>3. CASE IsKnown(w) /\ ~TakesNext(w)
    <2> DEFINE x == IF w.inline THEN w.value ELSE "true"
               v == With(r.values, FlagOf(w).name, x)
    <2>1. x \in FairText
      BY FairTexts
    <2> HIDE DEF x
    <2>2. v \in Value(FairText)
      BY <1>3, <2>1, FlagNamed, FairParts, OneValueMore
    <2>3. TakeFlag(r, w) = Reading(v, r.rest, "", FALSE)
      BY <1>3 DEF TakeFlag, x
    <2> HIDE DEF v
    <2>. QED  BY <2>2, <2>3, FairParts, FairReading
  <1>. QED  BY <1>1, <1>2, <1>3

LEMMA FairStep ==
    ASSUME command \in Commands, NEW w \in FairWord, NEW r, Fair(r)
    PROVE  Fair(ReadStep("terminal", r, w))
  <1> DEFINE x == w.text
  <1>1. x \in FairText
    BY FairTexts
  <1> HIDE DEF x
  <1>2. CASE ~r.ok
    BY <1>2 DEF ReadStep
  <1>3. CASE r.ok /\ r.open # ""
    <2> DEFINE v == With(r.values, r.open, x)
    <2>1. v \in Value(FairText)
      BY <1>1, <1>3, FairParts, OneValueMore
    <2>2. ReadStep("terminal", r, w) = Reading(v, r.rest, "", FALSE)
      BY <1>3 DEF ReadStep, TypedStep, TakeValue, x
    <2> HIDE DEF v
    <2>. QED  BY <1>3, <2>1, <2>2, FairParts, FairReading
  <1>4. CASE r.ok /\ r.open = "" /\ ~IsDashed(w)
    <2>1. Append(r.rest, x) \in Seq(FairText)
      BY <1>1, <1>4, FairParts, OneMore
    <2>2. ReadStep("terminal", r, w) = Reading(r.values, Append(r.rest, x), "", FALSE)
      BY <1>4 DEF ReadStep, TypedStep, LeaveOver, x
    <2>. QED  BY <1>4, <2>1, <2>2, FairParts, FairReading
  <1>5. CASE r.ok /\ r.open = "" /\ IsDashed(w)
    <2>1. ReadStep("terminal", r, w) = TakeFlag(r, w)
      BY <1>5 DEF ReadStep, TypedStep
    <2>. QED  BY <1>5, <2>1, FlagTaken
  <1>. QED  BY <1>2, <1>3, <1>4, <1>5

LEMMA ReadIsFair ==
    ASSUME command \in Commands, NEW s \in Seq(FairWord)
    PROVE  Fair(ReadWords("terminal", s))
  <1> DEFINE S == {t \in Seq(FairWord) : Fair(ReadWords("terminal", t))}
  <1>1. <<>> \in S
    BY ReadNothing, StartIsFair
  <1>2. ASSUME NEW t \in Seq(FairWord), NEW w \in FairWord, t \in S PROVE Append(t, w) \in S
    <2>1. Append(t, w) \in Seq(FairWord)
      OBVIOUS
    <2>2. ReadWords("terminal", Append(t, w)) = ReadStep("terminal", ReadWords("terminal", t), w)
      BY ReadAppend
    <2>. QED  BY <1>2, <2>1, <2>2, FairStep
  <1>3. Seq(FairWord) \subseteq S
    <2> HIDE DEF S
    <2>. QED  BY <1>1, <1>2, SeqInduction
  <1>. QED  BY <1>3

-----------------------------------------------------------------------------
(* The two readings of one line *)

Texts(words) == [i \in 1..Len(words) |-> words[i].text]
Bare == {w \in FairWord : ~IsDashed(w)}

\* A reading that may still meet flags, one that has met the words only, and a line
\* sorted into flags and words.
Reads(t, v, r, o) == t = Reading(v, r, o, FALSE)
Left(t, v, r) == \E e \in BOOLEAN : t = Reading(v, r, "", e)
SortedInto(t, f, p, o) == t = Permuted(f, p, o, FALSE)

\* What the terminal holds of a line, and the native runner of its flags.
Alike(t, n, pos, open) ==
    \/ t = Refusal /\ n = Refusal
    \/ \E v : Reads(t, v, Texts(pos), open) /\ Reads(n, v, <<>>, open)

LEMMA TextsOf ==
    ASSUME NEW X, NEW s \in Seq(X)
    PROVE  Texts(s) \in Seq({w.text : w \in X}) /\ Len(Texts(s)) = Len(s)
  <1>1. Len(s) \in Nat /\ \A i \in 1..Len(s) : s[i] \in X
    OBVIOUS
  <1>2. Texts(s) \in [1..Len(s) -> {w.text : w \in X}]
    BY <1>1 DEF Texts
  <1> HIDE DEF Texts
  <1>. QED  BY <1>1, <1>2

LEMMA OneTextMore ==
    ASSUME NEW X, NEW s \in Seq(X), NEW w \in X
    PROVE  Texts(Append(s, w)) = Append(Texts(s), w.text)
  <1> DEFINE T == {x.text : x \in X}
             a == Texts(s)
             b == Texts(Append(s, w))
             x == w.text
  <1>1. \A i \in 1..Len(s) : b[i] = a[i]
    BY DEF Texts
  <1>2. b[Len(s) + 1] = x
    BY DEF Texts
  <1>3. Append(s, w) \in Seq(X) /\ Len(Append(s, w)) = Len(s) + 1
    OBVIOUS
  <1>4. a \in Seq(T) /\ Len(a) = Len(s)
    BY TextsOf
  <1>5. b \in Seq(T) /\ Len(b) = Len(s) + 1
    <2> DEFINE z == Append(s, w)
    <2>1. z \in Seq(X) /\ Len(z) = Len(s) + 1
      BY <1>3
    <2> HIDE DEF z
    <2>2. Texts(z) \in Seq(T) /\ Len(Texts(z)) = Len(z)
      BY <2>1, TextsOf
    <2>. QED  BY <2>1, <2>2 DEF z
  <1>6. x \in T
    OBVIOUS
  <1> HIDE DEF T, a, b, x
  <1> DEFINE c == Append(a, x)
  <1>7. /\ c \in Seq(T) /\ Len(c) = Len(b)
        /\ \A i \in 1..Len(s) : c[i] = a[i]
        /\ c[Len(s) + 1] = x
    BY <1>4, <1>5, <1>6
  <1>8. \A i \in 1..Len(b) : b[i] = c[i]
    BY <1>1, <1>2, <1>5, <1>7
  <1>9. b = c
    <2> HIDE DEF c
    <2>. QED  BY <1>5, <1>7, <1>8, SeqEqual
  <1>. QED  BY <1>9 DEF a, b, x

\* The flag that waits for its value after the word w, and the values then.
Opens(w) == IF TakesNext(w) THEN FlagOf(w).name ELSE ""
Gets(v, w) == IF TakesNext(w) THEN v
              ELSE With(v, FlagOf(w).name, IF w.inline THEN w.value ELSE "true")

LEMMA ReadsFields ==
    ASSUME NEW t, NEW v, NEW r, NEW o, Reads(t, v, r, o)
    PROVE  t.ok = TRUE /\ t.values = v /\ t.rest = r /\ t.open = o /\ t.ended = FALSE
  BY DEF Reads, Reading

\* Both tiers give a flag the word after it,
LEMMA ReadsValue ==
    ASSUME NEW tier, NEW t, NEW v, NEW r, NEW o, Reads(t, v, r, o), o # "", NEW w
    PROVE  Reads(ReadStep(tier, t, w), With(v, o, w.text), r, "")
  <1>1. t.ok = TRUE /\ t.values = v /\ t.rest = r /\ t.open = o
    BY ReadsFields
  <1>2. ReadStep(tier, t, w) = TakeValue(t, w)
    BY <1>1 DEF ReadStep, TypedStep, FlagSetStep
  <1>. QED  BY <1>1, <1>2 DEF TakeValue, Reads

\* take a flag they know and refuse the others,
LEMMA ReadsFlag ==
    ASSUME NEW tier, NEW t, NEW v, NEW r, Reads(t, v, r, ""),
           NEW w, w.text # "--", IsDashed(w)
    PROVE  /\ ~IsKnown(w) => ReadStep(tier, t, w) = Refusal
           /\ IsKnown(w) => Reads(ReadStep(tier, t, w), Gets(v, w), r, Opens(w))
  <1>1. t.ok = TRUE /\ t.values = v /\ t.rest = r /\ t.open = "" /\ t.ended = FALSE
    BY ReadsFields
  <1>2. ReadStep(tier, t, w) = TakeFlag(t, w)
    BY <1>1 DEF ReadStep, TypedStep, FlagSetStep
  <1>3. ~IsKnown(w) => TakeFlag(t, w) = Refusal
    BY DEF TakeFlag
  <1>4. IsKnown(w) /\ TakesNext(w) => TakeFlag(t, w) = Reading(v, r, FlagOf(w).name, FALSE)
    BY <1>1 DEF TakeFlag
  <1>5. IsKnown(w) /\ ~TakesNext(w) =>
            TakeFlag(t, w) = Reading(With(v, FlagOf(w).name,
                                          IF w.inline THEN w.value ELSE "true"), r, "", FALSE)
    BY <1>1 DEF TakeFlag
  <1>6. TakesNext(w) => Gets(v, w) = v /\ Opens(w) = FlagOf(w).name
    BY DEF Gets, Opens
  <1>7. ~TakesNext(w) => /\ Opens(w) = ""
                         /\ Gets(v, w) = With(v, FlagOf(w).name,
                                              IF w.inline THEN w.value ELSE "true")
    BY DEF Gets, Opens
  <1>. QED  BY <1>2, <1>3, <1>4, <1>5, <1>6, <1>7 DEF Reads

\* and leave a bare word over.
LEMMA ReadsBare ==
    ASSUME NEW t, NEW v, NEW r, Reads(t, v, r, ""), NEW w, ~IsDashed(w)
    PROVE  Reads(ReadStep("terminal", t, w), v, Append(r, w.text), "")
  <1>1. t.ok = TRUE /\ t.values = v /\ t.rest = r /\ t.open = ""
    BY ReadsFields
  <1>2. ReadStep("terminal", t, w) = LeaveOver(t, w, FALSE)
    BY <1>1 DEF ReadStep, TypedStep
  <1>. QED  BY <1>1, <1>2 DEF LeaveOver, Reads

LEMMA LeavesBare ==
    ASSUME NEW t, NEW v, NEW r, Left(t, v, r), NEW w, ~IsDashed(w)
    PROVE  Left(ReadStep("native", t, w), v, Append(r, w.text))
  <1>1. t.ok = TRUE /\ t.values = v /\ t.rest = r /\ t.open = ""
    <2>1. PICK e \in BOOLEAN : t = Reading(v, r, "", e)
      BY DEF Left
    <2>. QED  BY <2>1 DEF Reading
  <1>2. ReadStep("native", t, w) = LeaveOver(t, w, TRUE)
    BY <1>1 DEF ReadStep, FlagSetStep
  <1>3. ReadStep("native", t, w) = Reading(v, Append(r, w.text), "", TRUE)
    BY <1>1, <1>2 DEF LeaveOver
  <1>. QED  BY <1>3 DEF Left

LEMMA RefusalStays ==
    ASSUME NEW tier, NEW w
    PROVE  ReadStep(tier, Refusal, w) = Refusal
  BY RefusalFields DEF ReadStep

LEMMA SortsFields ==
    ASSUME NEW t, NEW f, NEW p, NEW o, SortedInto(t, f, p, o)
    PROVE  t.flags = f /\ t.pos = p /\ t.open = o /\ t.ended = FALSE
  BY DEF SortedInto, Permuted

LEMMA TextsOfNothing == Texts(<<>>) = <<>>
  BY DEF Texts

LEMMA SortsFlag ==
    ASSUME NEW t, NEW f, NEW p, NEW o, SortedInto(t, f, p, o),
           NEW w, w.text # "--", o # "" \/ IsDashed(w)
    PROVE  SortedInto(PermuteStep(t, w), Append(f, w), p, IF o # "" THEN "" ELSE Opens(w))
  <1>1. t.flags = f /\ t.pos = p /\ t.open = o /\ t.ended = FALSE
    BY SortsFields
  <1>2. CASE o # ""
    BY <1>1, <1>2 DEF PermuteStep, SortedInto
  <1>3. CASE o = ""
    BY <1>1, <1>3 DEF PermuteStep, Opens, SortedInto
  <1>. QED  BY <1>2, <1>3

LEMMA SortsBare ==
    ASSUME NEW t, NEW f, NEW p, SortedInto(t, f, p, ""), NEW w, ~IsDashed(w)
    PROVE  SortedInto(PermuteStep(t, w), f, Append(p, w), "")
  <1>1. t.flags = f /\ t.pos = p /\ t.open = "" /\ t.ended = FALSE
    BY SortsFields
  <1>. QED  BY <1>1 DEF PermuteStep, SortedInto

\* Of the line s: its flags f and bare words p, and the flag o that waits for its value.
Sorts(s, f, p, o) ==
    /\ f \in Seq(FairWord) /\ p \in Seq(Bare)
    /\ SortedInto(PermuteAll(s), f, p, o)
    /\ Alike(ReadWords("terminal", s), ReadWords("native", f), p, o)
    /\ o # "" => s # <<>> /\ TakesNext(Last(s))

LEMMA AlikeRead ==
    ASSUME NEW v, NEW p, NEW o, NEW t, NEW n,
           Reads(t, v, Texts(p), o), Reads(n, v, <<>>, o)
    PROVE  Alike(t, n, p, o)
  BY Zenon DEF Alike

LEMMA NothingSorts == Sorts(<<>>, <<>>, <<>>, "")
  <1>1. Texts(<<>>) = <<>>
    BY TextsOfNothing
  <1>2. Alike(Start, Start, <<>>, "")
    <2>1. Reads(Start, NoValues, Texts(<<>>), "") /\ Reads(Start, NoValues, <<>>, "")
      BY <1>1 DEF Start, Reads
    <2>. QED  BY <2>1, AlikeRead
  <1>3. ReadWords("terminal", <<>>) = Start /\ ReadWords("native", <<>>) = Start
    BY ReadNothing
  <1>4. SortedInto(PermuteAll(<<>>), <<>>, <<>>, "")
    BY PermuteNothing DEF Unsorted, SortedInto
  <1>5. <<>> \in Seq(FairWord) /\ <<>> \in Seq(Bare)
    OBVIOUS
  <1>. QED  BY <1>2, <1>3, <1>4, <1>5 DEF Sorts

LEMMA LastAdded ==
    ASSUME NEW X, NEW s \in Seq(X), NEW w \in X
    PROVE  Append(s, w) # <<>> /\ Last(Append(s, w)) = w
  <1>1. Len(Append(s, w)) = Len(s) + 1 /\ Append(s, w)[Len(s) + 1] = w /\ Len(s) \in Nat
    OBVIOUS
  <1>. QED  BY <1>1 DEF Last

\* A word that the permuting takes for a flag or for the value of one,
LEMMA FlagSorts ==
    ASSUME NEW s \in Seq(FairWord), NEW w \in FairWord, NEW f, NEW p, NEW o,
           Sorts(s, f, p, o), o # "" \/ IsDashed(w)
    PROVE  \E q : Sorts(Append(s, w), Append(f, w), p, q)
  <1> DEFINE q == IF o # "" THEN "" ELSE Opens(w)
             t == ReadWords("terminal", s)
             n == ReadWords("native", f)
             t1 == ReadStep("terminal", t, w)
             n1 == ReadStep("native", n, w)
  <1>1. /\ f \in Seq(FairWord) /\ p \in Seq(Bare)
        /\ SortedInto(PermuteAll(s), f, p, o) /\ Alike(t, n, p, o)
    BY DEF Sorts
  <1>2. w.text # "--"
    BY DEF FairWord
  <1>3. SortedInto(PermuteAll(Append(s, w)), Append(f, w), p, q)
    <2>1. PermuteAll(Append(s, w)) = PermuteStep(PermuteAll(s), w)
      BY PermuteAppend
    <2>2. SortedInto(PermuteStep(PermuteAll(s), w), Append(f, w), p, q)
      BY <1>1, <1>2, SortsFlag
    <2>. QED  BY <2>1, <2>2
  <1>4. ReadWords("terminal", Append(s, w)) = t1
    BY ReadAppend
  <1>5. ReadWords("native", Append(f, w)) = n1
    BY <1>1, ReadAppend
  <1> HIDE DEF t, n
  <1>6. Alike(t1, n1, p, q)
    <2>1. CASE t = Refusal /\ n = Refusal
      BY <2>1, RefusalStays DEF Alike
    <2>2. CASE \E v : Reads(t, v, Texts(p), o) /\ Reads(n, v, <<>>, o)
      <3>1. PICK v : Reads(t, v, Texts(p), o) /\ Reads(n, v, <<>>, o)
        BY <2>2
      <3> DEFINE x == Texts(p)
                 z == <<>>
      <3>2. Reads(t, v, x, o) /\ Reads(n, v, z, o)
        BY <3>1
      <3> HIDE DEF x, z
      <3>3. CASE o # ""
        <4> DEFINE u == With(v, o, w.text)
        <4>1. Reads(t1, u, x, "") /\ Reads(n1, u, z, "")
          BY <3>2, <3>3, ReadsValue
        <4>2. q = ""
          BY <3>3
        <4> HIDE DEF u, t1, n1, q
        <4>. QED  BY <4>1, <4>2, AlikeRead DEF x, z
      <3>4. CASE o = "" /\ ~IsKnown(w)
        <4>1. Reads(t, v, x, "") /\ Reads(n, v, z, "") /\ IsDashed(w)
          BY <3>2, <3>4
        <4>2. t1 = Refusal /\ n1 = Refusal
          BY <1>2, <3>4, <4>1, ReadsFlag
        <4>. QED  BY <4>2, Zenon DEF Alike
      <3>5. CASE o = "" /\ IsKnown(w)
        <4> DEFINE u == Gets(v, w)
        <4>1. Reads(t, v, x, "") /\ Reads(n, v, z, "") /\ IsDashed(w)
          BY <3>2, <3>5
        <4>2. Reads(t1, u, x, Opens(w)) /\ Reads(n1, u, z, Opens(w))
          BY <1>2, <3>5, <4>1, ReadsFlag
        <4>3. q = Opens(w)
          BY <3>5
        <4> HIDE DEF u, t1, n1, q
        <4>. QED  BY <4>2, <4>3, AlikeRead DEF x, z
      <3>. QED  BY <3>3, <3>4, <3>5
    <2>. QED  BY <1>1, <2>1, <2>2, Zenon DEF Alike
  <1>7. q # "" => Append(s, w) # <<>> /\ TakesNext(Last(Append(s, w)))
    <2>1. Append(s, w) # <<>> /\ Last(Append(s, w)) = w
      BY LastAdded
    <2>2. q # "" => TakesNext(w)
      BY DEF Opens
    <2> HIDE DEF q
    <2>. QED  BY <2>1, <2>2
  <1>8. Append(f, w) \in Seq(FairWord)
    BY <1>1, OneMore
  <1> HIDE DEF q, t1, n1
  <1>9. Sorts(Append(s, w), Append(f, w), p, q)
    BY <1>1, <1>3, <1>4, <1>5, <1>6, <1>7, <1>8 DEF Sorts
  <1>. QED  BY <1>9

\* and a bare one.
LEMMA BareSorts ==
    ASSUME NEW s \in Seq(FairWord), NEW w \in FairWord, NEW f, NEW p,
           Sorts(s, f, p, ""), ~IsDashed(w)
    PROVE  Sorts(Append(s, w), f, Append(p, w), "")
  <1> DEFINE t == ReadWords("terminal", s)
             n == ReadWords("native", f)
             t1 == ReadStep("terminal", t, w)
             p1 == Append(p, w)
  <1>1. /\ f \in Seq(FairWord) /\ p \in Seq(Bare)
        /\ SortedInto(PermuteAll(s), f, p, "") /\ Alike(t, n, p, "")
    BY DEF Sorts
  <1>2. w.text # "--" /\ w \in Bare
    BY DEF FairWord, Bare
  <1>3. SortedInto(PermuteAll(Append(s, w)), f, Append(p, w), "")
    <2>1. PermuteAll(Append(s, w)) = PermuteStep(PermuteAll(s), w)
      BY PermuteAppend
    <2>2. SortedInto(PermuteStep(PermuteAll(s), w), f, Append(p, w), "")
      BY <1>1, SortsBare
    <2>. QED  BY <2>1, <2>2
  <1>4. ReadWords("terminal", Append(s, w)) = t1
    BY ReadAppend
  <1>5. p1 \in Seq(Bare) /\ Texts(p1) = Append(Texts(p), w.text)
    BY <1>1, <1>2, OneMore, OneTextMore
  <1> HIDE DEF t, n, p1
  <1>6. Alike(t1, n, p1, "")
    <2>1. CASE t = Refusal /\ n = Refusal
      BY <2>1, RefusalStays DEF Alike
    <2>2. CASE \E v : Reads(t, v, Texts(p), "") /\ Reads(n, v, <<>>, "")
      <3>1. PICK v : Reads(t, v, Texts(p), "") /\ Reads(n, v, <<>>, "")
        BY <2>2
      <3>2. Reads(t1, v, Append(Texts(p), w.text), "")
        BY <3>1, ReadsBare
      <3>3. Reads(t1, v, Texts(p1), "")
        BY <1>5, <3>2
      <3> HIDE DEF t1
      <3>. QED  BY <3>1, <3>3, AlikeRead
    <2>. QED  BY <1>1, <2>1, <2>2, Zenon DEF Alike
  <1>. QED  BY <1>1, <1>3, <1>4, <1>5, <1>6 DEF Sorts, n, p1

LEMMA LinesSort ==
    ASSUME NEW s \in Seq(FairWord)
    PROVE  \E f, p, o : Sorts(s, f, p, o)
  <1> DEFINE Sorted(t) == \E f, p, o : Sorts(t, f, p, o)
             S == {t \in Seq(FairWord) : Sorted(t)}
  <1>1. <<>> \in S
    <2>1. Sorted(<<>>)
      BY NothingSorts, Zenon
    <2> HIDE DEF Sorted
    <2>. QED  BY <2>1
  <1>2. ASSUME NEW t \in Seq(FairWord), NEW w \in FairWord, t \in S PROVE Append(t, w) \in S
    <2>1. PICK f, p, o : Sorts(t, f, p, o)
      BY <1>2
    <2>2. ASSUME o # "" \/ IsDashed(w) PROVE Sorted(Append(t, w))
      BY <2>1, <2>2, FlagSorts, Zenon
    <2>3. ASSUME o = "", ~IsDashed(w) PROVE Sorted(Append(t, w))
      BY <2>1, <2>3, BareSorts, Zenon
    <2>4. Sorted(Append(t, w))
      <3> HIDE DEF Sorted
      <3>. QED  BY <2>2, <2>3
    <2>5. Append(t, w) \in Seq(FairWord)
      BY OneMore
    <2> HIDE DEF Sorted
    <2>. QED  BY <2>4, <2>5
  <1>3. Seq(FairWord) \subseteq S
    <2> HIDE DEF S
    <2>. QED  BY <1>1, <1>2, SeqInduction
  <1>. QED  BY <1>3

LEMMA AppendLast ==
    ASSUME NEW X, NEW s \in Seq(X), NEW r \in Seq(X), NEW w \in X
    PROVE  s \o Append(r, w) = Append(s \o r, w)
  <1> DEFINE a == s \o Append(r, w)
             b == Append(s \o r, w)
  <1>1. Append(r, w) \in Seq(X) /\ s \o r \in Seq(X)
    BY OneMore, ConcatProperties
  <1>2. a \in Seq(X) /\ b \in Seq(X)
    BY <1>1, OneMore, ConcatProperties
  <1>3. Len(a) = Len(b)
    OBVIOUS
  <1>4. \A i \in 1..Len(a) : a[i] = b[i]
    OBVIOUS
  <1> HIDE DEF a, b
  <1>5. a = b
    BY <1>2, <1>3, <1>4, SeqEqual
  <1>. QED  BY <1>5 DEF a, b

LEMMA ReadOn ==
    ASSUME NEW tier, NEW f \in Seq(FairWord), NEW q \in Seq(Bare), NEW w \in Bare
    PROVE  /\ ReadWords(tier, f \o Append(q, w)) = ReadStep(tier, ReadWords(tier, f \o q), w)
           /\ Append(q, w) \in Seq(Bare)
  <1>1. Bare \subseteq FairWord /\ w \in FairWord
    BY DEF Bare
  <1>2. q \in Seq(FairWord)
    BY <1>1, SeqMonotonic
  <1> DEFINE s == f \o q
  <1>3. f \o Append(q, w) = Append(s, w)
    BY <1>1, <1>2, AppendLast
  <1>4. s \in Seq(FairWord)
    BY <1>2, ConcatProperties
  <1> HIDE DEF s
  <1>5. ReadWords(tier, Append(s, w)) = ReadStep(tier, ReadWords(tier, s), w)
    BY <1>1, <1>4, ReadAppend
  <1>6. Append(q, w) \in Seq(Bare)
    BY OneMore
  <1>. QED  BY <1>1, <1>3, <1>5, <1>6 DEF s

LEMMA LeavesNext ==
    ASSUME NEW f \in Seq(FairWord), NEW q \in Seq(Bare), NEW w \in Bare, NEW v,
           Left(ReadWords("native", f \o q), v, Texts(q))
    PROVE  Left(ReadWords("native", f \o Append(q, w)), v, Texts(Append(q, w)))
  <1>1. ReadWords("native", f \o Append(q, w)) = ReadStep("native", ReadWords("native", f \o q), w)
    BY ReadOn
  <1>2. ~IsDashed(w)
    BY DEF Bare
  <1>3. Texts(Append(q, w)) = Append(Texts(q), w.text)
    BY OneTextMore
  <1>4. Left(ReadStep("native", ReadWords("native", f \o q), w), v, Append(Texts(q), w.text))
    BY <1>2, LeavesBare
  <1>. QED  BY <1>1, <1>3, <1>4

\* The native runner meets the bare words after all flags.
LEMMA BareReads ==
    ASSUME NEW f \in Seq(FairWord), NEW p \in Seq(Bare), NEW v,
           Reads(ReadWords("native", f), v, <<>>, "")
    PROVE  Left(ReadWords("native", f \o p), v, Texts(p))
  <1> DEFINE After(q) == Left(ReadWords("native", f \o q), v, Texts(q))
             S == {q \in Seq(Bare) : After(q)}
  <1>1. <<>> \in S
    <2>1. f \o <<>> = f
      BY ConcatEmptySeq
    <2>2. Left(ReadWords("native", f), v, <<>>)
      BY DEF Left, Reads
    <2>3. After(<<>>)
      BY <2>1, <2>2, TextsOfNothing
    <2>4. <<>> \in Seq(Bare)
      BY EmptySeq
    <2> HIDE DEF After
    <2>. QED  BY <2>3, <2>4
  <1>2. ASSUME NEW q \in Seq(Bare), NEW w \in Bare, q \in S PROVE Append(q, w) \in S
    <2>1. Append(q, w) \in Seq(Bare)
      BY OneMore
    <2>2. After(Append(q, w))
      BY <1>2, LeavesNext
    <2> HIDE DEF After
    <2>. QED  BY <2>1, <2>2
  <1>3. Seq(Bare) \subseteq S
    <2> HIDE DEF S
    <2>. QED  BY <1>1, <1>2, SeqInduction
  <1>. QED  BY <1>3

LEMMA StaysRefused ==
    ASSUME NEW f \in Seq(FairWord), NEW p \in Seq(Bare), ReadWords("native", f) = Refusal
    PROVE  ReadWords("native", f \o p) = Refusal
  <1> DEFINE S == {q \in Seq(Bare) : ReadWords("native", f \o q) = Refusal}
  <1>1. <<>> \in S
    BY ConcatEmptySeq
  <1>2. ASSUME NEW q \in Seq(Bare), NEW w \in Bare, q \in S PROVE Append(q, w) \in S
    <2>1. /\ ReadWords("native", f \o Append(q, w)) = ReadStep("native", Refusal, w)
          /\ Append(q, w) \in Seq(Bare)
      BY <1>2, ReadOn
    <2>. QED  BY <2>1, RefusalStays
  <1>3. Seq(Bare) \subseteq S
    <2> HIDE DEF S
    <2>. QED  BY <1>1, <1>2, SeqInduction
  <1>. QED  BY <1>3

LEMMA ParseOfLeft ==
    ASSUME NEW tier, NEW words, NEW v, NEW r, Left(ReadWords(tier, words), v, r)
    PROVE  Parse(tier, words) = Parsed(v, r)
  <1> DEFINE t == ReadWords(tier, words)
  <1>1. t.ok = TRUE /\ t.values = v /\ t.rest = r /\ t.open = ""
    <2>1. PICK e \in BOOLEAN : t = Reading(v, r, "", e)
      BY DEF Left
    <2> HIDE DEF t
    <2>. QED  BY <2>1 DEF Reading
  <1>. QED  BY <1>1 DEF Parse

LEMMA ParseOfRefusal ==
    ASSUME NEW tier, NEW words, ReadWords(tier, words) = Refusal
    PROVE  Parse(tier, words) = Refused
  BY RefusalFields DEF Parse

\* So both make the same of the line.
LEMMA ParsesAgree ==
    ASSUME NEW s \in Seq(FairWord), ~DanglingFlag(s), \A i \in DOMAIN s : ~IsHelp(s[i])
    PROVE  NativeParse(s) = TerminalParse(s)
  <1>1. PICK f, p, o : Sorts(s, f, p, o)
    BY LinesSort
  <1> DEFINE P == PermuteAll(s)
             t == ReadWords("terminal", s)
             n == ReadWords("native", f)
  <1>2. o = ""
    BY <1>1 DEF Sorts, DanglingFlag
  <1>3. /\ f \in Seq(FairWord) /\ p \in Seq(Bare)
        /\ SortedInto(P, f, p, "") /\ Alike(t, n, p, "")
    BY <1>1, <1>2 DEF Sorts
  <1>4. Permute(s) = f \o p
    <2>1. P.flags = f /\ P.pos = p /\ P.ended = FALSE
      BY <1>3, SortsFields
    <2>2. Permute(s) = f \o <<>> \o p
      BY <2>1 DEF Permute
    <2>3. f \o <<>> = f
      BY <1>3, ConcatEmptySeq
    <2>. QED  BY <2>2, <2>3
  <1>5. TerminalParse(s) = Parse("terminal", s)
    BY DEF TerminalParse
  <1>6. NativeParse(s) = Parse("native", f \o p)
    BY <1>4 DEF NativeParse
  <1>7. CASE t = Refusal /\ n = Refusal
    <2>1. ReadWords("native", f \o p) = Refusal
      BY <1>3, <1>7, StaysRefused
    <2>. QED  BY <1>5, <1>6, <1>7, <2>1, ParseOfRefusal
  <1>8. CASE \E v : Reads(t, v, Texts(p), "") /\ Reads(n, v, <<>>, "")
    <2>1. PICK v : Reads(t, v, Texts(p), "") /\ Reads(n, v, <<>>, "")
      BY <1>8
    <2>2. Left(ReadWords("native", f \o p), v, Texts(p))
      BY <1>3, <2>1, BareReads
    <2>3. Left(ReadWords("terminal", s), v, Texts(p))
      BY <2>1 DEF Left, Reads
    <2>4. Parse("native", f \o p) = Parsed(v, Texts(p))
      BY <2>2, ParseOfLeft
    <2>5. Parse("terminal", s) = Parsed(v, Texts(p))
      BY <2>3, ParseOfLeft
    <2>. QED  BY <1>5, <1>6, <2>4, <2>5
  <1> HIDE DEF t, n
  <1>. QED  BY <1>3, <1>7, <1>8, Zenon DEF Alike

-----------------------------------------------------------------------------
(* From values to a request *)

LEMMA SlotsCounted ==
    ASSUME command \in Commands
    PROVE  /\ Len(Positionals) \in Nat
           /\ \A i \in 1..Len(Positionals) : Positionals[i] \in ToSet(command)
  <1>1. PICK n \in 0..Len(command) : Slots(command) = 1..n
    BY CommandLineAssumption
  <1>2. n \in Nat
    <2>1. command \in Seq(ToSet(command))
      BY CommandLineAssumption
    <2>2. Len(command) \in Nat
      BY <2>1, LenProperties
    <2>. QED  BY <1>1, <2>2
  <1>3. Cardinality(Slots(command)) = n
    <2>1. Cardinality(1..n) = n
      <3>1. 1 \in Int /\ n \in Int
        BY <1>2
      <3>2. Cardinality(1..n) = IF 1 > n THEN 0 ELSE n - 1 + 1
        BY <3>1, FS_Interval
      <3>. QED  BY <1>2, <3>2
    <2>. QED  BY <1>1, <2>1
  <1> DEFINE at(i) == CHOOSE f \in ToSet(command) : f.positional = i
  <1>4. Positionals = [i \in 1..n |-> at(i)]
    BY <1>3 DEF Positionals
  <1>5. ASSUME NEW i \in 1..n PROVE at(i) \in ToSet(command)
    <2>1. i \in Slots(command)
      BY <1>1
    <2>2. \E f \in ToSet(command) : f.positional = i
      BY <2>1 DEF Slots
    <2>. QED  BY <2>2
  <1> HIDE DEF at
  <1>6. \A i \in 1..n : Positionals[i] = at(i)
    BY <1>4
  <1>7. Len(Positionals) = n
    <2>1. Positionals \in [1..n -> ToSet(command)]
      BY <1>4, <1>5
    <2>2. Positionals \in Seq(ToSet(command))
      BY <1>2, <2>1
    <2>3. DOMAIN Positionals = 1..n
      BY <1>4
    <2>. QED  BY <1>2, <2>2, <2>3
  <1>. QED  BY <1>2, <1>5, <1>6, <1>7

\* Values and words left over, all of them fair.
FairParsed(p) == p.values \in Value(FairText) /\ p.rest \in Seq(FairText)

LEMMA NewParsed ==
    ASSUME NEW v \in Value(FairText), NEW r \in Seq(FairText)
    PROVE  FairParsed(Parsed(v, r))
  BY DEF FairParsed, Parsed

LEMMA OneReplaced ==
    ASSUME NEW v \in Value(FairText), NEW n \in FlagNames, NEW x \in Seq(FairText)
    PROVE  [v EXCEPT ![n] = x] \in Value(FairText)
  BY DEF Value

LEMMA Ahead ==
    ASSUME NEW X, NEW s \in Seq(X), s # <<>>
    PROVE  <<Head(s)>> \in Seq(X) /\ Tail(s) \in Seq(X)
  OBVIOUS

LEMMA AssignFair ==
    ASSUME command \in Commands, NEW f \in ToSet(command), NEW p, FairParsed(p)
    PROVE  FairParsed(Assign(p, f))
  <1> DEFINE v == p.values
             r == p.rest
             n == f.name
  <1>1. v \in Value(FairText) /\ r \in Seq(FairText) /\ n \in FlagNames
    BY DEF FairParsed, FlagNames
  <1>2. CASE v[n] # <<>> \/ r = <<>>
    BY <1>2 DEF Assign
  <1>3. CASE ~(v[n] # <<>> \/ r = <<>>) /\ f.repeated
    <2>1. Assign(p, f) = Parsed([v EXCEPT ![n] = r], <<>>)
      BY <1>3 DEF Assign
    <2> HIDE DEF v, r, n
    <2>2. [v EXCEPT ![n] = r] \in Value(FairText) /\ <<>> \in Seq(FairText)
      BY <1>1, OneReplaced, EmptySeq
    <2>. QED  BY <2>1, <2>2, NewParsed
  <1>4. CASE ~(v[n] # <<>> \/ r = <<>>) /\ ~f.repeated
    <2>1. Assign(p, f) = Parsed([v EXCEPT ![n] = <<Head(r)>>], Tail(r))
      BY <1>4 DEF Assign
    <2> HIDE DEF v, r, n
    <2>2. <<Head(r)>> \in Seq(FairText) /\ Tail(r) \in Seq(FairText)
      BY <1>1, <1>4, Ahead
    <2>3. [v EXCEPT ![n] = <<Head(r)>>] \in Value(FairText)
      BY <1>1, <2>2, OneReplaced
    <2>. QED  BY <2>1, <2>2, <2>3, NewParsed
  <1>. QED  BY <1>1, <1>2, <1>3, <1>4

LEMMA AssignedFair ==
    ASSUME command \in Commands, NEW p, FairParsed(p)
    PROVE  FairParsed(AssignPositionals(p))
  <1> DEFINE s == Positionals
             N == Len(s)
  <1>1. N \in Nat /\ \A i \in 1..N : s[i] \in ToSet(command)
    BY SlotsCounted
  <1>2. PICK acc : /\ acc[0] = p
                   /\ \A i \in 1..N : acc[i] = Assign(acc[i - 1], s[i])
                   /\ AssignPositionals(p) = acc[N]
    BY <1>1, AssignUnfolds
  <1> HIDE DEF s, N
  <1> DEFINE S == {n \in Nat : n <= N => FairParsed(acc[n])}
  <1>3. 0 \in S
    BY <1>2
  <1>4. ASSUME NEW n \in Nat, n \in S PROVE n + 1 \in S
    <2>1. SUFFICES ASSUME n + 1 <= N PROVE FairParsed(acc[n + 1])
      OBVIOUS
    <2>2. n <= N /\ n + 1 \in 1..N /\ (n + 1) - 1 = n
      BY <1>1, <2>1
    <2>3. FairParsed(acc[n]) /\ s[n + 1] \in ToSet(command)
      BY <1>1, <1>4, <2>2
    <2>4. acc[n + 1] = Assign(acc[n], s[n + 1])
      BY <1>2, <2>2
    <2>. QED  BY <2>3, <2>4, AssignFair
  <1>5. N \in S
    <2> HIDE DEF S
    <2>. QED  BY <1>1, <1>3, <1>4, SetInduction
  <1>6. FairParsed(acc[N])
    BY <1>1, <1>5
  <1>. QED  BY <1>2, <1>6

\* What the tiers have in common: no flag fed from standard input, and no own spelling
\* among the defaults, the host's values and the files.
Common ==
    /\ \A f \in ToSet(command) : f.source # "stdin" /\ ~OwnSpelling(f.default)
    /\ \A n \in DOMAIN Filled : ~OwnSpelling(Filled[n])
    /\ \A path \in DOMAIN Readable : ~OwnSpelling(Readable[path])

LEMMA OneText ==
    /\ ToSet(<<>>) = {}
    /\ \A x : ToSet(<<x>>) = {x}
  <1>1. ToSet(<<>>) = {}
    BY DEF ToSet
  <1>2. ASSUME NEW x PROVE ToSet(<<x>>) = {x}
    <2>1. DOMAIN <<x>> = {1} /\ <<x>>[1] = x
      OBVIOUS
    <2>. QED  BY <2>1 DEF ToSet
  <1>. QED  BY <1>1, <1>2

LEMMA CompletedFair ==
    ASSUME command \in Commands, Common, NEW v \in Value(FairText),
           NEW f \in ToSet(command), NEW text \in ToSet(Complete(v)[f.name])
    PROVE  ~OwnSpelling(text)
  <1> DEFINE n == f.name
             g == CHOOSE h \in ToSet(command) : h.name = n
             x == Complete(v)[n]
  <1>1. n \in FlagNames
    BY DEF FlagNames
  <1>2. g \in ToSet(command)
    OBVIOUS
  <1>3. x = IF v[n] # <<>> THEN v[n]
            ELSE IF g.default # "" THEN <<g.default>>
            ELSE IF n \in DOMAIN Filled THEN <<Filled[n]>>
            ELSE <<>>
    BY <1>1 DEF Complete
  <1>4. v[n] \in Seq(FairText)
    BY <1>1 DEF Value
  <1> HIDE DEF g, n
  <1>5. text \in ToSet(x)
    BY DEF n
  <1> HIDE DEF x
  <1>6. CASE v[n] # <<>>
    <2>1. text \in FairText
      BY <1>3, <1>4, <1>5, <1>6 DEF ToSet
    <2>. QED  BY <2>1 DEF FairText
  <1>7. CASE v[n] = <<>> /\ g.default # ""
    <2>1. x = <<g.default>>
      BY <1>3, <1>7
    <2>2. text = g.default
      BY <1>5, <2>1, OneText
    <2>. QED  BY <1>2, <2>2 DEF Common
  <1>8. CASE v[n] = <<>> /\ g.default = "" /\ n \in DOMAIN Filled
    <2>1. x = <<Filled[n]>>
      BY <1>3, <1>8
    <2>2. text = Filled[n]
      BY <1>5, <2>1, OneText
    <2>. QED  BY <1>8, <2>2 DEF Common
  <1>9. CASE v[n] = <<>> /\ g.default = "" /\ n \notin DOMAIN Filled
    <2>1. x = <<>>
      BY <1>3, <1>9
    <2>. QED  BY <1>5, <2>1, OneText
  <1>. QED  BY <1>6, <1>7, <1>8, <1>9

\* The two readers of a value take the same texts, own spellings aside.
LEMMA AcceptAlike ==
    ASSUME NEW f, NEW text, ~OwnSpelling(text)
    PROVE  Accepts("native", f, text) <=> Accepts("terminal", f, text)
  <1>1. CASE f.kind = "bool"
    BY <1>1 DEF Accepts, OwnSpelling, BoolTexts
  <1>2. CASE f.kind = "enum"
    BY <1>2 DEF Accepts
  <1>3. CASE f.kind \in {"int", "uint"} /\ text \notin DOMAIN Number
    BY <1>3 DEF Accepts
  <1>4. CASE f.kind \in {"int", "uint"} /\ text \in DOMAIN Number
    <2> DEFINE n == Number[text]
               k == n.n
    <2>1. k \in Int /\ Half \in Nat \ {0}
      BY <1>4, CommandLineAssumption
    <2>2. ~n.padded /\ ~(n.sign # "" /\ k >= 0) /\ -Half <= k /\ k < Half
      BY <1>4 DEF OwnSpelling, InRange
    <2>3. Accepts("native", f, text) <=>
             ~n.padded /\ IF f.kind = "int" THEN -Half <= k /\ k < Half
                          ELSE n.sign = "" /\ 0 <= k /\ k < 2 * Half
      BY <1>4 DEF Accepts, InRange
    <2>4. Accepts("terminal", f, text) <=> f.kind = "int" \/ k >= 0
      BY <1>4 DEF Accepts
    <2> HIDE DEF k
    <2>5. k < Half => k < 2 * Half
      BY <2>1
    <2>6. 0 <= k <=> k >= 0
      BY <2>1
    <2>. QED  BY <2>2, <2>3, <2>4, <2>5, <2>6
  <1>5. CASE f.kind \notin {"bool", "enum", "int", "uint"}
    BY <1>5 DEF Accepts
  <1>. QED  BY <1>1, <1>2, <1>3, <1>4, <1>5

LEMMA ReadAlike ==
    ASSUME command \in Commands, Common, NEW f \in ToSet(command), NEW text, ~OwnSpelling(text)
    PROVE  /\ SourceReadable("native", f, text) <=> SourceReadable("terminal", f, text)
           /\ SourceReadable("native", f, text) => ~OwnSpelling(SourceText(f, text))
  <1>1. f.source \in {"literal", "file"} /\ text # "-"
    BY CommandLineAssumption DEF Common, OwnSpelling
  <1>2. SourceReadable("native", f, text) <=> SourceReadable("terminal", f, text)
    BY <1>1 DEF SourceReadable
  <1>3. CASE f.source = "literal"
    BY <1>2, <1>3 DEF SourceText
  <1>4. CASE f.source = "file"
    <2>1. SourceReadable("native", f, text) => text \in DOMAIN Readable
      BY <1>1, <1>4 DEF SourceReadable
    <2>2. SourceText(f, text) = Readable[text]
      BY <1>1, <1>4 DEF SourceText
    <2>. QED  BY <1>2, <2>1, <2>2 DEF Common
  <1>. QED  BY <1>1, <1>2, <1>3, <1>4

\* A flag of command is valid with the values a tier has for it.
Valid(tier, values, f) ==
    /\ f.required => values[f.name] # <<>>
    /\ ~f.repeated => Len(values[f.name]) <= 1
    /\ \A text \in ToSet(values[f.name]) :
          SourceReadable(tier, f, text) /\ Accepts(tier, f, SourceText(f, text))

LEMMA ValidAlike ==
    ASSUME command \in Commands, Common, NEW v \in Value(FairText), NEW f \in ToSet(command)
    PROVE  Valid("native", Complete(v), f) <=> Valid("terminal", Complete(v), f)
  <1> DEFINE X == ToSet(Complete(v)[f.name])
             Good(tier, text) ==
                SourceReadable(tier, f, text) /\ Accepts(tier, f, SourceText(f, text))
  <1>1. ASSUME NEW text \in X PROVE Good("native", text) <=> Good("terminal", text)
    <2>1. ~OwnSpelling(text)
      BY CompletedFair
    <2>2. SourceReadable("native", f, text) <=> SourceReadable("terminal", f, text)
      BY <2>1, ReadAlike
    <2>3. CASE SourceReadable("native", f, text)
      <3> DEFINE z == SourceText(f, text)
      <3>1. ~OwnSpelling(z)
        BY <2>1, <2>3, ReadAlike
      <3> HIDE DEF z
      <3>2. Accepts("native", f, z) <=> Accepts("terminal", f, z)
        BY <3>1, AcceptAlike
      <3>. QED  BY <2>2, <3>2 DEF z
    <2>4. CASE ~SourceReadable("native", f, text)
      BY <2>2, <2>4
    <2>. QED  BY <2>3, <2>4
  <1> HIDE DEF X
  <1>2. (\A text \in X : Good("native", text)) <=> (\A text \in X : Good("terminal", text))
    <2> HIDE DEF Good
    <2>. QED  BY <1>1
  <1>. QED  BY <1>2 DEF Valid, X

\* What is sent of values.
Sent(values) ==
    [sent |-> TRUE,
     fields |-> FlattenSeq([i \in DOMAIN command |-> Fields(values, FieldsInOrder[i])])]

LEMMA RequestOf ==
    ASSUME NEW tier, NEW p
    PROVE  LET assigned == AssignPositionals(p)
               values == Complete(assigned.values)
           IN  Request(tier, p) =
                  IF p.ok /\ assigned.rest = <<>> /\ \A f \in ToSet(command) : Valid(tier, values, f)
                  THEN Sent(values) ELSE NoRequest
  BY DEF Request, Sent, Valid

LEMMA RequestAlike ==
    ASSUME command \in Commands, Common, NEW p, FairParsed(p)
    PROVE  Request("native", p) = Request("terminal", p)
  <1> DEFINE a == AssignPositionals(p)
             v == a.values
             values == Complete(v)
             All(tier) == \A f \in ToSet(command) : Valid(tier, values, f)
  <1>1. v \in Value(FairText)
    BY AssignedFair DEF FairParsed
  <1>2. \A f \in ToSet(command) : Valid("native", values, f) <=> Valid("terminal", values, f)
    <2> HIDE DEF v
    <2>. QED  BY <1>1, ValidAlike
  <1>3. All("native") <=> All("terminal")
    <2> HIDE DEF values
    <2>. QED  BY <1>2
  <1>4. \A tier \in {"native", "terminal"} :
           Request(tier, p) = IF p.ok /\ a.rest = <<>> /\ All(tier) THEN Sent(values) ELSE NoRequest
    BY RequestOf
  <1> HIDE DEF a, values, All
  <1>. QED  BY <1>3, <1>4

LEMMA RefusedSendsNothing ==
    ASSUME NEW tier
    PROVE  Request(tier, Refused) = NoRequest
  <1>1. Refused.ok = FALSE
    BY DEF Refused
  <1>. QED  BY <1>1 DEF Request

LEMMA FairLine ==
    ASSUME NEW s \in Seq(Words), Ordinary(s)
    PROVE  /\ s \in Seq(FairWord) /\ ~DanglingFlag(s) /\ Common
           /\ \A i \in DOMAIN s : ~IsHelp(s[i])
  <1>1. Len(s) \in Nat /\ DOMAIN s = 1..Len(s) /\ \A i \in 1..Len(s) : s[i] \in Words
    OBVIOUS
  <1>2. \A i \in 1..Len(s) : s[i] \in FairWord
    BY <1>1 DEF Ordinary, FairWord
  <1>3. s \in [1..Len(s) -> FairWord]
    BY <1>2, LenProperties
  <1>4. s \in Seq(FairWord)
    <2> DEFINE n == Len(s)
    <2>1. n \in Nat /\ s \in [1..n -> FairWord]
      BY <1>1, <1>3
    <2> HIDE DEF n
    <2>. QED  BY <2>1, SeqDef
  <1>. QED  BY <1>4 DEF Ordinary, Common

LEMMA AgreeOnLine ==
    ASSUME command \in Commands, NEW s \in Seq(Words), Ordinary(s)
    PROVE  Native(s) = Typed(s)
  <1> DEFINE p == TerminalParse(s)
             t == ReadWords("terminal", s)
  <1>1. /\ s \in Seq(FairWord) /\ ~DanglingFlag(s) /\ Common
        /\ \A i \in DOMAIN s : ~IsHelp(s[i])
    BY FairLine
  <1>2. NativeParse(s) = p
    BY <1>1, ParsesAgree
  <1>3. Fair(t)
    BY <1>1, ReadIsFair
  <1>4. p = Parse("terminal", s)
    BY <1>1 DEF TerminalParse
  <1>5. CASE t.ok /\ t.open = ""
    <2>1. p = Parsed(t.values, t.rest)
      BY <1>4, <1>5 DEF Parse
    <2> HIDE DEF p, t
    <2>2. FairParsed(Parsed(t.values, t.rest))
      BY <1>3, <1>5, FairParts, NewParsed
    <2>3. Request("native", p) = Request("terminal", p)
      BY <1>1, <2>1, <2>2, RequestAlike
    <2>. QED  BY <1>2, <2>3 DEF Native, Typed, p
  <1>6. CASE ~(t.ok /\ t.open = "")
    <2>1. p = Refused
      BY <1>4, <1>6 DEF Parse
    <2>2. Native(s) = Request("native", Refused) /\ Typed(s) = Request("terminal", Refused)
      BY <1>2, <2>1 DEF Native, Typed
    <2>. QED  BY <2>2, RefusedSendsNothing
  <1>. QED  BY <1>5, <1>6

-----------------------------------------------------------------------------
(* The theorems *)

\* What a field begins with, or is filled in with, is spelt.
Filling == DOMAIN Spelling \cup {""}

LEMMA FreshIsSpelt ==
    ASSUME NEW c \in Commands, NEW f \in ToSet(c)
    PROVE  FreshField(f) \in Filling /\ Offered(f) \subseteq Filling
  <1>1. /\ f.default \in Filling /\ f.enumValues \in Seq(DOMAIN Spelling)
        /\ f.kind = "enum" => f.enumValues # <<>>
        /\ Entries \subseteq DOMAIN Spelling
    BY CommandLineAssumption DEF Filling
  <1>2. ToSet(f.enumValues) \subseteq DOMAIN Spelling
    BY <1>1 DEF ToSet
  <1>3. f.enumValues # <<>> => Head(f.enumValues) \in DOMAIN Spelling
    BY <1>1
  <1>4. "" \in Filling /\ DOMAIN Spelling \subseteq Filling
    BY DEF Filling
  <1>. QED  BY <1>1, <1>2, <1>3, <1>4 DEF FreshField, Offered

LEMMA FreshFormSpelt ==
    ASSUME NEW c \in Commands
    PROVE  /\ DOMAIN FreshForm(c) = {f.name : f \in ToSet(c)}
           /\ \A n \in {f.name : f \in ToSet(c)} : FreshForm(c)[n] \in Filling
  <1>1. ASSUME NEW n \in {f.name : f \in ToSet(c)} PROVE FreshForm(c)[n] \in Filling
    <2> DEFINE g == CHOOSE f \in ToSet(c) : f.name = n
    <2>1. g \in ToSet(c)
      BY <1>1
    <2>2. FreshForm(c)[n] = FreshField(g)
      BY <1>1 DEF FreshForm
    <2> HIDE DEF g
    <2>. QED  BY <2>1, <2>2, FreshIsSpelt
  <1>. QED  BY <1>1 DEF FreshForm

LEMMA CliInitOK == CliInit => CliTypeOK
  <1> SUFFICES ASSUME CliInit PROVE CliTypeOK
    OBVIOUS
  <1>1. PICK c \in Commands : command = c /\ line = <<>> /\ form = FreshForm(c)
    BY DEF CliInit
  <1>2. line \in Seq(Words) /\ Len(line) <= MaxWords
    <2>1. MaxWords \in Nat
      BY CommandLineAssumption
    <2>2. line \in Seq(Words) /\ Len(line) = 0
      BY <1>1, EmptySeq
    <2>. QED  BY <2>1, <2>2
  <1>3. DOMAIN form = FlagNames /\ \A n \in FlagNames : form[n] \in Filling
    BY <1>1, FreshFormSpelt DEF FlagNames
  <1>. QED  BY <1>1, <1>2, <1>3 DEF CliTypeOK, Filling

LEMMA CliStepOK == CliTypeOK /\ [CliNext]_cliVars => CliTypeOK'
  <1> SUFFICES ASSUME CliTypeOK, [CliNext]_cliVars PROVE CliTypeOK'
    OBVIOUS
  <1>1. /\ command \in Commands /\ line \in Seq(Words) /\ Len(line) <= MaxWords
        /\ DOMAIN form = FlagNames /\ \A n \in FlagNames : form[n] \in Filling
    BY DEF CliTypeOK, Filling
  <1>2. CASE Type
    <2>1. PICK w \in Words : line' = Append(line, w)
      BY <1>2 DEF Type
    <2>2. line' \in Seq(Words) /\ Len(line') <= MaxWords
      <3>1. Len(line) < MaxWords /\ MaxWords \in Nat
        BY <1>2, CommandLineAssumption DEF Type
      <3>2. line' \in Seq(Words) /\ Len(line') = Len(line) + 1 /\ Len(line) \in Nat
        BY <1>1, <2>1
      <3>. QED  BY <3>1, <3>2
    <2>3. command' = command /\ form' = form
      BY <1>2 DEF Type
    <2>. QED  BY <1>1, <2>2, <2>3 DEF CliTypeOK, FlagNames, Filling
  <1>3. CASE \E f \in ToSet(command) : \E text \in Offered(f) : Fill(f, text)
    <2>0. PICK f \in ToSet(command) : \E text \in Offered(f) : Fill(f, text)
      BY <1>3
    <2>1. PICK text \in Offered(f) : Fill(f, text)
      BY <2>0
    <2>2. /\ form' = [form EXCEPT ![f.name] = text] /\ text \in Filling
          /\ command' = command /\ line' = line
      BY <1>1, <2>1, FreshIsSpelt DEF Fill
    <2>3. DOMAIN form' = FlagNames /\ \A n \in FlagNames : form'[n] \in Filling
      BY <1>1, <2>2
    <2>. QED  BY <1>1, <2>2, <2>3 DEF CliTypeOK, FlagNames, Filling
  <1>4. CASE \E c \in Commands : Select(c)
    <2>1. PICK c \in Commands : command' = c /\ line' = <<>> /\ form' = FreshForm(c)
      BY <1>4 DEF Select
    <2>2. line' \in Seq(Words) /\ Len(line') <= MaxWords
      <3>1. MaxWords \in Nat
        BY CommandLineAssumption
      <3>2. line' \in Seq(Words) /\ Len(line') = 0
        BY <2>1, EmptySeq
      <3>. QED  BY <3>1, <3>2
    <2>3. DOMAIN form' = FlagNames' /\ \A n \in FlagNames' : form'[n] \in Filling
      BY <2>1, FreshFormSpelt DEF FlagNames
    <2>. QED  BY <2>1, <2>2, <2>3 DEF CliTypeOK, Filling
  <1>5. CASE UNCHANGED cliVars
    BY <1>1, <1>5 DEF cliVars, CliTypeOK, FlagNames, Filling
  <1>. QED  BY <1>2, <1>3, <1>4, <1>5 DEF CliNext

\* The type invariant of the command line and the form.
THEOREM CliTypeCorrect == CliSpec => []CliTypeOK
  BY CliInitOK, CliStepOK, PTL DEF CliSpec

\* Whatever the command and however long the line, the native runner and the terminal
\* make the same request of it, or none (encode.ts).
THEOREM SameRequestOnEveryTier == CliSpec => []TiersAgree
  <1>1. CliTypeOK => TiersAgree
    <2>1. SUFFICES ASSUME CliTypeOK, Ordinary(line) PROVE Native(line) = Typed(line)
      BY DEF TiersAgree
    <2>2. line \in Seq(Words)
      BY <2>1 DEF CliTypeOK
    <2>. QED  BY <2>1, <2>2, AgreeOnLine DEF CliTypeOK
  <1>. QED  BY <1>1, CliTypeCorrect, PTL

-----------------------------------------------------------------------------
(* Two words that may change places *)

LEMMA TypedTakes ==
    ASSUME NEW t, NEW v, NEW r, Reads(t, v, r, ""), NEW x, x.name # "", IsKnown(x)
    PROVE  Reads(ReadStep("terminal", t, x), Gets(v, x), r, Opens(x))
  <1>1. t.ok = TRUE /\ t.values = v /\ t.rest = r /\ t.open = ""
    BY ReadsFields
  <1>2. ReadStep("terminal", t, x) = TakeFlag(t, x)
    BY <1>1 DEF ReadStep, TypedStep, IsDashed
  <1>3. CASE TakesNext(x)
    BY <1>1, <1>2, <1>3 DEF TakeFlag, Gets, Opens, Reads
  <1>4. CASE ~TakesNext(x)
    BY <1>1, <1>2, <1>4 DEF TakeFlag, Gets, Opens, Reads
  <1>. QED  BY <1>3, <1>4

LEMMA SameReading ==
    ASSUME NEW t, NEW u, NEW v, NEW r, NEW o, Reads(t, v, r, o), Reads(u, v, r, o)
    PROVE  t = u
  BY DEF Reads

\* The words w and x, read or sorted in either order after t.
TypedEitherWay(t, w, x) ==
    ReadStep("terminal", ReadStep("terminal", t, w), x) =
       ReadStep("terminal", ReadStep("terminal", t, x), w)
SortedEitherWay(t, w, x) ==
    PermuteStep(PermuteStep(t, w), x) = PermuteStep(PermuteStep(t, x), w)

LEMMA TypedSwaps ==
    ASSUME NEW t, NEW v, NEW r, Reads(t, v, r, ""), NEW w, ~IsDashed(w),
           NEW x, SelfContained(x)
    PROVE  TypedEitherWay(t, w, x)
  <1>1. x.name # "" /\ IsKnown(x) /\ Opens(x) = ""
    BY DEF SelfContained, Opens
  <1> DEFINE a == ReadStep("terminal", t, w)
             b == ReadStep("terminal", t, x)
             u == Gets(v, x)
             q == Append(r, w.text)
  <1>2. Reads(a, v, q, "")
    BY ReadsBare
  <1>3. Reads(b, u, r, "")
    BY <1>1, TypedTakes
  <1> HIDE DEF a, b
  <1>4. Reads(ReadStep("terminal", a, x), u, q, "")
    <2> HIDE DEF q
    <2>. QED  BY <1>1, <1>2, TypedTakes
  <1>5. Reads(ReadStep("terminal", b, w), u, q, "")
    <2> HIDE DEF u
    <2>. QED  BY <1>3, ReadsBare
  <1>6. ReadStep("terminal", a, x) = ReadStep("terminal", b, w)
    <2> HIDE DEF u, q
    <2>. QED  BY <1>4, <1>5, SameReading
  <1>. QED  BY <1>6 DEF a, b, TypedEitherWay

LEMMA SortingSwaps ==
    ASSUME NEW t, NEW f, NEW p, SortedInto(t, f, p, ""), NEW w, ~IsDashed(w),
           NEW x, SelfContained(x)
    PROVE  SortedEitherWay(t, w, x)
  <1>1. IsDashed(x) /\ ~TakesNext(x)
    BY DEF SelfContained, IsDashed
  <1> DEFINE a == PermuteStep(t, w)
             b == PermuteStep(t, x)
             q == Append(p, w)
  <1>2. SortedInto(a, f, q, "")
    BY SortsBare
  <1>3. CASE x.text # "--"
    <2> DEFINE g == Append(f, x)
    <2>1. Opens(x) = ""
      BY <1>1 DEF Opens
    <2>2. SortedInto(b, g, p, "")
      BY <1>1, <1>3, <2>1, SortsFlag
    <2> HIDE DEF a, b
    <2>3. SortedInto(PermuteStep(b, w), g, q, "")
      <3> HIDE DEF g
      <3>. QED  BY <2>2, SortsBare
    <2>4. SortedInto(PermuteStep(a, x), g, q, "")
      <3> HIDE DEF q
      <3>. QED  BY <1>1, <1>2, <1>3, <2>1, SortsFlag
    <2>. QED  BY <2>3, <2>4 DEF SortedInto, a, b, SortedEitherWay
  <1>4. CASE x.text = "--"
    <2>1. t.flags = f /\ t.pos = p /\ t.open = "" /\ t.ended = FALSE
      BY SortsFields
    <2>2. b = Permuted(f, p, "", TRUE)
      BY <1>1, <1>4, <2>1 DEF PermuteStep
    <2>3. a.flags = f /\ a.pos = q /\ a.open = "" /\ a.ended = FALSE
      BY <1>2, SortsFields
    <2> HIDE DEF a, b
    <2>4. b.flags = f /\ b.pos = p /\ b.open = "" /\ b.ended = TRUE
      BY <2>2 DEF Permuted
    <2>5. PermuteStep(b, w) = Permuted(f, q, "", TRUE)
      BY <2>4 DEF PermuteStep
    <2>6. PermuteStep(a, x) = Permuted(f, q, "", TRUE)
      BY <1>1, <1>4, <2>3 DEF PermuteStep
    <2>. QED  BY <2>5, <2>6 DEF a, b, SortedEitherWay
  <1>. QED  BY <1>3, <1>4

\* The lines s and t differ in the order of two neighbours, with bare words before.
Neighbours(s, t, i) ==
    /\ Len(s) \in Nat /\ Len(t) = Len(s) /\ i \in 1..(Len(s) - 1)
    /\ t[i] = s[i + 1] /\ t[i + 1] = s[i]
    /\ \A j \in 1..Len(s) : j # i /\ j # i + 1 => t[j] = s[j]
    /\ ~IsDashed(s[i]) /\ SelfContained(s[i + 1])
    /\ \A j \in 1..(i - 1) : ~IsDashed(s[j])

LEMMA TypedOrder ==
    ASSUME NEW s, NEW t, NEW i, Neighbours(s, t, i)
    PROVE  ReadWords("terminal", s) = ReadWords("terminal", t)
  <1> DEFINE n == Len(s)
  <1>1. /\ n \in Nat /\ Len(t) = n /\ i \in 1..(n - 1)
        /\ t[i] = s[i + 1] /\ t[i + 1] = s[i]
        /\ \A j \in 1..n : j # i /\ j # i + 1 => t[j] = s[j]
        /\ ~IsDashed(s[i]) /\ SelfContained(s[i + 1])
        /\ \A j \in 1..(i - 1) : ~IsDashed(s[j])
    BY DEF Neighbours
  <1>2. PICK a : /\ a[0] = Start
                 /\ \A k \in 1..n : a[k] = ReadStep("terminal", a[k - 1], s[k])
                 /\ ReadWords("terminal", s) = a[n]
    BY <1>1, ReadUnfolds
  <1> HIDE DEF n
  <1>3. PICK b : /\ b[0] = Start
                 /\ \A k \in 1..n : b[k] = ReadStep("terminal", b[k - 1], t[k])
                 /\ ReadWords("terminal", t) = b[n]
    <2>1. Len(t) \in Nat
      BY <1>1
    <2>2. \E c : /\ c[0] = Start
                 /\ \A k \in 1..Len(t) : c[k] = ReadStep("terminal", c[k - 1], t[k])
                 /\ ReadWords("terminal", t) = c[Len(t)]
      BY <2>1, ReadUnfolds
    <2>. QED  BY <1>1, <2>2
  <1> DEFINE Plainly(z) == \E r : Reads(z, NoValues, r, "")
             S == {k \in Nat : k <= i - 1 => a[k] = b[k] /\ Plainly(a[k])}
  <1>4. 0 \in S
    <2>1. Plainly(Start)
      BY DEF Start, Reads
    <2> HIDE DEF Plainly
    <2>. QED  BY <1>2, <1>3, <2>1
  <1>5. ASSUME NEW k \in Nat, k \in S PROVE k + 1 \in S
    <2>1. SUFFICES ASSUME k + 1 <= i - 1 PROVE a[k + 1] = b[k + 1] /\ Plainly(a[k + 1])
      <3> HIDE DEF Plainly
      <3>. QED  OBVIOUS
    <2>2. /\ k <= i - 1 /\ k + 1 \in 1..n /\ (k + 1) - 1 = k /\ k + 1 \in 1..(i - 1)
          /\ k + 1 # i /\ k + 1 # i + 1
      BY <1>1, <2>1
    <2>3. a[k] = b[k] /\ Plainly(a[k])
      <3> HIDE DEF Plainly
      <3>. QED  BY <1>5, <2>2
    <2>4. t[k + 1] = s[k + 1] /\ ~IsDashed(s[k + 1])
      BY <1>1, <2>2
    <2>5. a[k + 1] = ReadStep("terminal", a[k], s[k + 1])
      BY <1>2, <2>2
    <2>6. b[k + 1] = ReadStep("terminal", a[k], s[k + 1])
      BY <1>3, <2>2, <2>3, <2>4
    <2>7. PICK r : Reads(a[k], NoValues, r, "")
      BY <2>3
    <2>8. Reads(ReadStep("terminal", a[k], s[k + 1]), NoValues, Append(r, s[k + 1].text), "")
      BY <2>4, <2>7, ReadsBare
    <2>9. Plainly(a[k + 1])
      BY <2>5, <2>8
    <2>. QED  BY <2>5, <2>6, <2>9
  <1>6. a[i - 1] = b[i - 1] /\ Plainly(a[i - 1])
    <2>1. i - 1 \in Nat /\ i - 1 <= i - 1
      BY <1>1
    <2>2. i - 1 \in S
      <3> HIDE DEF S
      <3>. QED  BY <1>4, <1>5, <2>1, SetInduction
    <2> HIDE DEF Plainly
    <2>. QED  BY <2>1, <2>2
  <1>7. a[i + 1] = b[i + 1]
    <2> DEFINE z == a[i - 1]
               w == s[i]
               x == s[i + 1]
    <2>1. i \in 1..n /\ i + 1 \in 1..n /\ (i + 1) - 1 = i
      BY <1>1
    <2>2. a[i] = ReadStep("terminal", z, w) /\ a[i + 1] = ReadStep("terminal", a[i], x)
      BY <1>2, <2>1
    <2>3. b[i] = ReadStep("terminal", z, x) /\ b[i + 1] = ReadStep("terminal", b[i], w)
      BY <1>1, <1>3, <1>6, <2>1
    <2>4. PICK r : Reads(z, NoValues, r, "")
      BY <1>6
    <2>5. ~IsDashed(w) /\ SelfContained(x)
      BY <1>1
    <2> HIDE DEF z, w, x
    <2>6. TypedEitherWay(z, w, x)
      <3>1. ~IsDashed(w)
        BY <2>5
      <3>2. SelfContained(x)
        BY <2>5
      <3>. QED  BY <2>4, <3>1, <3>2, TypedSwaps
    <2>. QED  BY <2>2, <2>3, <2>6 DEF TypedEitherWay
  <1> DEFINE R == {k \in Nat : i + 1 <= k /\ k <= n => a[k] = b[k]}
  <1>8. 0 \in R
    BY <1>1
  <1>9. ASSUME NEW k \in Nat, k \in R PROVE k + 1 \in R
    <2>1. CASE k + 1 = i + 1
      BY <1>7, <2>1
    <2>2. CASE k + 1 # i + 1
      <3>1. SUFFICES ASSUME i + 1 <= k + 1, k + 1 <= n PROVE a[k + 1] = b[k + 1]
        OBVIOUS
      <3>2. i + 1 <= k /\ k <= n /\ k + 1 \in 1..n /\ (k + 1) - 1 = k /\ k + 1 # i
        BY <1>1, <2>2, <3>1
      <3>3. a[k] = b[k]
        BY <1>9, <3>2
      <3>4. t[k + 1] = s[k + 1]
        <4>1. \A j \in 1..n : j # i /\ j # i + 1 => t[j] = s[j]
          BY <1>1
        <4>. QED  BY <2>2, <3>2, <4>1
      <3>. QED  BY <1>2, <1>3, <3>2, <3>3, <3>4
    <2>. QED  BY <2>1, <2>2
  <1>10. n \in R
    <2> HIDE DEF R
    <2>. QED  BY <1>1, <1>8, <1>9, SetInduction
  <1>11. a[n] = b[n]
    BY <1>1, <1>10
  <1>. QED  BY <1>2, <1>3, <1>11

LEMMA SortingOrder ==
    ASSUME NEW s, NEW t, NEW i, Neighbours(s, t, i)
    PROVE  PermuteAll(s) = PermuteAll(t)
  <1> DEFINE n == Len(s)
  <1>1. /\ n \in Nat /\ Len(t) = n /\ i \in 1..(n - 1)
        /\ t[i] = s[i + 1] /\ t[i + 1] = s[i]
        /\ \A j \in 1..n : j # i /\ j # i + 1 => t[j] = s[j]
        /\ ~IsDashed(s[i]) /\ SelfContained(s[i + 1])
        /\ \A j \in 1..(i - 1) : ~IsDashed(s[j])
    BY DEF Neighbours
  <1>2. PICK a : /\ a[0] = Unsorted
                 /\ \A k \in 1..n : a[k] = PermuteStep(a[k - 1], s[k])
                 /\ PermuteAll(s) = a[n]
    BY <1>1, PermuteUnfolds
  <1> HIDE DEF n
  <1>3. PICK b : /\ b[0] = Unsorted
                 /\ \A k \in 1..n : b[k] = PermuteStep(b[k - 1], t[k])
                 /\ PermuteAll(t) = b[n]
    <2>1. Len(t) \in Nat
      BY <1>1
    <2>2. \E c : /\ c[0] = Unsorted
                 /\ \A k \in 1..Len(t) : c[k] = PermuteStep(c[k - 1], t[k])
                 /\ PermuteAll(t) = c[Len(t)]
      BY <2>1, PermuteUnfolds
    <2>. QED  BY <1>1, <2>2
  <1> DEFINE Plainly(z) == \E r : SortedInto(z, <<>>, r, "")
             S == {k \in Nat : k <= i - 1 => a[k] = b[k] /\ Plainly(a[k])}
  <1>4. 0 \in S
    <2>1. Plainly(Unsorted)
      BY DEF Unsorted, SortedInto
    <2> HIDE DEF Plainly
    <2>. QED  BY <1>2, <1>3, <2>1
  <1>5. ASSUME NEW k \in Nat, k \in S PROVE k + 1 \in S
    <2>1. SUFFICES ASSUME k + 1 <= i - 1 PROVE a[k + 1] = b[k + 1] /\ Plainly(a[k + 1])
      <3> HIDE DEF Plainly
      <3>. QED  OBVIOUS
    <2>2. /\ k <= i - 1 /\ k + 1 \in 1..n /\ (k + 1) - 1 = k /\ k + 1 \in 1..(i - 1)
          /\ k + 1 # i /\ k + 1 # i + 1
      BY <1>1, <2>1
    <2>3. a[k] = b[k] /\ Plainly(a[k])
      <3> HIDE DEF Plainly
      <3>. QED  BY <1>5, <2>2
    <2>4. t[k + 1] = s[k + 1] /\ ~IsDashed(s[k + 1])
      BY <1>1, <2>2
    <2>5. a[k + 1] = PermuteStep(a[k], s[k + 1])
      BY <1>2, <2>2
    <2>6. b[k + 1] = PermuteStep(a[k], s[k + 1])
      BY <1>3, <2>2, <2>3, <2>4
    <2>7. PICK r : SortedInto(a[k], <<>>, r, "")
      BY <2>3
    <2>8. SortedInto(PermuteStep(a[k], s[k + 1]), <<>>, Append(r, s[k + 1]), "")
      BY <2>4, <2>7, SortsBare
    <2>9. Plainly(a[k + 1])
      BY <2>5, <2>8
    <2>. QED  BY <2>5, <2>6, <2>9
  <1>6. a[i - 1] = b[i - 1] /\ Plainly(a[i - 1])
    <2>1. i - 1 \in Nat /\ i - 1 <= i - 1
      BY <1>1
    <2>2. i - 1 \in S
      <3> HIDE DEF S
      <3>. QED  BY <1>4, <1>5, <2>1, SetInduction
    <2> HIDE DEF Plainly
    <2>. QED  BY <2>1, <2>2
  <1>7. a[i + 1] = b[i + 1]
    <2> DEFINE z == a[i - 1]
               w == s[i]
               x == s[i + 1]
    <2>1. i \in 1..n /\ i + 1 \in 1..n /\ (i + 1) - 1 = i
      BY <1>1
    <2>2. a[i] = PermuteStep(z, w) /\ a[i + 1] = PermuteStep(a[i], x)
      BY <1>2, <2>1
    <2>3. b[i] = PermuteStep(z, x) /\ b[i + 1] = PermuteStep(b[i], w)
      BY <1>1, <1>3, <1>6, <2>1
    <2>4. PICK r : SortedInto(z, <<>>, r, "")
      BY <1>6
    <2>5. ~IsDashed(w) /\ SelfContained(x)
      BY <1>1
    <2> HIDE DEF z, w, x
    <2>6. SortedEitherWay(z, w, x)
      <3>1. ~IsDashed(w)
        BY <2>5
      <3>2. SelfContained(x)
        BY <2>5
      <3>. QED  BY <2>4, <3>1, <3>2, SortingSwaps
    <2>. QED  BY <2>2, <2>3, <2>6 DEF SortedEitherWay
  <1> DEFINE R == {k \in Nat : i + 1 <= k /\ k <= n => a[k] = b[k]}
  <1>8. 0 \in R
    BY <1>1
  <1>9. ASSUME NEW k \in Nat, k \in R PROVE k + 1 \in R
    <2>1. CASE k + 1 = i + 1
      BY <1>7, <2>1
    <2>2. CASE k + 1 # i + 1
      <3>1. SUFFICES ASSUME i + 1 <= k + 1, k + 1 <= n PROVE a[k + 1] = b[k + 1]
        OBVIOUS
      <3>2. i + 1 <= k /\ k <= n /\ k + 1 \in 1..n /\ (k + 1) - 1 = k /\ k + 1 # i
        BY <1>1, <2>2, <3>1
      <3>3. a[k] = b[k]
        BY <1>9, <3>2
      <3>4. t[k + 1] = s[k + 1]
        <4>1. \A j \in 1..n : j # i /\ j # i + 1 => t[j] = s[j]
          BY <1>1
        <4>. QED  BY <2>2, <3>2, <4>1
      <3>. QED  BY <1>2, <1>3, <3>2, <3>3, <3>4
    <2>. QED  BY <2>1, <2>2
  <1>10. n \in R
    <2> HIDE DEF R
    <2>. QED  BY <1>1, <1>8, <1>9, SetInduction
  <1>11. a[n] = b[n]
    BY <1>1, <1>10
  <1>. QED  BY <1>2, <1>3, <1>11

LEMMA SwappedAreNeighbours ==
    ASSUME NEW i \in 1..(Len(line) - 1), line \in Seq(Words),
           ~IsDashed(line[i]), SelfContained(line[i + 1]),
           \A j \in 1..(i - 1) : ~IsDashed(line[j])
    PROVE  Neighbours(line, Swapped(i), i)
  <1>1. Len(line) \in Nat /\ DOMAIN line = 1..Len(line) /\ i \in 1..Len(line)
        /\ i + 1 \in 1..Len(line) /\ i + 1 # i
    OBVIOUS
  <1> DEFINE a == line[i]
             b == line[i + 1]
             t == [line EXCEPT ![i] = b, ![i + 1] = a]
  <1>2. t[i] = b /\ t[i + 1] = a
    BY <1>1
  <1>3. \A j \in 1..Len(line) : j # i /\ j # i + 1 => t[j] = line[j]
    BY <1>1
  <1>4. Len(t) = Len(line)
    <2>1. DOMAIN t = 1..Len(line)
      BY <1>1
    <2>2. t \in Seq(Words)
      <3>1. a \in Words /\ b \in Words
        BY <1>1
      <3> HIDE DEF a, b
      <3>. QED  BY <1>1, <3>1
    <2>. QED  BY <1>1, <2>1, <2>2, LenProperties
  <1>5. Swapped(i) = t
    BY DEF Swapped
  <1> HIDE DEF t
  <1>. QED  BY <1>1, <1>2, <1>3, <1>4, <1>5 DEF Neighbours

LEMMA SameHelp ==
    ASSUME NEW s, NEW t, NEW i, Neighbours(s, t, i), DOMAIN s = 1..Len(s), DOMAIN t = 1..Len(s)
    PROVE  (\E j \in DOMAIN s : IsHelp(s[j])) <=> (\E j \in DOMAIN t : IsHelp(t[j]))
  <1>1. /\ i \in 1..Len(s) /\ i + 1 \in 1..Len(s)
        /\ t[i] = s[i + 1] /\ t[i + 1] = s[i]
        /\ \A j \in 1..Len(s) : j # i /\ j # i + 1 => t[j] = s[j]
    BY DEF Neighbours
  <1>2. \A j \in 1..Len(s) : IsHelp(s[j]) => \E k \in 1..Len(s) : IsHelp(t[k])
    BY <1>1
  <1>3. \A j \in 1..Len(s) : IsHelp(t[j]) => \E k \in 1..Len(s) : IsHelp(s[k])
    BY <1>1
  <1>. QED  BY <1>2, <1>3

\* A self-contained flag may stand on either side of a word, on both tiers (permute()).
THEOREM OrderStaysFree == CliSpec => []OrderIsFree
  <1>1. ASSUME CliTypeOK PROVE OrderIsFree
    <2>1. SUFFICES ASSUME NEW i \in 1..(Len(line) - 1),
                          ~IsDashed(line[i]), SelfContained(line[i + 1]),
                          \A j \in 1..(i - 1) : ~IsDashed(line[j])
                   PROVE  Native(Swapped(i)) = Native(line) /\ Typed(Swapped(i)) = Typed(line)
      BY DEF OrderIsFree
    <2>2. line \in Seq(Words)
      BY <1>1 DEF CliTypeOK
    <2> DEFINE t == Swapped(i)
    <2>3. Neighbours(line, t, i)
      BY <2>1, <2>2, SwappedAreNeighbours
    <2>4. DOMAIN line = 1..Len(line) /\ DOMAIN t = 1..Len(line)
      BY <2>2 DEF Swapped
    <2> HIDE DEF t
    <2>5. NativeParse(t) = NativeParse(line)
      <3>1. PermuteAll(line) = PermuteAll(t)
        BY <2>3, SortingOrder
      <3>. QED  BY <3>1 DEF NativeParse, Permute
    <2>6. TerminalParse(t) = TerminalParse(line)
      <3>1. ReadWords("terminal", line) = ReadWords("terminal", t)
        BY <2>3, TypedOrder
      <3>2. Parse("terminal", line) = Parse("terminal", t)
        BY <3>1 DEF Parse
      <3>3. (\E j \in DOMAIN line : IsHelp(line[j])) <=> (\E j \in DOMAIN t : IsHelp(t[j]))
        BY <2>3, <2>4, SameHelp
      <3>. QED  BY <3>2, <3>3 DEF TerminalParse
    <2>. QED  BY <2>5, <2>6 DEF Native, Typed, t
  <1>. QED  BY <1>1, CliTypeCorrect, PTL

-----------------------------------------------------------------------------
(* Sequences joined one after another *)

LEMMA AsSequence ==
    ASSUME NEW X, NEW n \in Nat, NEW s \in [1..n -> X]
    PROVE  s \in Seq(X) /\ Len(s) = n
  OBVIOUS

LEMMA FlattenUnfolds ==
    ASSUME NEW s, Len(s) \in Nat, Len(s) # 0
    PROVE  \E acc : /\ acc[1] = s[1]
                    /\ \A i \in 1..Len(s) : i # 1 => acc[i] = acc[i - 1] \o s[i]
                    /\ FlattenSeq(s) = acc[Len(s)]
  <1> DEFINE N == Len(s)
             step(f, i) == IF i = 1 THEN s[i] ELSE f[i - 1] \o s[i]
             Is(f, n) == f = [i \in 1..n |-> step(f, i)]
             acc == CHOOSE f : Is(f, N)
             S == {n \in Nat : \E f : Is(f, n)}
  <1>1. FlattenSeq(s) = acc[N]
    BY DEF FlattenSeq
  <1>2. 0 \in S
    <2> DEFINE f == [i \in 1..0 |-> s]
    <2>1. Is(f, 0)
      OBVIOUS
    <2>. QED  BY <2>1
  <1>3. ASSUME NEW n \in Nat, n \in S PROVE n + 1 \in S
    <2>1. PICK f : Is(f, n)
      BY <1>3
    <2> DEFINE next == step(f, n + 1)
               g == [i \in 1..(n + 1) |-> IF i = n + 1 THEN next ELSE f[i]]
    <2>2. next = step(f, n + 1)
      OBVIOUS
    <2>3. \A i \in 1..n : f[i] = step(f, i)
      BY <2>1
    <2> HIDE DEF next
    <2>4. ASSUME NEW i \in 1..(n + 1) PROVE step(g, i) = step(f, i)
      <3>1. i # 1 => i - 1 \in 1..n /\ i - 1 # n + 1 /\ i - 1 \in 1..(n + 1)
        OBVIOUS
      <3>2. i # 1 => g[i - 1] = f[i - 1]
        BY <3>1
      <3>. QED  BY <3>2
    <2>5. \A i \in 1..(n + 1) : i = n + 1 \/ i \in 1..n
      OBVIOUS
    <2>6. \A i \in 1..(n + 1) : g[i] = step(g, i)
      BY <2>2, <2>3, <2>4, <2>5
    <2>7. Is(g, n + 1)
      BY <2>6
    <2> HIDE DEF Is, g
    <2>8. \E h : Is(h, n + 1)
      BY <2>7
    <2>. QED  BY <2>8
  <1>4. N \in S
    <2> HIDE DEF S
    <2>. QED  BY <1>2, <1>3, SetInduction
  <1>5. Is(acc, N)
    <2> HIDE DEF Is
    <2>. QED  BY <1>4
  <1>6. \A i \in 1..N : acc[i] = step(acc, i)
    BY <1>5
  <1> HIDE DEF acc
  <1>7. 1 \in 1..N
    OBVIOUS
  <1>8. acc[1] = s[1] /\ \A i \in 1..N : i # 1 => acc[i] = acc[i - 1] \o s[i]
    BY <1>6, <1>7
  <1>. QED  BY <1>1, <1>8

\* So what holds of nothing and is kept by each part holds of the whole.
LEMMA FlattenReaches ==
    ASSUME NEW X, NEW s \in Seq(Seq(X)), NEW G, <<0, <<>> >> \in G,
           \A k \in Nat, w \in Seq(X) :
              k + 1 \in 1..Len(s) /\ <<k, w>> \in G => <<k + 1, w \o s[k + 1]>> \in G
    PROVE  FlattenSeq(s) \in Seq(X) /\ <<Len(s), FlattenSeq(s)>> \in G
  <1> DEFINE N == Len(s)
  <1>1. N \in Nat /\ \A i \in 1..N : s[i] \in Seq(X)
    OBVIOUS
  <1>2. CASE N = 0
    <2>1. s = <<>>
      BY <1>2, EmptySeq
    <2>2. FlattenSeq(s) = s
      BY <1>2 DEF FlattenSeq
    <2>. QED  BY <1>2, <2>1, <2>2, EmptySeq
  <1>3. CASE N # 0
    <2>1. PICK acc : /\ acc[1] = s[1]
                     /\ \A i \in 1..N : i # 1 => acc[i] = acc[i - 1] \o s[i]
                     /\ FlattenSeq(s) = acc[N]
      BY <1>1, <1>3, FlattenUnfolds
    <2> HIDE DEF N
    <2> DEFINE Here(k) == acc[k] \in Seq(X) /\ <<k, acc[k]>> \in G
               S == {k \in Nat : k \in 1..N => Here(k)}
    <2>2. 0 \in S
      <3>1. 0 \notin 1..N
        BY <1>1
      <3> HIDE DEF Here
      <3>. QED  BY <3>1
    <2>3. ASSUME NEW k \in Nat, k \in S PROVE k + 1 \in S
      <3>1. SUFFICES ASSUME k + 1 \in 1..N PROVE Here(k + 1)
        <4> HIDE DEF Here
        <4>. QED  OBVIOUS
      <3>2. CASE k = 0
        <4>1. 1 \in 1..N /\ <<0, <<>> >> \in G /\ <<>> \in Seq(X)
          BY <3>1, <3>2, EmptySeq
        <4>2. 0 \in Nat /\ 0 + 1 \in 1..Len(s)
          BY <4>1 DEF N
        <4>3. <<0 + 1, <<>> \o s[0 + 1]>> \in G
          BY <4>1, <4>2
        <4>4. <<1, <<>> \o s[1]>> \in G
          BY <4>3
        <4>5. s[1] \in Seq(X) /\ <<>> \o s[1] = s[1]
          BY <1>1, <4>1, ConcatEmptySeq
        <4>6. Here(1)
          BY <2>1, <4>4, <4>5
        <4> HIDE DEF Here
        <4>. QED  BY <3>2, <4>6
      <3>3. CASE k # 0
        <4>1. k \in 1..N /\ (k + 1) - 1 = k /\ k + 1 # 1
          BY <1>1, <3>1, <3>3
        <4>2. Here(k)
          <5> HIDE DEF Here
          <5>. QED  BY <2>3, <4>1
        <4>3. acc[k + 1] = acc[k] \o s[k + 1]
          BY <2>1, <3>1, <4>1
        <4>4. acc[k] \o s[k + 1] \in Seq(X)
          BY <1>1, <3>1, <4>2, ConcatProperties
        <4>5. <<k + 1, acc[k] \o s[k + 1]>> \in G
          BY <3>1, <4>2 DEF N
        <4>. QED  BY <4>3, <4>4, <4>5
      <3>. QED  BY <3>2, <3>3
    <2>4. N \in S
      <3> HIDE DEF S
      <3>. QED  BY <1>1, <2>2, <2>3, SetInduction
    <2>5. Here(N)
      <3>1. N \in 1..N
        BY <1>1, <1>3
      <3> HIDE DEF Here
      <3>. QED  BY <2>4, <3>1
    <2>. QED  BY <2>1, <2>5 DEF N
  <1>. QED  BY <1>2, <1>3

LEMMA TwoMore ==
    ASSUME NEW X, NEW s \in Seq(X), NEW p \in Seq(X), Len(p) = 2
    PROVE  s \o p = Append(Append(s, p[1]), p[2])
  <1> DEFINE c == s \o p
             d == Append(Append(s, p[1]), p[2])
  <1>1. p[1] \in X /\ p[2] \in X
    OBVIOUS
  <1>2. c \in Seq(X) /\ d \in Seq(X)
    BY <1>1
  <1>3. Len(s) \in Nat
    OBVIOUS
  <1>4. /\ Len(c) = Len(s) + 2 /\ \A i \in 1..Len(s) : c[i] = s[i]
        /\ c[Len(s) + 1] = p[1] /\ c[Len(s) + 2] = p[2]
    <2>1. Len(c) = Len(s) + Len(p)
      BY ConcatProperties
    <2>2. \A i \in 1..(Len(s) + Len(p)) : c[i] = IF i <= Len(s) THEN s[i] ELSE p[i - Len(s)]
      BY ConcatProperties
    <2> HIDE DEF c
    <2>3. \A i \in 1..(Len(s) + 2) : c[i] = IF i <= Len(s) THEN s[i] ELSE p[i - Len(s)]
      BY <2>2
    <2>4. \A i \in 1..Len(s) : c[i] = s[i]
      BY <1>3, <2>3
    <2>5. c[Len(s) + 1] = p[1]
      <3>1. Len(s) + 1 \in 1..(Len(s) + 2) /\ ~(Len(s) + 1 <= Len(s))
        BY <1>3
      <3>2. (Len(s) + 1) - Len(s) = 1
        BY <1>3
      <3>. QED  BY <2>3, <3>1, <3>2
    <2>6. c[Len(s) + 2] = p[2]
      <3>1. Len(s) + 2 \in 1..(Len(s) + 2) /\ ~(Len(s) + 2 <= Len(s))
        BY <1>3
      <3>2. (Len(s) + 2) - Len(s) = 2
        BY <1>3
      <3>. QED  BY <2>3, <3>1, <3>2
    <2>. QED  BY <2>1, <2>4, <2>5, <2>6
  <1>5. /\ Len(d) = Len(s) + 2 /\ \A i \in 1..Len(s) : d[i] = s[i]
        /\ d[Len(s) + 1] = p[1] /\ d[Len(s) + 2] = p[2]
    BY <1>1
  <1> HIDE DEF c, d
  <1>6. \A i \in 1..Len(c) : c[i] = d[i]
    <2>1. ASSUME NEW i \in 1..(Len(s) + 2) PROVE c[i] = d[i]
      <3>1. CASE i \in 1..Len(s)
        BY <1>3, <1>4, <1>5, <3>1
      <3>2. CASE i = Len(s) + 1
        BY <1>3, <1>4, <1>5, <3>2
      <3>3. CASE i = Len(s) + 2
        BY <1>3, <1>4, <1>5, <3>3
      <3>. QED  BY <1>3, <3>1, <3>2, <3>3
    <2>. QED  BY <1>4, <2>1
  <1>7. c = d
    BY <1>2, <1>4, <1>5, <1>6, SeqEqual
  <1>. QED  BY <1>7 DEF c, d

LEMMA PairUp ==
    ASSUME NEW X, NEW k \in Nat, NEW w \in X
    PROVE  <<k + 1, w>> \in Nat \X X /\ <<k + 1, w>>[1] = k + 1 /\ <<k + 1, w>>[2] = w
  OBVIOUS

LEMMA FirstValue ==
    ASSUME NEW v, NEW n, NEW x, v[n] = <<>>
    PROVE  With(v, n, x) = [v EXCEPT ![n] = <<x>>]
  <1>1. Append(v[n], x) = <<x>>
    OBVIOUS
  <1>. QED  BY <1>1 DEF With

-----------------------------------------------------------------------------
(* The line copied from a form, cut into words again *)

\* The fields that hold something, the words copied of them, and the pieces all is
\* written with.
FilledFlags == {f \in ToSet(command) : form[f.name] # ""}
CopyWord == {Shown(f) : f \in FilledFlags} \cup {WordOf(form[f.name]) : f \in FilledFlags}
Piece == {" ", "\"", "\\", "t"} \cup {"--" \o f.name : f \in ToSet(command)}
         \cup UNION {ToSet(Spelling[text]) : text \in DOMAIN Spelling}

Unscanned(out) == Scanned(out, <<>>, "", FALSE, FALSE)
InWord(out, cur) == Scanned(out, cur, "", TRUE, FALSE)
InQuotes(out, cur) == Scanned(out, cur, "\"", TRUE, FALSE)
Outside(z) == z.quote = "" /\ z.escaped = FALSE

LEMMA ScanUnfolds ==
    ASSUME NEW s, Len(s) \in Nat
    PROVE  \E acc : /\ acc[0] = Unscanned(<<>>)
                    /\ \A i \in 1..Len(s) : acc[i] = ScanStep(acc[i - 1], s[i])
                    /\ Scan(s) = acc[Len(s)]
  <1> DEFINE N == Len(s)
             z == Unscanned(<<>>)
             step(f, i) == IF i = 0 THEN z ELSE ScanStep(f[i - 1], s[i])
             Is(f, n) == f = [i \in 0..n |-> step(f, i)]
             acc == CHOOSE f : Is(f, N)
             S == {n \in Nat : \E f : Is(f, n)}
  <1>1. Scan(s) = acc[N]
    BY DEF Scan, Unscanned
  <1> HIDE DEF z
  <1>2. 0 \in S
    <2> DEFINE f == [i \in 0..0 |-> z]
    <2>1. Is(f, 0)
      OBVIOUS
    <2>. QED  BY <2>1
  <1>3. ASSUME NEW n \in Nat, n \in S PROVE n + 1 \in S
    <2>1. PICK f : Is(f, n)
      BY <1>3
    <2> DEFINE next == ScanStep(f[n], s[n + 1])
               g == [i \in 0..(n + 1) |-> IF i = n + 1 THEN next ELSE f[i]]
    <2>2. next = step(f, n + 1)
      <3>1. n + 1 # 0 /\ (n + 1) - 1 = n
        OBVIOUS
      <3>. QED  BY <3>1, Zenon
    <2>3. \A i \in 0..n : f[i] = step(f, i)
      BY <2>1
    <2> HIDE DEF next
    <2>4. ASSUME NEW i \in 0..(n + 1) PROVE step(g, i) = step(f, i)
      <3>1. i # 0 => i - 1 \in 0..n /\ i - 1 # n + 1 /\ i - 1 \in 0..(n + 1)
        OBVIOUS
      <3>2. i # 0 => g[i - 1] = f[i - 1]
        BY <3>1
      <3>. QED  BY <3>2
    <2>5. \A i \in 0..(n + 1) : i = n + 1 \/ i \in 0..n
      OBVIOUS
    <2>6. \A i \in 0..(n + 1) : g[i] = step(g, i)
      BY <2>2, <2>3, <2>4, <2>5
    <2>7. Is(g, n + 1)
      BY <2>6
    <2> HIDE DEF Is, g
    <2>8. \E h : Is(h, n + 1)
      BY <2>7
    <2>. QED  BY <2>8
  <1>4. N \in S
    <2> HIDE DEF S
    <2>. QED  BY <1>2, <1>3, SetInduction
  <1>5. Is(acc, N)
    <2> HIDE DEF Is
    <2>. QED  BY <1>4
  <1>6. \A i \in 0..N : acc[i] = step(acc, i)
    BY <1>5
  <1> HIDE DEF acc
  <1>7. \A i \in 1..N : i \in 0..N /\ i # 0
    OBVIOUS
  <1>8. 0 \in 0..N
    OBVIOUS
  <1>9. acc[0] = z /\ \A i \in 1..N : acc[i] = ScanStep(acc[i - 1], s[i])
    BY <1>6, <1>7, <1>8
  <1>. QED  BY <1>1, <1>9 DEF z

\* So is it permuted,

LEMMA ScanAppend ==
    ASSUME NEW X, NEW s \in Seq(X), NEW w \in X
    PROVE  Scan(Append(s, w)) = ScanStep(Scan(s), w)
  <1> DEFINE n == Len(s)
             t == Append(s, w)
  <1>1. /\ n \in Nat /\ Len(t) = n + 1 /\ t[n + 1] = w
        /\ \A i \in 1..n : t[i] = s[i]
    OBVIOUS
  <1> HIDE DEF n, t
  <1>2. PICK a : /\ a[0] = Unscanned(<<>>)
                 /\ \A i \in 1..n : a[i] = ScanStep(a[i - 1], s[i])
                 /\ Scan(s) = a[n]
    BY <1>1, ScanUnfolds DEF n
  <1>3. Len(t) \in Nat
    BY <1>1
  <1>4. PICK b : /\ b[0] = Unscanned(<<>>)
                 /\ \A i \in 1..Len(t) : b[i] = ScanStep(b[i - 1], t[i])
                 /\ Scan(t) = b[Len(t)]
    BY <1>3, ScanUnfolds
  <1> DEFINE S == {k \in Nat : k <= n => a[k] = b[k]}
  <1>5. 0 \in S
    BY <1>2, <1>4
  <1>6. ASSUME NEW k \in Nat, k \in S PROVE k + 1 \in S
    <2>1. SUFFICES ASSUME k + 1 <= n PROVE a[k + 1] = b[k + 1]
      OBVIOUS
    <2>2. /\ k <= n /\ k + 1 \in 1..n /\ k + 1 \in 1..Len(t) /\ (k + 1) - 1 = k
      BY <1>1, <2>1
    <2>3. a[k] = b[k] /\ t[k + 1] = s[k + 1]
      BY <1>1, <1>6, <2>2
    <2>. QED  BY <1>2, <1>4, <2>2, <2>3
  <1>7. n \in S
    <2> HIDE DEF S
    <2>1. n \in Nat
      BY <1>1
    <2>. QED  BY <2>1, <1>5, <1>6, SetInduction
  <1>8. a[n] = b[n] /\ n + 1 \in 1..Len(t) /\ (n + 1) - 1 = n
    BY <1>1, <1>7
  <1>9. b[n + 1] = ScanStep(b[n], w)
    BY <1>1, <1>4, <1>8
  <1>. QED  BY <1>1, <1>2, <1>4, <1>8, <1>9 DEF t

LEMMA ScanNothing == Scan(<<>>) = Unscanned(<<>>)
  <1> DEFINE s == <<>>
  <1>1. Len(s) = 0
    OBVIOUS
  <1> HIDE DEF s
  <1>2. Scan(s) = Unscanned(<<>>)
    BY <1>1, ScanUnfolds
  <1>. QED  BY <1>2 DEF s

LEMMA Single ==
    ASSUME NEW X, NEW x \in X
    PROVE  <<x>> \in Seq(X)
  OBVIOUS

LEMMA Double ==
    ASSUME NEW X, NEW x \in X, NEW y \in X
    PROVE  <<x, y>> \in Seq(X) /\ Len(<<x, y>>) = 2 /\ <<x, y>>[1] = x /\ <<x, y>>[2] = y
  OBVIOUS

LEMMA SeqAsFunction ==
    ASSUME NEW X, NEW s \in Seq(X)
    PROVE  s = [i \in 1..Len(s) |-> s[i]] /\ \A i \in DOMAIN s : s[i] \in X
  OBVIOUS

LEMMA ConcatOne ==
    ASSUME NEW X, NEW s \in Seq(X), NEW q \in Seq(X), NEW x \in X
    PROVE  s \o Append(q, x) = Append(s \o q, x)
  <1>1. Append(q, x) = q \o <<x>> /\ <<x>> \in Seq(X)
    BY AppendIsConcat
  <1>2. s \o q \in Seq(X)
    BY ConcatProperties
  <1>3. Append(s \o q, x) = (s \o q) \o <<x>>
    BY <1>2, AppendIsConcat
  <1>4. (s \o q) \o <<x>> = s \o (q \o <<x>>)
    BY <1>1, ConcatAssociative
  <1>. QED  BY <1>1, <1>3, <1>4

\* White space ends a word, and a piece that is no mark begins one or goes on with it.
LEMMA WhiteCuts ==
    ASSUME NEW z, Outside(z)
    PROVE  ScanStep(z, " ") = Unscanned(Cut(z))
  BY DEF Outside, ScanStep, ScanBare, White, Quotes, Unscanned

LEMMA UnscannedParts ==
    ASSUME NEW out
    PROVE  /\ Outside(Unscanned(out)) /\ Unscanned(out).out = out
           /\ Unscanned(out).cur = <<>>
  BY DEF Outside, Unscanned, Scanned

LEMMA InWordParts ==
    ASSUME NEW out, NEW cur
    PROVE  /\ Outside(InWord(out, cur)) /\ InWord(out, cur).out = out
           /\ InWord(out, cur).cur = cur
           /\ Cut(InWord(out, cur)) = Append(out, Joined(cur))
  BY DEF Outside, InWord, Scanned, Cut

LEMMA PieceBegins ==
    ASSUME NEW out, NEW x, x \notin White \cup Quotes
    PROVE  ScanStep(Unscanned(out), x) = InWord(out, <<x>>)
  <1> DEFINE z == Unscanned(out)
  <1>1. z.out = out /\ z.cur = <<>> /\ z.quote = "" /\ z.escaped = FALSE
    BY DEF Unscanned, Scanned
  <1> HIDE DEF z
  <1>2. ScanStep(z, x) = Scanned(z.out, Append(z.cur, x), z.quote, TRUE, FALSE)
    BY <1>1 DEF ScanStep, ScanBare, TakePiece
  <1>3. Append(<<>>, x) = <<x>>
    OBVIOUS
  <1>. QED  BY <1>1, <1>2, <1>3 DEF InWord, z

LEMMA PieceTaken ==
    ASSUME NEW out, NEW cur, NEW x, x \notin White \cup Quotes
    PROVE  ScanStep(InWord(out, cur), x) = InWord(out, Append(cur, x))
  <1> DEFINE z == InWord(out, cur)
  <1>1. z.out = out /\ z.cur = cur /\ z.quote = "" /\ z.escaped = FALSE
    BY DEF InWord, Scanned
  <1> HIDE DEF z
  <1>2. ScanStep(z, x) = Scanned(z.out, Append(z.cur, x), z.quote, TRUE, FALSE)
    BY <1>1 DEF ScanStep, ScanBare, TakePiece
  <1>. QED  BY <1>1, <1>2 DEF InWord, z

LEMMA BarePieces ==
    ASSUME NEW out, NEW s \in Seq(Piece), Scan(s) = Unscanned(out),
           NEW q \in Seq(Piece \ (White \cup Quotes)), q # <<>>
    PROVE  Scan(s \o q) = InWord(out, q)
  <1> DEFINE P == Piece \ (White \cup Quotes)
             S == {w \in Seq(P) : w # <<>> => Scan(s \o w) = InWord(out, w)}
  <1>1. <<>> \in S
    BY EmptySeq
  <1>2. ASSUME NEW w \in Seq(P), NEW x \in P, w \in S
        PROVE  Append(w, x) \in S
    <2>1. x \in Piece /\ x \notin White \cup Quotes /\ w \in Seq(Piece)
      BY <1>2, SeqMonotonic
    <2>2. s \o Append(w, x) = Append(s \o w, x) /\ s \o w \in Seq(Piece)
      BY <2>1, ConcatOne, ConcatProperties
    <2>3. Scan(s \o Append(w, x)) = ScanStep(Scan(s \o w), x)
      BY <2>1, <2>2, ScanAppend
    <2>4. CASE w = <<>>
      <3>1. s \o w = s
        BY <2>4, ConcatEmptySeq
      <3>2. ScanStep(Scan(s), x) = InWord(out, <<x>>)
        BY <2>1, PieceBegins
      <3>3. Append(w, x) = <<x>>
        BY <2>4
      <3>. QED  BY <2>3, <3>1, <3>2, <3>3, <1>2
    <2>5. CASE w # <<>>
      <3>1. Scan(s \o w) = InWord(out, w)
        BY <1>2, <2>5
      <3>2. ScanStep(InWord(out, w), x) = InWord(out, Append(w, x))
        BY <2>1, PieceTaken
      <3>. QED  BY <2>3, <3>1, <3>2, <1>2
    <2>. QED  BY <2>4, <2>5
  <1>3. Seq(P) \subseteq S
    <2> HIDE DEF S, P
    <2>. QED  BY <1>1, <1>2, SeqInduction
  <1>. QED  BY <1>3

\* In quotes, a piece is taken back out of what it was escaped as.
LEMMA EscapedRead ==
    ASSUME NEW out, NEW cur, NEW s \in Seq(Piece), Scan(s) = InQuotes(out, cur),
           NEW x \in Piece, x # "\t"
    PROVE  /\ Escaped(x) \in Seq(Piece)
           /\ Scan(s \o Escaped(x)) = InQuotes(out, Append(cur, x))
  <1> DEFINE z == InQuotes(out, cur)
             waiting == Scanned(out, cur, "\"", TRUE, TRUE)
  <1>1. "\\" \in Piece
    BY DEF Piece
  <1>2. CASE x \in {"\"", "\\"}
    <2> DEFINE e == <<"\\", x>>
    <2>1. Escaped(x) = e
      BY <1>2 DEF Escaped
    <2>2. e \in Seq(Piece) /\ Len(e) = 2 /\ e[1] = "\\" /\ e[2] = x
      BY <1>1
    <2> HIDE DEF e
    <2> DEFINE s1 == Append(s, "\\")
    <2>3. s \o e = Append(s1, x) /\ s1 \in Seq(Piece)
      BY <1>1, <2>2, TwoMore
    <2>4. Scan(s1) = ScanStep(z, "\\")
      BY <1>1, ScanAppend
    <2>5. ScanStep(z, "\\") = waiting
      BY DEF InQuotes, Scanned, ScanStep, ScanQuoted
    <2> HIDE DEF s1
    <2>6. Scan(Append(s1, x)) = ScanStep(waiting, x)
      BY <2>3, <2>4, <2>5, ScanAppend
    <2>7. ScanStep(waiting, x) = InQuotes(out, Append(cur, x))
      BY DEF Scanned, ScanStep, TakePiece, InQuotes
    <2>. QED  BY <2>1, <2>2, <2>3, <2>6, <2>7
  <1>3. CASE x \notin {"\"", "\\"}
    <2>1. Escaped(x) = <<x>>
      BY <1>3 DEF Escaped
    <2>2. <<x>> \in Seq(Piece) /\ s \o <<x>> = Append(s, x)
      BY AppendIsConcat
    <2>3. Scan(Append(s, x)) = ScanStep(z, x)
      BY ScanAppend
    <2>4. ScanStep(z, x) = InQuotes(out, Append(cur, x))
      BY <1>3 DEF InQuotes, Scanned, ScanStep, ScanQuoted, TakePiece
    <2>. QED  BY <2>1, <2>2, <2>3, <2>4
  <1>. QED  BY <1>2, <1>3

LEMMA PrefixMore ==
    ASSUME NEW X, NEW q \in Seq(X), NEW k \in Nat, k + 1 \in 1..Len(q)
    PROVE  /\ SubSeq(q, 1, k + 1) = Append(SubSeq(q, 1, k), q[k + 1])
           /\ q[k + 1] \in X
  <1>1. q[k + 1] \in X
    OBVIOUS
  <1> DEFINE a == SubSeq(q, 1, k + 1)
             b == Append(SubSeq(q, 1, k), q[k + 1])
  <1>2. /\ a \in Seq(X) /\ Len(a) = k + 1 /\ \A i \in 1..(k + 1) : a[i] = q[i]
    OBVIOUS
  <1>3. /\ SubSeq(q, 1, k) \in Seq(X) /\ Len(SubSeq(q, 1, k)) = k
        /\ \A i \in 1..k : SubSeq(q, 1, k)[i] = q[i]
    OBVIOUS
  <1>4. /\ b \in Seq(X) /\ Len(b) = k + 1 /\ \A i \in 1..(k + 1) : b[i] = q[i]
    BY <1>1, <1>3
  <1> HIDE DEF a, b
  <1>5. a = b
    BY <1>2, <1>4, SeqEqual
  <1>. QED  BY <1>1, <1>5 DEF a, b

LEMMA EscapedPieces ==
    ASSUME NEW out, NEW s \in Seq(Piece), Scan(s) = InQuotes(out, <<>>),
           NEW q \in Seq(Piece), "\t" \notin ToSet(q)
    PROVE  LET e == FlattenSeq([i \in DOMAIN q |-> Escaped(q[i])])
           IN  e \in Seq(Piece) /\ Scan(s \o e) = InQuotes(out, q)
  <1> DEFINE N == Len(q)
             es == [i \in DOMAIN q |-> Escaped(q[i])]
             Good(k, w) == Scan(s \o w) = InQuotes(out, SubSeq(q, 1, k))
             G == {g \in Nat \X Seq(Piece) : Good(g[1], g[2])}
  <1>1. N \in Nat /\ DOMAIN q = 1..N /\ \A i \in 1..N : q[i] \in Piece /\ q[i] # "\t"
    <2>1. N \in Nat /\ DOMAIN q = 1..N
      BY LenProperties
    <2>. QED  BY <2>1 DEF ToSet
  <1>2. es \in Seq(Seq(Piece)) /\ Len(es) = N /\ \A i \in 1..N : es[i] = Escaped(q[i])
    <2>1. ASSUME NEW i \in 1..N PROVE Escaped(q[i]) \in Seq(Piece)
      <3>1. "\\" \in Piece /\ q[i] \in Piece /\ q[i] # "\t"
        BY <1>1 DEF Piece
      <3> DEFINE x == q[i]
                 b == "\\"
      <3>2. Escaped(x) = <<b, x>> \/ Escaped(x) = <<x>>
        BY <3>1 DEF Escaped
      <3> HIDE DEF x, b
      <3>3. <<b, x>> \in Seq(Piece) /\ <<x>> \in Seq(Piece)
        BY <3>1, Single, Double DEF x, b
      <3>. QED  BY <3>2, <3>3 DEF x
    <2>2. es = [i \in 1..N |-> Escaped(q[i])]
      BY <1>1
    <2>3. es \in [1..N -> Seq(Piece)]
      BY <2>1, <2>2
    <2> HIDE DEF es, N
    <2>4. es \in Seq(Seq(Piece)) /\ Len(es) = N
      BY <1>1, <2>3, AsSequence
    <2>. QED  BY <2>2, <2>4
  <1>3. <<0, <<>> >> \in G
    <2>1. SubSeq(q, 1, 0) = <<>>
      OBVIOUS
    <2>2. s \o <<>> = s
      BY ConcatEmptySeq
    <2>3. Good(0, <<>>)
      BY <2>1, <2>2
    <2>4. <<>> \in Seq(Piece)
      BY EmptySeq
    <2> HIDE DEF Good
    <2>. QED  BY <2>3, <2>4
  <1>4. ASSUME NEW k \in Nat, NEW w \in Seq(Piece), k + 1 \in 1..N, <<k, w>> \in G
        PROVE  <<k + 1, w \o es[k + 1]>> \in G
    <2> DEFINE x == q[k + 1]
               e == Escaped(x)
               cur == SubSeq(q, 1, k)
               w1 == w \o es[k + 1]
    <2>1. x \in Piece /\ x # "\t" /\ es[k + 1] = e
      BY <1>1, <1>2, <1>4
    <2>2. Good(k, w)
      <3> HIDE DEF Good
      <3>. QED  BY <1>4
    <2>3. s \o w \in Seq(Piece) /\ Scan(s \o w) = InQuotes(out, cur)
      BY <2>2, ConcatProperties
    <2>4. SubSeq(q, 1, k + 1) = Append(cur, x)
      BY <1>4, PrefixMore
    <2> HIDE DEF x, cur, es
    <2>5. e \in Seq(Piece) /\ Scan((s \o w) \o e) = InQuotes(out, Append(cur, x))
      BY <2>1, <2>3, EscapedRead
    <2> HIDE DEF e
    <2>6. w1 \in Seq(Piece) /\ s \o w1 = (s \o w) \o e
      BY <2>1, <2>5, ConcatAssociative, ConcatProperties
    <2> HIDE DEF w1
    <2>7. Good(k + 1, w1)
      BY <2>4, <2>5, <2>6
    <2> HIDE DEF Good
    <2> DEFINE g == <<k + 1, w1>>
    <2>8. g \in Nat \X Seq(Piece) /\ g[1] = k + 1 /\ g[2] = w1
      BY <2>6, PairUp, Zenon
    <2> HIDE DEF g
    <2>9. g \in G
      BY <2>7, <2>8
    <2>. QED  BY <2>9 DEF g, w1
  <1>5. FlattenSeq(es) \in Seq(Piece) /\ <<N, FlattenSeq(es)>> \in G
    <2> HIDE DEF es, N, G
    <2>. QED  BY <1>2, <1>3, <1>4, FlattenReaches
  <1>6. Good(N, FlattenSeq(es))
    <2> HIDE DEF es, N, Good
    <2>. QED  BY <1>5
  <1>7. SubSeq(q, 1, N) = q
    OBVIOUS
  <1>. QED  BY <1>5, <1>6, <1>7

\* So a value is one word again, as it was.
LEMMA SpeltReads ==
    ASSUME NEW out, NEW s \in Seq(Piece), Scan(s) = Unscanned(out),
           NEW v \in DOMAIN Spelling, CarriesOver(v)
    PROVE  /\ Spelt(v) \in Seq(Piece)
           /\ Scan(s \o Spelt(v)) = InWord(out, Spelling[v])
  <1> DEFINE q == Spelling[v]
             Q == ToSet(q)
  <1>1. q \in Seq(Q) /\ q # <<>>
    BY CommandLineAssumption
  <1>2. Q \subseteq Piece
    BY DEF Piece
  <1>3. q \in Seq(Piece)
    BY <1>1, <1>2, SeqMonotonic
  <1>4. CASE ~HasWhite(v)
    <2>1. Q \cap (White \cup Quotes) = {}
      BY <1>4 DEF HasWhite, CarriesOver
    <2>2. Q \subseteq Piece \ (White \cup Quotes)
      BY <1>2, <2>1
    <2>3. q \in Seq(Piece \ (White \cup Quotes))
      BY <1>1, <2>2, SeqMonotonic
    <2>4. Spelt(v) = q
      BY <1>4 DEF Spelt
    <2> HIDE DEF q
    <2>. QED  BY <1>1, <1>3, <2>3, <2>4, BarePieces DEF q
  <1>5. CASE HasWhite(v)
    <2> DEFINE m == "\""
               e == FlattenSeq([i \in DOMAIN q |-> Escaped(q[i])])
               s1 == Append(s, m)
    <2>1. "\t" \notin Q
      BY <1>5 DEF CarriesOver
    <2>2. Spelt(v) = <<m>> \o e \o <<m>>
      BY <1>5 DEF Spelt
    <2>20. m \in Piece
      BY DEF Piece
    <2> HIDE DEF m
    <2>3. m \in Piece /\ <<m>> \in Seq(Piece)
      BY <2>20, Single
    <2>4. s1 \in Seq(Piece) /\ s1 = s \o <<m>>
      BY <2>3, AppendIsConcat
    <2>5. Scan(s1) = InQuotes(out, <<>>)
      <3>1. Scan(s1) = ScanStep(Unscanned(out), m)
        BY <2>3, ScanAppend
      <3>2. ScanStep(Unscanned(out), "\"") = InQuotes(out, <<>>)
        BY DEF Unscanned, Scanned, ScanStep, ScanBare, Quotes, InQuotes
      <3>. QED  BY <3>1, <3>2 DEF m
    <2> HIDE DEF q, s1
    <2>6. e \in Seq(Piece) /\ Scan(s1 \o e) = InQuotes(out, q)
      BY <1>3, <2>1, <2>4, <2>5, EscapedPieces
    <2> HIDE DEF e
    <2>7. <<m>> \o e \in Seq(Piece) /\ (<<m>> \o e) \o <<m>> \in Seq(Piece)
      BY <2>3, <2>6, ConcatProperties
    <2>8. s \o Spelt(v) = Append(s1 \o e, m)
      <3>1. s \o ((<<m>> \o e) \o <<m>>) = (s \o (<<m>> \o e)) \o <<m>>
        BY <2>3, <2>7, ConcatAssociative
      <3>2. s \o (<<m>> \o e) = s1 \o e
        BY <2>3, <2>4, <2>6, ConcatAssociative
      <3>3. s1 \o e \in Seq(Piece)
        BY <2>4, <2>6, ConcatProperties
      <3>4. (s1 \o e) \o <<m>> = Append(s1 \o e, m)
        BY <2>3, <3>3, AppendIsConcat
      <3>. QED  BY <2>2, <3>1, <3>2, <3>4
    <2>9. Scan(Append(s1 \o e, m)) = ScanStep(InQuotes(out, q), m)
      <3>1. s1 \o e \in Seq(Piece)
        BY <2>4, <2>6, ConcatProperties
      <3>. QED  BY <2>3, <2>6, <3>1, ScanAppend
    <2>10. ScanStep(InQuotes(out, q), "\"") = InWord(out, q)
      BY DEF InQuotes, Scanned, ScanStep, ScanQuoted, InWord
    <2>11. Scan(s \o Spelt(v)) = InWord(out, q) /\ Spelt(v) \in Seq(Piece)
      BY <2>2, <2>7, <2>8, <2>9, <2>10 DEF m
    <2>. QED  BY <2>11 DEF q
  <1>. QED  BY <1>4, <1>5

\* And a copied field is the two words it was made of.
LEMMA FieldScans ==
    ASSUME command \in Commands, NEW f \in FilledFlags,
           form[f.name] \in DOMAIN Spelling, CarriesOver(form[f.name]),
           NEW s \in Seq(Piece), Outside(Scan(s))
    PROVE  /\ s \o CopiedField(f) \in Seq(Piece)
           /\ Outside(Scan(s \o CopiedField(f)))
           /\ Cut(Scan(s \o CopiedField(f))) =
                 Append(Append(Cut(Scan(s)), "--" \o f.name), form[f.name])
  <1> DEFINE v == form[f.name]
             m == " "
             n == "--" \o f.name
             h == <<m, n, m>>
             out == Cut(Scan(s))
             s1 == Append(s, m)
             s2 == Append(s1, n)
             s3 == Append(s2, m)
             end == Append(out, n)
  <1>1. f \in ToSet(command) /\ v # ""
    BY DEF FilledFlags
  <1>2. n \notin White \cup Quotes /\ Joined(<<n>>) = n
    BY <1>1, CommandLineAssumption
  <1>3. m \in Piece /\ n \in Piece
    BY <1>1 DEF Piece
  <1>4. CopiedField(f) = h \o Spelt(v)
    BY <1>1 DEF CopiedField
  <1> HIDE DEF m, n, v
  <1>5. s1 \in Seq(Piece) /\ s2 \in Seq(Piece) /\ s3 \in Seq(Piece) /\ h \in Seq(Piece)
    BY <1>3
  <1>6. s \o h = s3
    <2>1. h = Append(Append(Append(<<>>, m), n), m)
      OBVIOUS
    <2>2. <<>> \in Seq(Piece) /\ s \o <<>> = s
      BY EmptySeq, ConcatEmptySeq
    <2>3. s \o Append(<<>>, m) = Append(s, m)
      BY <1>3, <2>2, ConcatOne
    <2>4. Append(<<>>, m) \in Seq(Piece)
      BY <1>3, <2>2, OneMore
    <2>5. s \o Append(Append(<<>>, m), n) = s2
      BY <1>3, <2>3, <2>4, ConcatOne
    <2>6. Append(Append(<<>>, m), n) \in Seq(Piece)
      BY <1>3, <2>4, OneMore
    <2>7. s \o Append(Append(Append(<<>>, m), n), m) = s3
      BY <1>3, <2>5, <2>6, ConcatOne
    <2>. QED  BY <2>1, <2>7
  <1>7. Scan(s1) = Unscanned(out)
    <2>1. Scan(s1) = ScanStep(Scan(s), m)
      BY <1>3, ScanAppend
    <2>. QED  BY <2>1, WhiteCuts DEF m
  <1> HIDE DEF out
  <1>8. Scan(s2) = InWord(out, <<n>>)
    <2>1. Scan(s2) = ScanStep(Scan(s1), n)
      BY <1>3, <1>5, ScanAppend
    <2>2. ScanStep(Unscanned(out), n) = InWord(out, <<n>>)
      BY <1>2, PieceBegins
    <2>. QED  BY <1>7, <2>1, <2>2
  <1>9. Scan(s3) = Unscanned(end)
    <2>1. Scan(s3) = ScanStep(Scan(s2), m)
      BY <1>3, <1>5, ScanAppend
    <2>2. Outside(InWord(out, <<n>>)) /\ Cut(InWord(out, <<n>>)) = end
      BY <1>2, InWordParts
    <2>. QED  BY <1>8, <2>1, <2>2, WhiteCuts DEF m
  <1> HIDE DEF s3, end
  <1>10. Spelt(v) \in Seq(Piece) /\ Scan(s3 \o Spelt(v)) = InWord(end, Spelling[v])
    BY <1>5, <1>9, SpeltReads DEF v
  <1>11. s \o CopiedField(f) = s3 \o Spelt(v)
    <2> DEFINE w == Spelt(v)
    <2>1. w \in Seq(Piece) /\ CopiedField(f) = h \o w
      BY <1>4, <1>10
    <2> HIDE DEF h, w
    <2>2. (s \o h) \o w = s \o (h \o w)
      BY <1>5, <2>1, ConcatAssociative
    <2>. QED  BY <1>6, <2>1, <2>2 DEF w
  <1>12. s3 \o Spelt(v) \in Seq(Piece)
    BY <1>5, <1>10, ConcatProperties
  <1>13. Joined(Spelling[v]) = v
    BY CommandLineAssumption DEF v
  <1>14. Outside(InWord(end, Spelling[v])) /\ Cut(InWord(end, Spelling[v])) = Append(end, v)
    BY <1>13, InWordParts
  <1>. QED  BY <1>10, <1>11, <1>12, <1>14 DEF end, n, v, out

LEMMA WordRead ==
    ASSUME NEW text
    PROVE  WordOf(text).text = text
  <1>1. Plain(text).text = text
    BY DEF Plain
  <1>. QED  BY <1>1 DEF WordOf

LEMMA CopyWordRead ==
    ASSUME command \in Commands, NEW w \in CopyWord
    PROVE  WordOf(w.text) = w
  <1>1. CASE \E f \in FilledFlags : w = Shown(f)
    <2>1. w \in ShownFlags
      BY <1>1 DEF FilledFlags, ShownFlags
    <2>2. \A u, x \in Words \cup ShownFlags : u.text = x.text => u = x
      BY CommandLineAssumption
    <2>. QED  BY <2>1, <2>2 DEF WordOf
  <1>2. CASE \E f \in FilledFlags : w = WordOf(form[f.name])
    BY <1>2, WordRead
  <1>. QED  BY <1>1, <1>2 DEF CopyWord

\* The word a flag is copied with is known and names that flag only.
LEMMA CopiedFlag ==
    ASSUME command \in Commands, NEW f \in ToSet(command), f.kind # "bool"
    PROVE  LET w == Shown(f)
           IN  w.name # "" /\ IsKnown(w) /\ FlagOf(w) = f /\ TakesNext(w)
  <1> DEFINE w == Shown(f)
  <1>1. w.name = f.name /\ w.inline = FALSE
    BY DEF Shown, FlagWord, Plain
  <1> HIDE DEF w
  <1>2. f.name # ""
    BY CommandLineAssumption
  <1>3. FlagsNamed(w) = {f}
    <2>1. ASSUME NEW g \in ToSet(command), f.name \in {g.name, g.short} PROVE g = f
      <3>1. PICK i \in DOMAIN command : command[i] = f
        BY DEF ToSet
      <3>2. PICK j \in DOMAIN command : command[j] = g
        BY DEF ToSet
      <3>3. CASE i # j
        <4>1. {command[i].name, command[i].short} \cap {command[j].name, command[j].short}
                 \subseteq {""}
          BY <3>3, CommandLineAssumption
        <4>. QED  BY <1>2, <2>1, <3>1, <3>2, <4>1
      <3>. QED  BY <3>1, <3>2, <3>3
    <2>2. f \in FlagsNamed(w)
      BY <1>1, <1>2 DEF FlagsNamed
    <2>3. \A g \in FlagsNamed(w) : g = f
      BY <1>1, <2>1 DEF FlagsNamed
    <2>. QED  BY <2>2, <2>3
  <1>4. IsKnown(w) /\ FlagOf(w) = f
    BY <1>3 DEF IsKnown, FlagOf
  <1>5. TakesNext(w)
    BY <1>1, <1>4 DEF TakesNext
  <1>. QED  BY <1>1, <1>2, <1>4, <1>5 DEF w

\* Read after words that left v, the words of a copied field leave its value there.
LEMMA FieldReads ==
    ASSUME command \in Commands, NEW f \in FilledFlags, f.kind # "bool",
           NEW s \in Seq(CopyWord), NEW v, Reads(ReadWords("terminal", s), v, <<>>, "")
    PROVE  LET w == Append(Append(s, Shown(f)), WordOf(form[f.name]))
           IN  /\ w \in Seq(CopyWord)
               /\ Reads(ReadWords("terminal", w), With(v, f.name, form[f.name]), <<>>, "")
  <1> DEFINE a == Shown(f)
             b == WordOf(form[f.name])
             s1 == Append(s, a)
             s2 == Append(s1, b)
             t == ReadWords("terminal", s)
             t1 == ReadStep("terminal", t, a)
             t2 == ReadStep("terminal", t1, b)
  <1>1. a \in CopyWord /\ b \in CopyWord /\ f \in ToSet(command)
    BY DEF CopyWord, FilledFlags
  <1>2. a.name # "" /\ IsKnown(a) /\ FlagOf(a) = f /\ TakesNext(a)
    BY <1>1, CopiedFlag
  <1>3. b.text = form[f.name]
    BY WordRead
  <1>4. f.name # ""
    BY <1>1, CommandLineAssumption
  <1> HIDE DEF a, b
  <1>5. s1 \in Seq(CopyWord) /\ s2 \in Seq(CopyWord)
    BY <1>1, OneMore
  <1>6. ReadWords("terminal", s1) = t1 /\ ReadWords("terminal", s2) = t2
    <2>1. ReadWords("terminal", s1) = t1
      BY <1>1, ReadAppend
    <2> HIDE DEF s1
    <2>2. ReadWords("terminal", s2) = ReadStep("terminal", ReadWords("terminal", s1), b)
      BY <1>1, <1>5, ReadAppend
    <2>. QED  BY <2>1, <2>2
  <1> HIDE DEF t
  <1>7. Reads(t, v, <<>>, "")
    BY DEF t
  <1>8. Gets(v, a) = v /\ Opens(a) = f.name
    BY <1>2 DEF Gets, Opens
  <1>9. Reads(t1, v, <<>>, f.name)
    <2> DEFINE z == <<>>
    <2>1. Reads(t, v, z, "")
      BY <1>7
    <2> HIDE DEF z
    <2>2. Reads(t1, Gets(v, a), z, Opens(a))
      BY <1>2, <2>1, TypedTakes
    <2>. QED  BY <1>8, <2>2 DEF z
  <1> HIDE DEF t1
  <1>10. Reads(t2, With(v, f.name, b.text), <<>>, "")
    <2> DEFINE z == <<>>
    <2>1. Reads(t1, v, z, f.name)
      BY <1>9
    <2> HIDE DEF z
    <2>2. Reads(t2, With(v, f.name, b.text), z, "")
      BY <1>4, <2>1, ReadsValue
    <2>. QED  BY <2>2 DEF z
  <1> HIDE DEF t2, s1, s2
  <1>11. s2 \in Seq(CopyWord)
         /\ Reads(ReadWords("terminal", s2), With(v, f.name, form[f.name]), <<>>, "")
    BY <1>3, <1>5, <1>6, <1>10
  <1>. QED  BY <1>11 DEF s2, s1, a, b

\* The values of the first k fields.
Copied(k) ==
    [n \in FlagNames |-> IF n \in {command[j].name : j \in 1..k} THEN FormValues[n] ELSE <<>>]

LEMMA CopiedMore ==
    ASSUME command \in Commands, NEW k \in Nat, k + 1 \in 1..Len(command)
    PROVE  LET f == command[k + 1]
           IN  Copied(k + 1) = IF form[f.name] = "" THEN Copied(k)
                               ELSE With(Copied(k), f.name, form[f.name])
  <1> DEFINE f == command[k + 1]
             n == f.name
             N(i) == {command[j].name : j \in 1..i}
  <1>1. DOMAIN command = 1..Len(command) /\ Len(command) \in Nat
    <2>1. command \in Seq(ToSet(command))
      BY CommandLineAssumption
    <2>. QED  BY <2>1, LenProperties
  <1>2. n \in FlagNames
    BY <1>1 DEF FlagNames, ToSet
  <1>3. n \notin N(k)
    <2>1. SUFFICES ASSUME NEW j \in 1..k, command[j].name = n PROVE FALSE
      OBVIOUS
    <2>2. j \in DOMAIN command /\ k + 1 \in DOMAIN command /\ j # k + 1
      BY <1>1
    <2>3. {command[j].name, command[j].short} \cap {command[k + 1].name, command[k + 1].short}
             \subseteq {""}
      BY <2>2, CommandLineAssumption
    <2>4. n # ""
      <3>1. f \in ToSet(command)
        BY <1>1 DEF ToSet
      <3>. QED  BY <3>1, CommandLineAssumption
    <2>. QED  BY <2>1, <2>3, <2>4
  <1>4. N(k + 1) = N(k) \cup {n}
    <2>1. 1..(k + 1) = (1..k) \cup {k + 1}
      OBVIOUS
    <2>. QED  BY <2>1
  <1>5. FormValues[n] = IF form[n] = "" THEN <<>> ELSE <<form[n]>>
    BY <1>2 DEF FormValues
  <1> DEFINE C(i) == [m \in FlagNames |-> IF m \in N(i) THEN FormValues[m] ELSE <<>>]
  <1>6. Copied(k) = C(k) /\ Copied(k + 1) = C(k + 1)
    BY DEF Copied
  <1> HIDE DEF N, n
  <1>7. CASE form[n] = ""
    <2>1. C(k + 1) = C(k)
      BY <1>3, <1>4, <1>5, <1>7
    <2>. QED  BY <1>6, <1>7, <2>1 DEF n
  <1>8. CASE form[n] # ""
    <2>1. C(k)[n] = <<>>
      BY <1>2, <1>3
    <2>2. With(C(k), n, form[n]) = [C(k) EXCEPT ![n] = <<form[n]>>]
      BY <2>1, FirstValue
    <2>3. C(k + 1) = [C(k) EXCEPT ![n] = <<form[n]>>]
      BY <1>2, <1>4, <1>5, <1>8
    <2>. QED  BY <1>6, <1>8, <2>2, <2>3 DEF n
  <1>. QED  BY <1>7, <1>8

LEMMA CopiedNothing == Copied(0) = NoValues
  BY DEF Copied, NoValues

LEMMA CopiedAll ==
    ASSUME command \in Commands
    PROVE  Copied(Len(command)) = FormValues
  <1>1. command \in Seq(ToSet(command))
    BY CommandLineAssumption
  <1>2. DOMAIN command = 1..Len(command)
    BY <1>1, LenProperties
  <1>3. \A n \in FlagNames : n \in {command[j].name : j \in 1..Len(command)}
    BY <1>2 DEF FlagNames, ToSet
  <1>4. FormValues = [n \in FlagNames |-> FormValues[n]]
    BY DEF FormValues
  <1>. QED  BY <1>3, <1>4 DEF Copied

\* Every field that holds something can be copied.
Carried ==
    \A f \in FilledFlags : /\ f.kind # "bool" /\ form[f.name] \in DOMAIN Spelling
                           /\ CarriesOver(form[f.name])

LEMMA FieldPieces ==
    ASSUME command \in Commands, Carried, NEW f \in ToSet(command)
    PROVE  CopiedField(f) \in Seq(Piece)
  <1>1. <<>> \in Seq(Piece)
    BY EmptySeq
  <1>2. CASE form[f.name] = ""
    BY <1>1, <1>2 DEF CopiedField
  <1>3. CASE form[f.name] # ""
    <2>1. f \in FilledFlags
      BY <1>3 DEF FilledFlags
    <2> DEFINE v == form[f.name]
               n == "--" \o f.name
               m == " "
    <2>2. v \in DOMAIN Spelling /\ CarriesOver(v)
      BY <2>1 DEF Carried
    <2>3. Spelt(v) \in Seq(Piece)
      BY <1>1, <2>2, ScanNothing, SpeltReads
    <2>4. m \in Piece /\ n \in Piece
      BY DEF Piece
    <2>5. CopiedField(f) = <<m, n, m>> \o Spelt(v)
      BY <1>3 DEF CopiedField
    <2> HIDE DEF m, n
    <2>6. <<m, n, m>> \in Seq(Piece)
      BY <2>4
    <2>. QED  BY <2>3, <2>5, <2>6, ConcatProperties
  <1>. QED  BY <1>2, <1>3

\* The words a line is scanned as.
ScannedAs(pieces, w) == Outside(Scan(pieces)) /\ Cut(Scan(pieces)) = Texts(w)

LEMMA FieldScannedAs ==
    ASSUME command \in Commands, Carried, NEW f \in FilledFlags,
           NEW s \in Seq(Piece), NEW w \in Seq(CopyWord), ScannedAs(s, w)
    PROVE  ScannedAs(s \o CopiedField(f),
                     Append(Append(w, Shown(f)), WordOf(form[f.name])))
  <1> DEFINE a == Shown(f)
             b == WordOf(form[f.name])
             w1 == Append(w, a)
  <1>1. a \in CopyWord /\ b \in CopyWord
    BY DEF CopyWord
  <1>2. a.text = "--" \o f.name /\ b.text = form[f.name]
    BY WordRead DEF Shown, FlagWord, Plain
  <1>3. form[f.name] \in DOMAIN Spelling /\ CarriesOver(form[f.name])
    BY DEF Carried
  <1>4. /\ Outside(Scan(s \o CopiedField(f)))
        /\ Cut(Scan(s \o CopiedField(f))) =
              Append(Append(Texts(w), "--" \o f.name), form[f.name])
    BY <1>3, FieldScans DEF ScannedAs
  <1> HIDE DEF a, b
  <1>5. Texts(w1) = Append(Texts(w), a.text) /\ w1 \in Seq(CopyWord)
    BY <1>1, OneTextMore
  <1> HIDE DEF w1
  <1>6. Texts(Append(w1, b)) = Append(Texts(w1), b.text)
    BY <1>1, <1>5, OneTextMore
  <1>. QED  BY <1>2, <1>4, <1>5, <1>6 DEF ScannedAs, w1, a, b

LEMMA CopiedLineReads ==
    ASSUME command \in Commands, Carried
    PROVE  \E w \in Seq(CopyWord) : /\ ScannedAs(CopiedLine, w)
                                    /\ Reads(ReadWords("terminal", w), FormValues, <<>>, "")
  <1> DEFINE N == Len(command)
             s == [i \in DOMAIN command |-> CopiedField(command[i])]
  <1>1. N \in Nat /\ DOMAIN command = 1..N /\ \A i \in 1..N : command[i] \in ToSet(command)
    <2>1. command \in Seq(ToSet(command))
      BY CommandLineAssumption
    <2>2. N \in Nat /\ DOMAIN command = 1..N
      BY <2>1, LenProperties
    <2>. QED  BY <2>2 DEF ToSet
  <1>2. DOMAIN s = 1..N /\ \A i \in 1..N : s[i] = CopiedField(command[i])
    BY <1>1
  <1>3. CopiedLine = FlattenSeq(s)
    BY DEF CopiedLine
  <1>4. s \in Seq(Seq(Piece)) /\ Len(s) = N
    <2>1. ASSUME NEW i \in 1..N PROVE s[i] \in Seq(Piece)
      <3>1. command[i] \in ToSet(command)
        BY <1>1
      <3>2. CopiedField(command[i]) \in Seq(Piece)
        BY <3>1, FieldPieces
      <3>. QED  BY <1>2, <3>2
    <2>2. s = [i \in 1..N |-> s[i]]
      BY <1>1, <1>2
    <2> HIDE DEF s, N
    <2>3. s \in [1..N -> Seq(Piece)]
      BY <1>1, <2>1, <2>2
    <2>. QED  BY <1>1, <2>3, AsSequence
  <1> DEFINE Good(k, p) ==
                 \E w \in Seq(CopyWord) :
                     ScannedAs(p, w) /\ Reads(ReadWords("terminal", w), Copied(k), <<>>, "")
             G == {g \in Nat \X Seq(Piece) : Good(g[1], g[2])}
  <1>5. <<0, <<>> >> \in G
    <2>1. ReadWords("terminal", <<>>) = Start
      BY ReadNothing
    <2>2. Reads(Start, Copied(0), <<>>, "")
      BY CopiedNothing DEF Start, Reads
    <2>3. <<>> \in Seq(CopyWord) /\ <<>> \in Seq(Piece)
      BY EmptySeq
    <2>4. ScannedAs(<<>>, <<>>)
      <3>1. Cut(Unscanned(<<>>)) = <<>>
        BY DEF Cut, Unscanned, Scanned
      <3>. QED  BY <3>1, ScanNothing, UnscannedParts, TextsOfNothing DEF ScannedAs
    <2>5. Good(0, <<>>)
      BY <2>1, <2>2, <2>3, <2>4
    <2> HIDE DEF Good
    <2>. QED  BY <2>3, <2>5
  <1>6. ASSUME NEW k \in Nat, NEW p \in Seq(Piece), k + 1 \in 1..N, <<k, p>> \in G
        PROVE  <<k + 1, p \o s[k + 1]>> \in G
    <2> DEFINE f == command[k + 1]
               p1 == p \o s[k + 1]
    <2>1. f \in ToSet(command)
      BY <1>1, <1>6
    <2>2. Copied(k + 1) = IF form[f.name] = "" THEN Copied(k)
                          ELSE With(Copied(k), f.name, form[f.name])
      BY <1>6, CopiedMore
    <2>3. s[k + 1] = CopiedField(f)
      BY <1>2, <1>6
    <2>4. Good(k, p)
      <3> HIDE DEF Good
      <3>. QED  BY <1>6
    <2>5. PICK w \in Seq(CopyWord) :
              ScannedAs(p, w) /\ Reads(ReadWords("terminal", w), Copied(k), <<>>, "")
      BY <2>4
    <2> HIDE DEF f, s
    <2>6. p1 \in Seq(Piece)
      BY <2>1, <2>3, FieldPieces, ConcatProperties
    <2>7. Good(k + 1, p1)
      <3>1. CASE form[f.name] = ""
        <4>1. CopiedField(f) = <<>>
          BY <3>1 DEF CopiedField
        <4>2. p1 = p
          BY <2>3, <4>1, ConcatEmptySeq
        <4>. QED  BY <2>2, <2>5, <3>1, <4>2
      <3>2. CASE form[f.name] # ""
        <4> DEFINE x == Append(Append(w, Shown(f)), WordOf(form[f.name]))
        <4>1. f \in FilledFlags
          BY <2>1, <3>2 DEF FilledFlags
        <4>2. f.kind # "bool"
          BY <4>1 DEF Carried
        <4>3. /\ x \in Seq(CopyWord)
              /\ Reads(ReadWords("terminal", x), With(Copied(k), f.name, form[f.name]),
                       <<>>, "")
          BY <2>5, <4>1, <4>2, FieldReads
        <4>4. ScannedAs(p \o CopiedField(f), x)
          BY <2>5, <4>1, FieldScannedAs
        <4> HIDE DEF x
        <4>. QED  BY <2>2, <2>3, <3>2, <4>3, <4>4
      <3>. QED  BY <3>1, <3>2
    <2> HIDE DEF Good, p1
    <2> DEFINE g == <<k + 1, p1>>
    <2>8. g \in Nat \X Seq(Piece) /\ g[1] = k + 1 /\ g[2] = p1
      BY <2>6, PairUp, Zenon
    <2> HIDE DEF g
    <2>9. g \in G
      BY <2>7, <2>8
    <2>. QED  BY <2>9 DEF g, p1
  <1>7. FlattenSeq(s) \in Seq(Piece) /\ <<N, FlattenSeq(s)>> \in G
    <2> HIDE DEF s, N, G
    <2>. QED  BY <1>4, <1>5, <1>6, FlattenReaches
  <1>8. Good(N, FlattenSeq(s))
    <2> HIDE DEF s, N, Good
    <2>. QED  BY <1>7
  <1> HIDE DEF s
  <1>. QED  BY <1>3, <1>8, CopiedAll

\* The line copied from a form, put into the terminal and cut into words there, makes
\* the form's request (inspector.ts:48).
THEOREM CopiedLineIsTheForm == CliSpec => []CopiedLineAgrees
  <1>1. ASSUME CliTypeOK PROVE CopiedLineAgrees
    <2>1. SUFFICES ASSUME Copyable PROVE Pasted(CopiedLine) = FormRequest
      BY DEF CopiedLineAgrees
    <2>2. command \in Commands
      BY <1>1 DEF CliTypeOK
    <2>3. Carried
      <3>1. SUFFICES ASSUME NEW f \in FilledFlags
                     PROVE  /\ f.kind # "bool" /\ form[f.name] \in DOMAIN Spelling
                            /\ CarriesOver(form[f.name])
        BY DEF Carried
      <3>2. f \in ToSet(command) /\ form[f.name] # "" /\ f.name \in FlagNames
        BY DEF FilledFlags, FlagNames
      <3>. QED  BY <1>1, <2>1, <3>2 DEF Copyable, CliTypeOK
    <2>4. PICK w \in Seq(CopyWord) : /\ ScannedAs(CopiedLine, w)
                                     /\ Reads(ReadWords("terminal", w), FormValues, <<>>, "")
      BY <2>2, <2>3, CopiedLineReads
    <2>5. \A i \in DOMAIN w : ~IsHelp(w[i])
      <3>1. SUFFICES ASSUME NEW x \in CopyWord PROVE ~IsHelp(x)
        BY SeqAsFunction
      <3>2. CASE \E f \in FilledFlags : x = Shown(f)
        BY <2>1, <3>2 DEF Copyable, FilledFlags
      <3>3. CASE \E f \in FilledFlags : x = WordOf(form[f.name])
        <4>1. PICK f \in FilledFlags : x = WordOf(form[f.name])
          BY <3>3
        <4>2. x.text = form[f.name] /\ Plain(form[f.name]).text = form[f.name]
          BY <4>1, WordRead DEF Plain
        <4>3. ~IsHelp(Plain(form[f.name]))
          BY <2>1, <4>1 DEF Copyable, FilledFlags
        <4>. QED  BY <4>2, <4>3 DEF IsHelp
      <3>. QED  BY <3>2, <3>3 DEF CopyWord
    <2>6. Pasted(CopiedLine) = Typed(w)
      <3> DEFINE texts == Cut(Scan(CopiedLine))
                 words == [i \in DOMAIN texts |-> WordOf(texts[i])]
      <3>1. texts = Texts(w) /\ Scan(CopiedLine).quote = ""
        BY <2>4 DEF ScannedAs, Outside
      <3>2. Len(w) \in Nat /\ DOMAIN w = 1..Len(w) /\ \A i \in 1..Len(w) : w[i] \in CopyWord
        BY <2>4, LenProperties
      <3>3. DOMAIN texts = 1..Len(w) /\ \A i \in 1..Len(w) : texts[i] = w[i].text
        BY <3>1 DEF Texts
      <3>4. \A i \in 1..Len(w) : WordOf(w[i].text) = w[i]
        BY <2>2, <3>2, CopyWordRead
      <3>5. Pasted(CopiedLine) = Typed(words)
        BY <3>1 DEF Pasted
      <3> HIDE DEF texts
      <3>6. words = [i \in 1..Len(w) |-> w[i]]
        BY <3>3, <3>4
      <3>7. w = [i \in 1..Len(w) |-> w[i]]
        BY SeqAsFunction
      <3>. QED  BY <3>5, <3>6, <3>7
    <2>7. Typed(w) = FormRequest
      <3>1. Left(ReadWords("terminal", w), FormValues, <<>>)
        BY <2>4 DEF Left, Reads
      <3>2. Parse("terminal", w) = Parsed(FormValues, <<>>)
        BY <3>1, ParseOfLeft
      <3>3. TerminalParse(w) = Parse("terminal", w)
        BY <2>5 DEF TerminalParse
      <3>. QED  BY <3>2, <3>3 DEF Typed, FormRequest
    <2>. QED  BY <2>6, <2>7
  <1>. QED  BY <1>1, CliTypeCorrect, PTL

-----------------------------------------------------------------------------
(* What was typed and where it went *)

\* Each member of A has a member of B to itself.
Fits(A, B) == \E g \in [A -> B] : \A a, b \in A : g[a] = g[b] => a = b

LEMMA FitsWithin ==
    ASSUME NEW A, NEW B, A \subseteq B
    PROVE  Fits(A, B)
  <1> DEFINE g == [a \in A |-> a]
  <1>1. g \in [A -> B] /\ \A a, b \in A : g[a] = g[b] => a = b
    OBVIOUS
  <1>. QED  BY <1>1 DEF Fits

LEMMA FitsFurther ==
    ASSUME NEW A, NEW B, NEW C, Fits(A, B), Fits(B, C)
    PROVE  Fits(A, C)
  <1>1. PICK g \in [A -> B] : \A a, b \in A : g[a] = g[b] => a = b
    BY DEF Fits
  <1>2. PICK h \in [B -> C] : \A a, b \in B : h[a] = h[b] => a = b
    BY DEF Fits
  <1> DEFINE k == [a \in A |-> h[g[a]]]
  <1>3. \A a \in A : g[a] \in B
    BY <1>1
  <1>4. k \in [A -> C]
    BY <1>2, <1>3
  <1>5. \A a, b \in A : k[a] = k[b] => a = b
    BY <1>1, <1>2, <1>3
  <1> HIDE DEF k
  <1>. QED  BY <1>4, <1>5 DEF Fits

LEMMA FitsBeside ==
    ASSUME NEW A, NEW B, NEW C, NEW D, Fits(A, B), Fits(C, D), B \cap D = {}
    PROVE  Fits(A \cup C, B \cup D)
  <1>1. PICK g \in [A -> B] : \A a, b \in A : g[a] = g[b] => a = b
    BY DEF Fits
  <1>2. PICK h \in [C -> D] : \A a, b \in C : h[a] = h[b] => a = b
    BY DEF Fits
  <1> DEFINE k == [a \in A \cup C |-> IF a \in A THEN g[a] ELSE h[a]]
  <1>3. \A a \in A : k[a] = g[a] /\ k[a] \in B
    BY <1>1
  <1>4. \A a \in (A \cup C) \ A : a \in C /\ k[a] = h[a] /\ k[a] \in D
    BY <1>2
  <1>5. k \in [A \cup C -> B \cup D]
    BY <1>3, <1>4
  <1> HIDE DEF k
  <1>6. \A a, b \in A \cup C : k[a] = k[b] => a = b
    <2>1. SUFFICES ASSUME NEW a \in A \cup C, NEW b \in A \cup C, k[a] = k[b] PROVE a = b
      OBVIOUS
    <2>2. CASE a \in A /\ b \in A
      BY <1>1, <1>3, <2>1, <2>2
    <2>3. CASE a \notin A /\ b \notin A
      BY <1>2, <1>4, <2>1, <2>3
    <2>4. CASE (a \in A) # (b \in A)
      BY <1>3, <1>4, <2>1, <2>4
    <2>. QED  BY <2>2, <2>3, <2>4
  <1>. QED  BY <1>5, <1>6 DEF Fits

LEMMA FitsOneMore ==
    ASSUME NEW A, NEW B, Fits(A, B), NEW a, NEW b, b \notin B
    PROVE  Fits(A \cup {a}, B \cup {b})
  <1> DEFINE g == [x \in {a} |-> b]
  <1>1. g \in [{a} -> {b}] /\ \A x, y \in {a} : g[x] = g[y] => x = y
    OBVIOUS
  <1>2. Fits({a}, {b})
    <2> HIDE DEF g
    <2>. QED  BY <1>1 DEF Fits
  <1>. QED  BY <1>2, FitsBeside

\* Where e stands in the sequence s, and in the sequences of h.
Where(s, e) == {i \in DOMAIN s : s[i] = e}
Stands(h, e, n, i) == i \in DOMAIN h[n] /\ h[n][i] = e
Spots(h, e) == {p \in (DOMAIN h) \X Nat : Stands(h, e, p[1], p[2])}
Grown(h, n, e) == [h EXCEPT ![n] = Append(@, e)]

LEMMA PairOf ==
    ASSUME NEW A, NEW B, NEW a \in A, NEW b \in B
    PROVE  <<a, b>> \in A \X B /\ <<a, b>>[1] = a /\ <<a, b>>[2] = b
  OBVIOUS

LEMMA PairHas ==
    ASSUME NEW A, NEW B, NEW p \in A \X B
    PROVE  p = <<p[1], p[2]>> /\ p[1] \in A /\ p[2] \in B
  OBVIOUS

LEMMA SpotIs ==
    ASSUME NEW h, NEW e, NEW n \in DOMAIN h, NEW i \in Nat
    PROVE  <<n, i>> \in Spots(h, e) <=> i \in DOMAIN h[n] /\ h[n][i] = e
  <1> DEFINE p == <<n, i>>
             D == DOMAIN h
  <1>1. p \in D \X Nat /\ p[1] = n /\ p[2] = i
    <2>1. n \in D
      OBVIOUS
    <2> HIDE DEF D
    <2>. QED  BY <2>1, PairOf
  <1> HIDE DEF p
  <1>2. p \in Spots(h, e) <=> Stands(h, e, p[1], p[2])
    <2>1. p \in D \X Nat
      BY <1>1
    <2>. QED  BY <2>1, Zenon DEF Spots, D
  <1>3. Stands(h, e, p[1], p[2]) <=> Stands(h, e, n, i)
    BY <1>1 DEF Stands
  <1>. QED  BY <1>2, <1>3 DEF Stands, p

LEMMA SpotHas ==
    ASSUME NEW h, NEW e, NEW p \in Spots(h, e)
    PROVE  /\ p = <<p[1], p[2]>> /\ p[1] \in DOMAIN h /\ p[2] \in Nat
           /\ p[2] \in DOMAIN h[p[1]] /\ h[p[1]][p[2]] = e
  <1>1. p \in (DOMAIN h) \X Nat /\ Stands(h, e, p[1], p[2])
    BY Zenon DEF Spots
  <1> DEFINE D == DOMAIN h
  <1>2. p = <<p[1], p[2]>> /\ p[1] \in D /\ p[2] \in Nat
    <2>1. p \in D \X Nat
      BY <1>1, Zenon
    <2> HIDE DEF D
    <2>. QED  BY <2>1, PairHas
  <1>. QED  BY <1>1, <1>2 DEF Stands

LEMMA WhereMore ==
    ASSUME NEW Y, NEW s \in Seq(Y), NEW y \in Y, NEW w
    PROVE  Where(Append(s, y), w) =
              IF y = w THEN Where(s, w) \cup {Len(s) + 1} ELSE Where(s, w)
  <1> DEFINE t == Append(s, y)
  <1>1. /\ Len(s) \in Nat /\ DOMAIN s = 1..Len(s) /\ DOMAIN t = 1..(Len(s) + 1)
        /\ t[Len(s) + 1] = y /\ \A i \in 1..Len(s) : t[i] = s[i]
    OBVIOUS
  <1> HIDE DEF t
  <1>2. DOMAIN t = DOMAIN s \cup {Len(s) + 1} /\ Len(s) + 1 \notin DOMAIN s
    BY <1>1
  <1>3. \A i \in DOMAIN s : t[i] = s[i]
    BY <1>1
  <1>. QED  BY <1>1, <1>2, <1>3 DEF Where, t

LEMMA SpotsGrow ==
    ASSUME NEW D, NEW X, NEW h \in [D -> Seq(X)], NEW n \in D, NEW z \in X, NEW x
    PROVE  /\ Grown(h, n, z) \in [D -> Seq(X)]
           /\ Spots(h, x) \subseteq Spots(Grown(h, n, z), x)
           /\ z = x => /\ <<n, Len(h[n]) + 1>> \in Spots(Grown(h, n, z), x)
                       /\ <<n, Len(h[n]) + 1>> \notin Spots(h, x)
  <1> DEFINE g == Grown(h, n, z)
             s == h[n]
             t == Append(s, z)
             k == Len(s) + 1
  <1>1. s \in Seq(X)
    OBVIOUS
  <1>2. /\ t \in Seq(X) /\ k \in Nat /\ k \in DOMAIN t /\ t[k] = z /\ k \notin DOMAIN s
        /\ \A i \in DOMAIN s : i \in DOMAIN t /\ t[i] = s[i]
    BY <1>1
  <1>3. g[n] = t /\ \A m \in D : m # n => g[m] = h[m]
    BY DEF Grown
  <1>4. g \in [D -> Seq(X)]
    <2> HIDE DEF t
    <2>. QED  BY <1>2, <1>3 DEF Grown
  <1>5. DOMAIN g = D /\ DOMAIN h = D
    BY <1>4
  <1> HIDE DEF g, t, k
  <1>6. ASSUME NEW p \in Spots(h, x) PROVE p \in Spots(g, x)
    <2>1. /\ p = <<p[1], p[2]>> /\ p[1] \in D /\ p[2] \in Nat
          /\ p[2] \in DOMAIN h[p[1]] /\ h[p[1]][p[2]] = x
      BY <1>5, <1>6, SpotHas
    <2>2. p[2] \in DOMAIN g[p[1]] /\ g[p[1]][p[2]] = x
      BY <1>2, <1>3, <2>1
    <2>3. <<p[1], p[2]>> \in Spots(g, x)
      BY <1>5, <2>1, <2>2, SpotIs
    <2>. QED  BY <2>1, <2>3
  <1>7. ASSUME z = x PROVE <<n, k>> \in Spots(g, x) /\ <<n, k>> \notin Spots(h, x)
    <2>1. k \in DOMAIN g[n] /\ g[n][k] = x
      BY <1>2, <1>3, <1>7
    <2>2. <<n, k>> \in Spots(g, x)
      BY <1>2, <1>5, <2>1, SpotIs
    <2>3. <<n, k>> \notin Spots(h, x)
      BY <1>2, <1>5, SpotIs
    <2>. QED  BY <2>2, <2>3
  <1>. QED  BY <1>4, <1>6, <1>7 DEF g, k

\* The sequence grows by y and a sequence of the holding by what y stands for.
LEMMA OneSpotMore ==
    ASSUME NEW Y, NEW s \in Seq(Y), NEW y \in Y, NEW w,
           NEW D, NEW X, NEW h \in [D -> Seq(X)], NEW n \in D, NEW z \in X, NEW x,
           y = w => z = x, Fits(Where(s, w), Spots(h, x))
    PROVE  Fits(Where(Append(s, y), w), Spots(Grown(h, n, z), x))
  <1> DEFINE A == Where(s, w)
             B == Spots(h, x)
             C == Spots(Grown(h, n, z), x)
             b == <<n, Len(h[n]) + 1>>
  <1>1. B \subseteq C /\ (z = x => b \in C /\ b \notin B)
    BY SpotsGrow
  <1>2. Where(Append(s, y), w) = IF y = w THEN A \cup {Len(s) + 1} ELSE A
    BY WhereMore
  <1>3. Fits(A, B)
    OBVIOUS
  <1> HIDE DEF A, B, C, b
  <1>4. CASE y = w
    <2>1. Fits(A \cup {Len(s) + 1}, B \cup {b})
      BY <1>1, <1>3, <1>4, FitsOneMore
    <2>2. B \cup {b} \subseteq C
      BY <1>1, <1>4
    <2>. QED  BY <1>2, <1>4, <2>1, <2>2, FitsWithin, FitsFurther DEF C
  <1>5. CASE y # w
    BY <1>1, <1>2, <1>3, <1>5, FitsWithin, FitsFurther DEF C
  <1>. QED  BY <1>4, <1>5

LEMMA NoSpotLess ==
    ASSUME NEW Y, NEW s \in Seq(Y), NEW y \in Y, NEW w, y # w,
           NEW B, NEW C, B \subseteq C, Fits(Where(s, w), B)
    PROVE  Fits(Where(Append(s, y), w), C)
  <1>1. Where(Append(s, y), w) = Where(s, w)
    BY WhereMore
  <1>. QED  BY <1>1, FitsWithin, FitsFurther

\* The words of a line and the one permuting adds, and the texts they may leave.
AnyWord == Words \cup {Plain("--")}
AnyText == {w.text : w \in AnyWord} \cup {w.value : w \in AnyWord} \cup {"true"}

\* Values and words left over as one holding.
Slot == FlagNames \cup {""}
Held(v, r) == [n \in Slot |-> IF n = "" THEN r ELSE v[n]]

LEMMA HeldType ==
    ASSUME NEW F, NEW v \in Value(F), NEW r \in Seq(F)
    PROVE  Held(v, r) \in [Slot -> Seq(F)]
  <1>1. \A n \in Slot : n # "" => v[n] \in Seq(F)
    BY DEF Slot, Value
  <1>. QED  BY <1>1 DEF Held

LEMMA HeldParts ==
    ASSUME NEW v, NEW r
    PROVE  /\ DOMAIN Held(v, r) = Slot /\ "" \in Slot /\ Held(v, r)[""] = r
           /\ \A n \in FlagNames : n \in Slot /\ (n # "" => Held(v, r)[n] = v[n])
  BY DEF Held, Slot

\* The flag n has in h what it has in v.
HeldAs(h, v, n) == n \in Slot /\ h[n] = v[n]

LEMMA HeldAt ==
    ASSUME NEW v, NEW r, NEW n \in FlagNames, n # ""
    PROVE  HeldAs(Held(v, r), v, n)
  BY HeldParts DEF HeldAs

RestGrows(v, r, z) == Held(v, Append(r, z)) = Grown(Held(v, r), "", z)
ValueGrows(v, r, n, z) == Held(With(v, n, z), r) = Grown(Held(v, r), n, z)

LEMMA ValueAdded ==
    ASSUME NEW v, DOMAIN v = FlagNames, NEW r, NEW n \in FlagNames, n # "", NEW z
    PROVE  ValueGrows(v, r, n, z)
  <1> DEFINE s == Append(v[n], z)
  <1>1. With(v, n, z) = [v EXCEPT ![n] = s]
    BY DEF With
  <1>2. n \in Slot /\ Held(v, r)[n] = v[n]
    <2>1. HeldAs(Held(v, r), v, n)
      BY HeldAt
    <2>. QED  BY <2>1 DEF HeldAs
  <1>3. Grown(Held(v, r), n, z) = [Held(v, r) EXCEPT ![n] = s]
    BY <1>2 DEF Grown
  <1> HIDE DEF s
  <1>4. [Held(v, r) EXCEPT ![n] = s] = Held([v EXCEPT ![n] = s], r)
    BY <1>2 DEF Held, Slot
  <1>. QED  BY <1>1, <1>3, <1>4 DEF ValueGrows

LEMMA RestAdded ==
    ASSUME NEW v, NEW r, NEW z
    PROVE  RestGrows(v, r, z)
  <1> DEFINE s == Append(r, z)
  <1>1. "" \in Slot /\ Held(v, r)[""] = r
    BY HeldParts
  <1>2. Grown(Held(v, r), "", z) = [Held(v, r) EXCEPT ![""] = s]
    BY <1>1 DEF Grown
  <1> HIDE DEF s
  <1>3. [Held(v, r) EXCEPT ![""] = s] = Held(v, s)
    BY <1>1 DEF Held, Slot
  <1>. QED  BY <1>2, <1>3 DEF RestGrows, s

\* A reading of s that goes on holds texts, and the word w as often as s does.
Texted(v, r) == v \in Value(AnyText) /\ r \in Seq(AnyText)
Follows(s, w, v, r, o) ==
    /\ Texted(v, r)
    /\ o # "" => o \in FlagNames
    /\ Fits(Where(s, w), Spots(Held(v, r), w.text))
Followed(s, w, r) == r.ok => Follows(s, w, r.values, r.rest, r.open)

LEMMA FollowedOf ==
    ASSUME NEW s, NEW w, NEW v, NEW r, NEW o, NEW e, Follows(s, w, v, r, o)
    PROVE  Followed(s, w, Reading(v, r, o, e))
  <1> DEFINE t == Reading(v, r, o, e)
  <1>1. t.values = v
    BY DEF Reading
  <1>2. t.rest = r
    BY DEF Reading
  <1>3. t.open = o
    BY DEF Reading
  <1> HIDE DEF t
  <1>4. Follows(s, w, t.values, t.rest, t.open)
    BY <1>1, <1>2, <1>3
  <1>. QED  BY <1>4 DEF Followed, t

LEMMA FollowedHas ==
    ASSUME NEW s, NEW w, NEW r, r.ok, Followed(s, w, r)
    PROVE  /\ Texted(r.values, r.rest)
           /\ r.open # "" => r.open \in FlagNames
           /\ Fits(Where(s, w), Spots(Held(r.values, r.rest), w.text))
  BY DEF Followed, Follows

LEMMA ValueFollowed ==
    ASSUME NEW s \in Seq(AnyWord), NEW y \in AnyWord, NEW w, NEW v, NEW r, Texted(v, r),
           Fits(Where(s, w), Spots(Held(v, r), w.text)),
           NEW n \in FlagNames, n # "", NEW z \in AnyText, y = w => z = w.text, NEW e
    PROVE  Followed(Append(s, y), w, Reading(With(v, n, z), r, "", e))
  <1> DEFINE h == Held(v, r)
             x == w.text
             u == With(v, n, z)
  <1>1. v \in Value(AnyText) /\ r \in Seq(AnyText)
    BY DEF Texted
  <1>2. h \in [Slot -> Seq(AnyText)] /\ n \in Slot
    BY <1>1, HeldType, HeldParts
  <1>3. Held(u, r) = Grown(h, n, z)
    <2>1. DOMAIN v = FlagNames
      BY <1>1 DEF Value
    <2>2. ValueGrows(v, r, n, z)
      BY <2>1, ValueAdded
    <2>. QED  BY <2>2 DEF ValueGrows
  <1>4. Texted(u, r)
    BY <1>1, OneValueMore DEF Texted
  <1>5. Fits(Where(s, w), Spots(h, x)) /\ (y = w => z = x)
    OBVIOUS
  <1> HIDE DEF h, x, u
  <1>6. Fits(Where(Append(s, y), w), Spots(Grown(h, n, z), x))
    BY <1>2, <1>5, OneSpotMore
  <1>7. "" # "" => "" \in FlagNames
    OBVIOUS
  <1>. QED  BY <1>3, <1>4, <1>6, <1>7, FollowedOf DEF x, u, Follows

LEMMA RestFollowed ==
    ASSUME NEW s \in Seq(AnyWord), NEW y \in AnyWord, NEW w, NEW v, NEW r, Texted(v, r),
           Fits(Where(s, w), Spots(Held(v, r), w.text)),
           NEW z \in AnyText, y = w => z = w.text, NEW e
    PROVE  Followed(Append(s, y), w, Reading(v, Append(r, z), "", e))
  <1> DEFINE h == Held(v, r)
             x == w.text
             u == Append(r, z)
             n == ""
  <1>1. v \in Value(AnyText) /\ r \in Seq(AnyText)
    BY DEF Texted
  <1>2. h \in [Slot -> Seq(AnyText)] /\ n \in Slot
    BY <1>1, HeldType, HeldParts
  <1>3. Held(v, u) = Grown(h, n, z)
    <2>1. RestGrows(v, r, z)
      BY RestAdded
    <2>. QED  BY <2>1 DEF RestGrows
  <1>4. Texted(v, u)
    BY <1>1, OneMore DEF Texted
  <1>5. Fits(Where(s, w), Spots(h, x)) /\ (y = w => z = x)
    OBVIOUS
  <1>6. "" # "" => "" \in FlagNames
    OBVIOUS
  <1> HIDE DEF h, x, u, n
  <1>7. Fits(Where(Append(s, y), w), Spots(Grown(h, n, z), x))
    BY <1>2, <1>5, OneSpotMore
  <1>. QED  BY <1>3, <1>4, <1>6, <1>7, FollowedOf DEF x, u, Follows

LEMMA OnFollowed ==
    ASSUME NEW s \in Seq(AnyWord), NEW y \in AnyWord, NEW w, y # w, NEW v, NEW r, Texted(v, r),
           Fits(Where(s, w), Spots(Held(v, r), w.text)), NEW o, o # "" => o \in FlagNames, NEW e
    PROVE  Followed(Append(s, y), w, Reading(v, r, o, e))
  <1> DEFINE B == Spots(Held(v, r), w.text)
  <1>1. Fits(Where(s, w), B) /\ B \subseteq B
    OBVIOUS
  <1> HIDE DEF B
  <1>2. Fits(Where(Append(s, y), w), B)
    BY <1>1, NoSpotLess
  <1>. QED  BY <1>2, FollowedOf DEF B, Follows

LEMMA RefusedFollowed ==
    ASSUME NEW s, NEW w, NEW r, ~r.ok
    PROVE  Followed(s, w, r)
  BY DEF Followed

LEMMA FlagFollowed ==
    ASSUME command \in Commands, NEW s \in Seq(AnyWord), NEW y \in AnyWord, NEW w, y # w,
           NEW r, r.ok, Followed(s, w, r)
    PROVE  Followed(Append(s, y), w, TakeFlag(r, y))
  <1> DEFINE v == r.values
             q == r.rest
             n == FlagOf(y).name
             z == IF y.inline THEN y.value ELSE "true"
  <1>1. Texted(v, q) /\ Fits(Where(s, w), Spots(Held(v, q), w.text))
    BY FollowedHas
  <1>2. CASE ~IsKnown(y)
    <2>1. TakeFlag(r, y) = Refusal
      BY <1>2 DEF TakeFlag
    <2>. QED  BY <2>1, RefusalFields, RefusedFollowed
  <1>3. CASE IsKnown(y) /\ TakesNext(y)
    <2>1. TakeFlag(r, y) = Reading(v, q, n, FALSE)
      BY <1>3 DEF TakeFlag
    <2>2. n \in FlagNames
      BY <1>3, FlagNamed
    <2> HIDE DEF v, q, n
    <2>. QED  BY <1>1, <2>1, <2>2, OnFollowed
  <1>4. CASE IsKnown(y) /\ ~TakesNext(y)
    <2>1. TakeFlag(r, y) = Reading(With(v, n, z), q, "", FALSE)
      BY <1>4 DEF TakeFlag
    <2>2. n \in FlagNames /\ n # ""
      BY <1>4, FlagNamed
    <2>3. z \in AnyText
      BY DEF AnyText
    <2> HIDE DEF v, q, n, z
    <2>. QED  BY <1>1, <2>1, <2>2, <2>3, ValueFollowed
  <1>. QED  BY <1>2, <1>3, <1>4

LEMMA StepFollowed ==
    ASSUME command \in Commands, NEW tier, NEW s \in Seq(AnyWord), NEW y \in AnyWord,
           NEW w, ~IsDashed(w), NEW r, Followed(s, w, r)
    PROVE  Followed(Append(s, y), w, ReadStep(tier, r, y))
  <1> DEFINE v == r.values
             q == r.rest
             n == r.open
             z == y.text
  <1>1. CASE ~r.ok
    <2>1. ReadStep(tier, r, y) = r
      BY <1>1 DEF ReadStep
    <2>. QED  BY <1>1, <2>1, RefusedFollowed
  <1>2. r.ok => /\ Texted(v, q) /\ Fits(Where(s, w), Spots(Held(v, q), w.text))
                /\ n # "" => n \in FlagNames
    BY FollowedHas
  <1>3. z \in AnyText /\ (y = w => z = w.text)
    BY DEF AnyText
  <1>4. CASE r.ok /\ n # ""
    <2>1. ReadStep(tier, r, y) = Reading(With(v, n, z), q, "", FALSE)
      BY <1>4 DEF ReadStep, FlagSetStep, TypedStep, TakeValue
    <2> HIDE DEF v, q, n, z
    <2>. QED  BY <1>2, <1>3, <1>4, <2>1, ValueFollowed
  <1>5. CASE r.ok /\ n = "" /\ (~IsDashed(y) \/ (tier = "native" /\ r.ended))
    <2>1. \E e : ReadStep(tier, r, y) = Reading(v, Append(q, z), "", e)
      <3>1. CASE tier = "native"
        <4>1. ReadStep(tier, r, y) = Reading(v, Append(q, z), "", TRUE)
          BY <1>5, <3>1 DEF ReadStep, FlagSetStep, LeaveOver
        <4>. QED  BY <4>1
      <3>2. CASE tier # "native"
        <4>1. ReadStep(tier, r, y) = Reading(v, Append(q, z), "", FALSE)
          BY <1>5, <3>2 DEF ReadStep, TypedStep, LeaveOver
        <4>. QED  BY <4>1
      <3>. QED  BY <3>1, <3>2
    <2>2. PICK e : ReadStep(tier, r, y) = Reading(v, Append(q, z), "", e)
      BY <2>1
    <2> HIDE DEF v, q, n, z
    <2>. QED  BY <1>2, <1>3, <1>5, <2>2, RestFollowed
  <1>6. CASE r.ok /\ n = "" /\ IsDashed(y) /\ ~(tier = "native" /\ r.ended)
    <2>1. y # w
      BY <1>6
    <2>2. CASE tier = "native" /\ y.text = "--"
      <3>1. ReadStep(tier, r, y) = Reading(v, q, "", TRUE)
        BY <1>6, <2>2 DEF ReadStep, FlagSetStep
      <3>2. "" # "" => "" \in FlagNames
        OBVIOUS
      <3> HIDE DEF v, q
      <3>. QED  BY <1>2, <1>6, <2>1, <3>1, <3>2, OnFollowed
    <2>3. CASE ~(tier = "native" /\ y.text = "--")
      <3>1. ReadStep(tier, r, y) = TakeFlag(r, y)
        BY <1>6, <2>3 DEF ReadStep, FlagSetStep, TypedStep
      <3>. QED  BY <1>6, <2>1, <3>1, FlagFollowed
    <2>. QED  BY <2>2, <2>3
  <1>. QED  BY <1>1, <1>4, <1>5, <1>6

\* Whatever is read, a bare word is held as often as it was met.
LEMMA ReadFollowed ==
    ASSUME command \in Commands, NEW tier, NEW s \in Seq(AnyWord), NEW w, ~IsDashed(w)
    PROVE  Followed(s, w, ReadWords(tier, s))
  <1> DEFINE S == {t \in Seq(AnyWord) : Followed(t, w, ReadWords(tier, t))}
  <1>1. <<>> \in S
    <2>1. Texted(NoValues, <<>>)
      BY DEF Texted, NoValues, Value
    <2>2. Where(<<>>, w) = {}
      BY DEF Where
    <2>3. Fits(Where(<<>>, w), Spots(Held(NoValues, <<>>), w.text))
      BY <2>2, FitsWithin
    <2> DEFINE t == <<>>
               o == ""
    <2>4. o # "" => o \in FlagNames
      OBVIOUS
    <2>5. Texted(NoValues, t) /\ Fits(Where(t, w), Spots(Held(NoValues, t), w.text))
      BY <2>1, <2>3
    <2>6. ReadWords(tier, t) = Reading(NoValues, t, o, FALSE)
      BY ReadNothing DEF Start
    <2>7. t \in Seq(AnyWord)
      OBVIOUS
    <2> HIDE DEF t, o
    <2>8. t \in S
      BY <2>4, <2>5, <2>6, <2>7, FollowedOf DEF Follows
    <2>. QED  BY <2>8 DEF t
  <1>2. ASSUME NEW t \in Seq(AnyWord), NEW y \in AnyWord, t \in S PROVE Append(t, y) \in S
    <2>1. Append(t, y) \in Seq(AnyWord)
      BY OneMore
    <2>2. ReadWords(tier, Append(t, y)) = ReadStep(tier, ReadWords(tier, t), y)
      BY ReadAppend
    <2>. QED  BY <1>2, <2>1, <2>2, StepFollowed
  <1>3. Seq(AnyWord) \subseteq S
    <2> HIDE DEF S
    <2>. QED  BY <1>1, <1>2, SeqInduction
  <1>. QED  BY <1>3

\* Beside each other in one sequence.
Shifted(n, D) == {n + i : i \in D}

LEMMA FitsInConcat ==
    ASSUME NEW Y, NEW s \in Seq(Y), NEW A, NEW B, B \subseteq DOMAIN s, Fits(A, B),
           NEW C, NEW D, D \subseteq Nat \ {0}, Fits(C, D)
    PROVE  Fits(A \cup C, B \cup Shifted(Len(s), D))
  <1> DEFINE n == Len(s)
             E == Shifted(n, D)
             g == [i \in D |-> n + i]
  <1>1. n \in Nat /\ B \subseteq 1..n
    OBVIOUS
  <1> HIDE DEF n
  <1>2. \A i, j \in D : g[i] = g[j] => i = j
    BY <1>1
  <1>3. g \in [D -> E]
    BY DEF Shifted
  <1> HIDE DEF g
  <1>4. Fits(D, E)
    BY <1>2, <1>3 DEF Fits
  <1>5. B \cap E = {}
    BY <1>1 DEF Shifted
  <1> HIDE DEF E
  <1>. QED  BY <1>4, <1>5, FitsFurther, FitsBeside DEF E, n

LEMMA ConcatParts ==
    ASSUME NEW Y, NEW s \in Seq(Y), NEW t \in Seq(Y)
    PROVE  /\ s \o t \in Seq(Y)
           /\ \A i \in DOMAIN s : i \in DOMAIN (s \o t) /\ (s \o t)[i] = s[i]
           /\ \A i \in DOMAIN t :
                 Len(s) + i \in DOMAIN (s \o t) /\ (s \o t)[Len(s) + i] = t[i]
  <1> DEFINE c == s \o t
  <1>1. c \in Seq(Y) /\ Len(c) = Len(s) + Len(t)
    BY ConcatProperties
  <1>2. \A i \in 1..(Len(s) + Len(t)) : c[i] = IF i <= Len(s) THEN s[i] ELSE t[i - Len(s)]
    BY ConcatProperties
  <1>3. /\ Len(s) \in Nat /\ Len(t) \in Nat /\ DOMAIN s = 1..Len(s) /\ DOMAIN t = 1..Len(t)
        /\ DOMAIN c = 1..Len(c)
    BY <1>1
  <1> HIDE DEF c
  <1>4. ASSUME NEW i \in DOMAIN s PROVE i \in DOMAIN c /\ c[i] = s[i]
    BY <1>1, <1>2, <1>3
  <1>5. ASSUME NEW i \in DOMAIN t PROVE Len(s) + i \in DOMAIN c /\ c[Len(s) + i] = t[i]
    <2>1. i \in Nat /\ 1 <= i /\ i <= Len(t)
      BY <1>3
    <2>2. Len(s) + i \in 1..(Len(s) + Len(t)) /\ ~(Len(s) + i <= Len(s))
          /\ (Len(s) + i) - Len(s) = i
      BY <1>3, <2>1
    <2>. QED  BY <1>1, <1>2, <1>3, <2>2
  <1>. QED  BY <1>1, <1>4, <1>5 DEF c

LEMMA FitsWhere ==
    ASSUME NEW Y, NEW s \in Seq(Y), NEW t \in Seq(Y), NEW e, NEW A, NEW C,
           Fits(A, Where(s, e)), Fits(C, Where(t, e))
    PROVE  Fits(A \cup C, Where(s \o t, e))
  <1> DEFINE B == Where(s, e)
             D == Where(t, e)
             F == Where(s \o t, e)
  <1>1. B \subseteq DOMAIN s /\ D \subseteq Nat \ {0}
    <2>1. DOMAIN t = 1..Len(t) /\ Len(t) \in Nat
      OBVIOUS
    <2>. QED  BY <2>1 DEF Where
  <1>2. B \cup Shifted(Len(s), D) \subseteq F
    <2> DEFINE c == s \o t
    <2>1. /\ \A i \in DOMAIN s : i \in DOMAIN c /\ c[i] = s[i]
          /\ \A i \in DOMAIN t : Len(s) + i \in DOMAIN c /\ c[Len(s) + i] = t[i]
      BY ConcatParts
    <2> HIDE DEF c
    <2>. QED  BY <2>1 DEF Where, Shifted, c
  <1>3. Fits(A, B) /\ Fits(C, D)
    OBVIOUS
  <1> HIDE DEF B, D, F
  <1>4. Fits(A \cup C, B \cup Shifted(Len(s), D))
    BY <1>1, <1>3, FitsInConcat
  <1>. QED  BY <1>2, <1>4, FitsWithin, FitsFurther DEF F

\* The spots of one sequence of a holding.
SpotsAt(h, e, n) == {p \in Spots(h, e) : p[1] = n}

LEMMA FitsAt ==
    ASSUME NEW h, NEW e, NEW n
    PROVE  Fits(SpotsAt(h, e, n), Where(h[n], e))
  <1> DEFINE A == SpotsAt(h, e, n)
             B == Where(h[n], e)
             g == [p \in A |-> p[2]]
  <1>1. ASSUME NEW p \in A PROVE p = <<n, p[2]>> /\ p[2] \in B
    <2>1. p \in Spots(h, e) /\ p[1] = n
      BY DEF SpotsAt
    <2>2. p = <<p[1], p[2]>> /\ p[2] \in DOMAIN h[p[1]] /\ h[p[1]][p[2]] = e
      BY <2>1, SpotHas
    <2>. QED  BY <2>1, <2>2 DEF Where
  <1>2. g \in [A -> B]
    <2> HIDE DEF A, B
    <2>. QED  BY <1>1
  <1>3. ASSUME NEW p \in A, NEW q \in A, g[p] = g[q] PROVE p = q
    <2> HIDE DEF A, B
    <2>1. p[2] = q[2]
      BY <1>3
    <2>2. p = <<n, p[2]>> /\ q = <<n, q[2]>>
      BY <1>1
    <2>. QED  BY <2>1, <2>2
  <1> HIDE DEF g, A, B
  <1>4. Fits(A, B)
    BY <1>2, <1>3 DEF Fits
  <1>. QED  BY <1>4 DEF A, B

-----------------------------------------------------------------------------
(* What permuting keeps *)

\* The flags and the bare words as one holding.
Pile == {"flags", "bare"}
Piles(f, p) == [n \in Pile |-> IF n = "flags" THEN f ELSE p]

LEMMA PilesParts ==
    ASSUME NEW f, NEW p
    PROVE  /\ Piles(f, p)["flags"] = f /\ Piles(f, p)["bare"] = p
           /\ "flags" \in Pile /\ "bare" \in Pile /\ DOMAIN Piles(f, p) = Pile
  BY DEF Piles, Pile

LEMMA PilesType ==
    ASSUME NEW Y, NEW f \in Seq(Y), NEW p \in Seq(Y)
    PROVE  Piles(f, p) \in [Pile -> Seq(Y)]
  BY DEF Piles

LEMMA FlagPiled ==
    ASSUME NEW f, NEW p, NEW y
    PROVE  Piles(Append(f, y), p) = Grown(Piles(f, p), "flags", y)
  <1> DEFINE g == Append(f, y)
  <1>1. Grown(Piles(f, p), "flags", y) = [Piles(f, p) EXCEPT !["flags"] = g]
    BY PilesParts DEF Grown
  <1> HIDE DEF g
  <1>2. [Piles(f, p) EXCEPT !["flags"] = g] = Piles(g, p)
    BY DEF Piles, Pile
  <1>. QED  BY <1>1, <1>2 DEF g

LEMMA BarePiled ==
    ASSUME NEW f, NEW p, NEW y
    PROVE  Piles(f, Append(p, y)) = Grown(Piles(f, p), "bare", y)
  <1> DEFINE g == Append(p, y)
  <1>1. Grown(Piles(f, p), "bare", y) = [Piles(f, p) EXCEPT !["bare"] = g]
    BY PilesParts DEF Grown
  <1> HIDE DEF g
  <1>2. [Piles(f, p) EXCEPT !["bare"] = g] = Piles(f, g)
    BY DEF Piles, Pile
  <1>. QED  BY <1>1, <1>2 DEF g

\* A sorting of s keeps its words, and w as often as s has it.
Kept(s, w, f, p) ==
    /\ f \in Seq(AnyWord) /\ p \in Seq(AnyWord)
    /\ Fits(Where(s, w), Spots(Piles(f, p), w))
SortKept(s, w, a) == Kept(s, w, a.flags, a.pos)

LEMMA KeptOf ==
    ASSUME NEW s, NEW w, NEW f, NEW p, NEW o, NEW e, Kept(s, w, f, p)
    PROVE  SortKept(s, w, Permuted(f, p, o, e))
  <1> DEFINE t == Permuted(f, p, o, e)
  <1>1. t.flags = f
    BY DEF Permuted
  <1>2. t.pos = p
    BY DEF Permuted
  <1> HIDE DEF t
  <1>3. Kept(s, w, t.flags, t.pos)
    BY <1>1, <1>2
  <1>. QED  BY <1>3 DEF SortKept, t

LEMMA FlagKept ==
    ASSUME NEW s \in Seq(AnyWord), NEW y \in AnyWord, NEW w, NEW f, NEW p, Kept(s, w, f, p)
    PROVE  Kept(Append(s, y), w, Append(f, y), p)
  <1> DEFINE h == Piles(f, p)
             n == "flags"
             g == Append(f, y)
  <1>1. f \in Seq(AnyWord) /\ p \in Seq(AnyWord) /\ Fits(Where(s, w), Spots(h, w))
    BY DEF Kept
  <1>2. h \in [Pile -> Seq(AnyWord)] /\ n \in Pile
    BY <1>1, PilesType, PilesParts
  <1>3. Piles(g, p) = Grown(h, n, y)
    BY FlagPiled
  <1>4. g \in Seq(AnyWord)
    BY <1>1, OneMore
  <1>5. y = w => y = w
    OBVIOUS
  <1> HIDE DEF h, n, g
  <1>6. Fits(Where(Append(s, y), w), Spots(Grown(h, n, y), w))
    BY <1>1, <1>2, <1>5, OneSpotMore
  <1>. QED  BY <1>1, <1>3, <1>4, <1>6 DEF Kept, g

LEMMA BareKept ==
    ASSUME NEW s \in Seq(AnyWord), NEW y \in AnyWord, NEW w, NEW f, NEW p, Kept(s, w, f, p)
    PROVE  Kept(Append(s, y), w, f, Append(p, y))
  <1> DEFINE h == Piles(f, p)
             n == "bare"
             g == Append(p, y)
  <1>1. f \in Seq(AnyWord) /\ p \in Seq(AnyWord) /\ Fits(Where(s, w), Spots(h, w))
    BY DEF Kept
  <1>2. h \in [Pile -> Seq(AnyWord)] /\ n \in Pile
    BY <1>1, PilesType, PilesParts
  <1>3. Piles(f, g) = Grown(h, n, y)
    BY BarePiled
  <1>4. g \in Seq(AnyWord)
    BY <1>1, OneMore
  <1>5. y = w => y = w
    OBVIOUS
  <1> HIDE DEF h, n, g
  <1>6. Fits(Where(Append(s, y), w), Spots(Grown(h, n, y), w))
    BY <1>1, <1>2, <1>5, OneSpotMore
  <1>. QED  BY <1>1, <1>3, <1>4, <1>6 DEF Kept, g

LEMMA SortStepKept ==
    ASSUME NEW s \in Seq(AnyWord), NEW y \in AnyWord, NEW w, ~IsDashed(w),
           NEW a, SortKept(s, w, a)
    PROVE  SortKept(Append(s, y), w, PermuteStep(a, y))
  <1> DEFINE f == a.flags
             p == a.pos
             t == Append(s, y)
             o == IF TakesNext(y) THEN FlagOf(y).name ELSE ""
  <1>1. Kept(s, w, f, p)
    BY DEF SortKept
  <1>2. Kept(t, w, Append(f, y), p) /\ Kept(t, w, f, Append(p, y))
    BY <1>1, FlagKept, BareKept
  <1>3. CASE a.open # ""
    <2>1. PermuteStep(a, y) = Permuted(Append(f, y), p, "", FALSE)
      BY <1>3 DEF PermuteStep
    <2> HIDE DEF f, p, t
    <2>. QED  BY <1>2, <2>1, KeptOf DEF t
  <1>4. CASE a.open = "" /\ (a.ended \/ ~IsDashed(y))
    <2>1. PermuteStep(a, y) = Permuted(f, Append(p, y), "", a.ended)
      BY <1>4 DEF PermuteStep
    <2> HIDE DEF f, p, t
    <2>. QED  BY <1>2, <2>1, KeptOf DEF t
  <1>5. CASE a.open = "" /\ ~(a.ended \/ ~IsDashed(y)) /\ y.text = "--"
    <2>1. PermuteStep(a, y) = Permuted(f, p, "", TRUE)
      BY <1>5 DEF PermuteStep
    <2>2. y # w
      BY <1>5
    <2>3. Where(t, w) = Where(s, w)
      BY <2>2, WhereMore
    <2>4. Kept(t, w, f, p)
      BY <1>1, <2>3 DEF Kept
    <2> HIDE DEF f, p, t
    <2>. QED  BY <2>1, <2>4, KeptOf DEF t
  <1>6. CASE a.open = "" /\ ~(a.ended \/ ~IsDashed(y)) /\ y.text # "--"
    <2>1. PermuteStep(a, y) = Permuted(Append(f, y), p, o, FALSE)
      BY <1>6 DEF PermuteStep
    <2> HIDE DEF f, p, t, o
    <2>. QED  BY <1>2, <2>1, KeptOf DEF t
  <1>. QED  BY <1>3, <1>4, <1>5, <1>6

LEMMA SortingKeeps ==
    ASSUME NEW s \in Seq(AnyWord), NEW w, ~IsDashed(w)
    PROVE  SortKept(s, w, PermuteAll(s))
  <1> DEFINE S == {t \in Seq(AnyWord) : SortKept(t, w, PermuteAll(t))}
  <1>1. <<>> \in S
    <2>1. Where(<<>>, w) = {}
      BY DEF Where
    <2>2. Fits(Where(<<>>, w), Spots(Piles(<<>>, <<>>), w))
      BY <2>1, FitsWithin
    <2> DEFINE t == <<>>
    <2>3. t \in Seq(AnyWord)
      OBVIOUS
    <2>4. Kept(t, w, t, t)
      BY <2>2, <2>3 DEF Kept
    <2>5. PermuteAll(t) = Permuted(t, t, "", FALSE)
      BY PermuteNothing DEF Unsorted
    <2> HIDE DEF t
    <2>6. t \in S
      BY <2>3, <2>4, <2>5, KeptOf
    <2>. QED  BY <2>6 DEF t
  <1>2. ASSUME NEW t \in Seq(AnyWord), NEW y \in AnyWord, t \in S PROVE Append(t, y) \in S
    <2>1. Append(t, y) \in Seq(AnyWord)
      BY OneMore
    <2>2. PermuteAll(Append(t, y)) = PermuteStep(PermuteAll(t), y)
      BY PermuteAppend
    <2>. QED  BY <1>2, <2>1, <2>2, SortStepKept
  <1>3. Seq(AnyWord) \subseteq S
    <2> HIDE DEF S
    <2>. QED  BY <1>1, <1>2, SeqInduction
  <1>. QED  BY <1>3

LEMMA PermuteKeeps ==
    ASSUME NEW s \in Seq(AnyWord), NEW w, ~IsDashed(w)
    PROVE  Permute(s) \in Seq(AnyWord) /\ Fits(Where(s, w), Where(Permute(s), w))
  <1> DEFINE a == PermuteAll(s)
             f == a.flags
             p == a.pos
             m == IF a.ended THEN <<Plain("--")>> ELSE <<>>
             h == Piles(f, p)
             A == SpotsAt(h, w, "flags")
             C == SpotsAt(h, w, "bare")
  <1>1. Permute(s) = (f \o m) \o p
    BY DEF Permute
  <1>2. f \in Seq(AnyWord) /\ p \in Seq(AnyWord) /\ Fits(Where(s, w), Spots(h, w))
    BY SortingKeeps DEF SortKept, Kept
  <1>3. m \in Seq(AnyWord)
    <2> DEFINE e == Plain("--")
    <2>1. e \in AnyWord
      BY DEF AnyWord
    <2> HIDE DEF e
    <2>2. <<e>> \in Seq(AnyWord) /\ <<>> \in Seq(AnyWord)
      BY <2>1
    <2>. QED  BY <2>2 DEF e
  <1>4. Fits(A, Where(f, w)) /\ Fits(C, Where(p, w))
    <2>1. h["flags"] = f /\ h["bare"] = p
      BY PilesParts
    <2> HIDE DEF h
    <2>. QED  BY <2>1, FitsAt
  <1>5. Spots(h, w) = A \cup C
    <2>1. DOMAIN h = Pile
      BY PilesParts
    <2> HIDE DEF h
    <2>2. \A q \in Spots(h, w) : q[1] \in Pile
      BY <2>1, SpotHas
    <2>. QED  BY <2>2 DEF SpotsAt, Pile
  <1>6. Fits({}, Where(m, w))
    BY FitsWithin
  <1> HIDE DEF f, p, m, h, A, C
  <1>7. f \o m \in Seq(AnyWord) /\ (f \o m) \o p \in Seq(AnyWord)
    BY <1>2, <1>3, ConcatProperties
  <1>8. Fits(A \cup {}, Where(f \o m, w))
    BY <1>2, <1>3, <1>4, <1>6, FitsWhere
  <1>9. Fits((A \cup {}) \cup C, Where((f \o m) \o p, w))
    BY <1>2, <1>4, <1>7, <1>8, FitsWhere
  <1>10. (A \cup {}) \cup C = Spots(h, w)
    BY <1>5
  <1>. QED  BY <1>1, <1>2, <1>7, <1>9, <1>10, FitsFurther

-----------------------------------------------------------------------------
(* What giving out positions and filling in keeps *)

LEMMA PieceOf ==
    ASSUME NEW X, NEW s \in Seq(X), NEW t \in Seq(X), NEW i \in DOMAIN (s \o t)
    PROVE  /\ i \in Nat /\ Len(s) \in Nat
           /\ i <= Len(s) => i \in DOMAIN s /\ s[i] = (s \o t)[i]
           /\ ~(i <= Len(s)) => i - Len(s) \in DOMAIN t /\ t[i - Len(s)] = (s \o t)[i]
  <1> DEFINE c == s \o t
  <1>1. c \in Seq(X) /\ Len(c) = Len(s) + Len(t)
    BY ConcatProperties
  <1>2. \A j \in 1..(Len(s) + Len(t)) : c[j] = IF j <= Len(s) THEN s[j] ELSE t[j - Len(s)]
    BY ConcatProperties
  <1>3. /\ Len(s) \in Nat /\ Len(t) \in Nat /\ DOMAIN s = 1..Len(s) /\ DOMAIN t = 1..Len(t)
        /\ DOMAIN c = 1..Len(c)
    BY <1>1
  <1>4. i \in DOMAIN c
    OBVIOUS
  <1> HIDE DEF c
  <1>5. i \in 1..(Len(s) + Len(t))
    BY <1>1, <1>3, <1>4
  <1>6. i \in Nat /\ 1 <= i /\ i <= Len(s) + Len(t)
    BY <1>3, <1>5
  <1>7. CASE i <= Len(s)
    BY <1>2, <1>3, <1>5, <1>6, <1>7 DEF c
  <1>8. CASE ~(i <= Len(s))
    <2>1. i - Len(s) \in 1..Len(t)
      BY <1>3, <1>6, <1>8
    <2>2. c[i] = t[i - Len(s)]
      BY <1>2, <1>5, <1>8
    <2>. QED  BY <1>3, <1>6, <1>8, <2>1, <2>2 DEF c
  <1>. QED  BY <1>7, <1>8

\* What h has at m stands in g partly at n, where h has nothing, and partly at m.
MovedOn(D, h, g, n, m) ==
    /\ n \in D /\ m \in D /\ n # m
    /\ h[n] = <<>> /\ h[m] = g[n] \o g[m]
    /\ \A k \in D : k # n /\ k # m => g[k] = h[k]

LEMMA Apart ==
    ASSUME NEW n, NEW m, n # m, NEW L \in Nat,
           NEW a, NEW i \in Nat, a # n, NEW b, NEW j \in Nat, b # n,
           (IF a = m /\ i <= L THEN n ELSE a) = (IF b = m /\ j <= L THEN n ELSE b),
           (IF a = m /\ ~(i <= L) THEN i - L ELSE i) = (IF b = m /\ ~(j <= L) THEN j - L ELSE j)
    PROVE  a = b /\ i = j
  <1>1. CASE a = m /\ i <= L
    <2>1. b = m /\ j <= L
      BY <1>1
    <2>. QED  BY <1>1, <2>1
  <1>2. CASE a = m /\ ~(i <= L)
    <2>1. b = m /\ ~(j <= L)
      BY <1>2
    <2>2. i - L = j - L
      BY <1>2, <2>1
    <2>. QED  BY <1>2, <2>1, <2>2
  <1>3. CASE a # m
    <2>1. b = a
      BY <1>3
    <2>. QED  BY <1>3, <2>1
  <1>. QED  BY <1>1, <1>2, <1>3

LEMMA MovedFits ==
    ASSUME NEW D, NEW X, NEW h \in [D -> Seq(X)], NEW g \in [D -> Seq(X)], NEW n, NEW m,
           MovedOn(D, h, g, n, m), NEW x
    PROVE  Fits(Spots(h, x), Spots(g, x))
  <1> DEFINE L == Len(g[n])
             to(p) == IF p[1] = m /\ p[2] <= L THEN n ELSE p[1]
             at(p) == IF p[1] = m /\ ~(p[2] <= L) THEN p[2] - L ELSE p[2]
             move(p) == <<to(p), at(p)>>
             A == Spots(h, x)
             B == Spots(g, x)
             f == [p \in A |-> move(p)]
  <1>1. /\ n \in D /\ m \in D /\ n # m /\ h[n] = <<>> /\ h[m] = g[n] \o g[m]
        /\ \A k \in D : k # n /\ k # m => g[k] = h[k]
    BY DEF MovedOn
  <1>2. g[n] \in Seq(X) /\ g[m] \in Seq(X) /\ L \in Nat
    BY <1>1
  <1>3. DOMAIN h = D /\ DOMAIN g = D
    OBVIOUS
  <1>4. ASSUME NEW p \in A
        PROVE  /\ p = <<p[1], p[2]>> /\ p[1] \in D /\ p[2] \in Nat /\ p[1] # n
               /\ p[2] \in DOMAIN h[p[1]] /\ h[p[1]][p[2]] = x
    <2>1. /\ p = <<p[1], p[2]>> /\ p[1] \in D /\ p[2] \in Nat
          /\ p[2] \in DOMAIN h[p[1]] /\ h[p[1]][p[2]] = x
      BY <1>3, SpotHas
    <2>2. DOMAIN <<>> = {}
      OBVIOUS
    <2>3. p[1] # n
      BY <1>1, <2>1, <2>2
    <2>. QED  BY <2>1, <2>3
  <1>5. ASSUME NEW p \in A PROVE move(p) \in B
    <2> DEFINE a == p[1]
               i == p[2]
    <2>1. a \in D /\ i \in Nat /\ a # n /\ i \in DOMAIN h[a] /\ h[a][i] = x
      BY <1>4
    <2> HIDE DEF a, i, A, L
    <2>2. CASE a # m
      <3>1. g[a] = h[a]
        BY <1>1, <2>1, <2>2
      <3>2. <<a, i>> \in B
        BY <1>3, <2>1, <3>1, SpotIs
      <3>. QED  BY <2>2, <3>2 DEF a, i
    <2>3. CASE a = m
      <3>1. i \in DOMAIN (g[n] \o g[m]) /\ (g[n] \o g[m])[i] = x
        BY <1>1, <2>1, <2>3
      <3> DEFINE s == g[n]
                 t == g[m]
      <3>2. /\ i <= L => i \in DOMAIN s /\ s[i] = x
            /\ ~(i <= L) => i - L \in DOMAIN t /\ t[i - L] = x
        <4>1. s \in Seq(X) /\ t \in Seq(X) /\ i \in DOMAIN (s \o t) /\ (s \o t)[i] = x
          BY <1>2, <3>1
        <4> HIDE DEF s, t
        <4>2. /\ i <= Len(s) => i \in DOMAIN s /\ s[i] = x
              /\ ~(i <= Len(s)) => i - Len(s) \in DOMAIN t /\ t[i - Len(s)] = x
          BY <4>1, PieceOf
        <4>. QED  BY <4>2 DEF s, L
      <3>3. CASE i <= L
        <4>1. <<n, i>> \in B
          BY <1>1, <1>3, <2>1, <3>2, <3>3, SpotIs
        <4>. QED  BY <2>3, <3>3, <4>1 DEF a, i
      <3>4. CASE ~(i <= L)
        <4>1. i - L \in Nat
          BY <1>2, <2>1, <3>4
        <4>2. <<m, i - L>> \in B
          BY <1>1, <1>3, <3>2, <3>4, <4>1, SpotIs
        <4>. QED  BY <2>3, <3>4, <4>2 DEF a, i
      <3>. QED  BY <3>3, <3>4
    <2>. QED  BY <2>2, <2>3
  <1>6. f \in [A -> B]
    <2> HIDE DEF A, B, move
    <2>. QED  BY <1>5
  <1>7. ASSUME NEW p \in A, NEW q \in A, f[p] = f[q] PROVE p = q
    <2> DEFINE a == p[1]
               i == p[2]
               b == q[1]
               j == q[2]
    <2>1. p = <<a, i>> /\ i \in Nat /\ a # n
      BY <1>4
    <2>2. q = <<b, j>> /\ j \in Nat /\ b # n
      BY <1>4
    <2>3. move(p) = move(q)
      <3> HIDE DEF A, move
      <3>. QED  BY <1>7
    <2>4. to(p) = to(q) /\ at(p) = at(q)
      <3> HIDE DEF to, at
      <3>. QED  BY <2>3
    <2>5. (IF a = m /\ i <= L THEN n ELSE a) = (IF b = m /\ j <= L THEN n ELSE b)
      BY <2>4
    <2>6. (IF a = m /\ ~(i <= L) THEN i - L ELSE i) = (IF b = m /\ ~(j <= L) THEN j - L ELSE j)
      BY <2>4
    <2> HIDE DEF a, i, b, j, L
    <2>7. a = b /\ i = j
      BY <1>1, <1>2, <2>1, <2>2, <2>5, <2>6, Apart
    <2>. QED  BY <2>1, <2>2, <2>7
  <1> HIDE DEF f, A, B
  <1>8. Fits(A, B)
    BY <1>6, <1>7 DEF Fits
  <1>. QED  BY <1>8 DEF A, B

\* Values and words left over, texts all of them, that hold x as often as A has members.
Dealt(A, x, v, r) == Texted(v, r) /\ Fits(A, Spots(Held(v, r), x))
DealtIn(A, x, p) == Dealt(A, x, p.values, p.rest)

LEMMA DealtParsed ==
    ASSUME NEW A, NEW x, NEW v, NEW r, Dealt(A, x, v, r)
    PROVE  DealtIn(A, x, Parsed(v, r))
  <1> DEFINE t == Parsed(v, r)
  <1>1. t.values = v
    BY DEF Parsed
  <1>2. t.rest = r
    BY DEF Parsed
  <1> HIDE DEF t
  <1>3. Dealt(A, x, t.values, t.rest)
    BY <1>1, <1>2
  <1>. QED  BY <1>3 DEF DealtIn, t

LEMMA Redealt ==
    ASSUME NEW A, NEW x, NEW v, NEW r, Dealt(A, x, v, r), NEW n \in FlagNames, n # "",
           v[n] = <<>>, NEW y \in Seq(AnyText), NEW q \in Seq(AnyText), r = y \o q
    PROVE  Dealt(A, x, [v EXCEPT ![n] = y], q)
  <1> DEFINE u == [v EXCEPT ![n] = y]
             h == Held(v, r)
             g == Held(u, q)
             m == ""
             X == AnyText
  <1>1. v \in Value(X) /\ r \in Seq(X) /\ Fits(A, Spots(h, x))
    BY DEF Dealt, Texted
  <1>2. u \in Value(X) /\ u[n] = y /\ \A k \in FlagNames : k # n => u[k] = v[k]
    BY <1>1 DEF Value
  <1> HIDE DEF u
  <1>3. h \in [Slot -> Seq(X)] /\ g \in [Slot -> Seq(X)]
    BY <1>1, <1>2, HeldType
  <1>4. HeldAs(h, v, n) /\ HeldAs(g, u, n)
    BY HeldAt
  <1>5. m \in Slot /\ h[m] = r /\ g[m] = q
    BY HeldParts
  <1>6. ASSUME NEW k \in Slot, k # n, k # m PROVE g[k] = h[k]
    <2>1. k \in FlagNames
      BY <1>6 DEF Slot
    <2>2. k # ""
      BY <1>6
    <2> HIDE DEF h, g
    <2>3. HeldAs(h, v, k) /\ HeldAs(g, u, k)
      BY <2>1, <2>2, HeldAt DEF h, g
    <2>. QED  BY <1>2, <1>6, <2>1, <2>3, Zenon DEF HeldAs
  <1> HIDE DEF h, g
  <1>7. MovedOn(Slot, h, g, n, m)
    BY <1>2, <1>4, <1>5, <1>6 DEF MovedOn, HeldAs
  <1>8. Fits(Spots(h, x), Spots(g, x))
    BY <1>3, <1>7, MovedFits
  <1>9. Fits(A, Spots(g, x))
    BY <1>1, <1>8, FitsFurther
  <1>. QED  BY <1>2, <1>9 DEF Dealt, Texted, g, u

LEMMA HeadThenTail ==
    ASSUME NEW X, NEW s \in Seq(X), s # <<>>
    PROVE  s = <<Head(s)>> \o Tail(s)
  <1> DEFINE a == <<Head(s)>>
             t == Tail(s)
             c == a \o t
  <1>1. a \in Seq(X) /\ t \in Seq(X) /\ Len(a) = 1 /\ a[1] = s[1]
    BY Ahead
  <1>2. /\ Len(s) \in Nat /\ Len(s) # 0 /\ Len(t) = Len(s) - 1
        /\ \A i \in 1..(Len(s) - 1) : t[i] = s[i + 1]
    <2>1. Len(s) # 0
      BY EmptySeq
    <2>. QED  BY <2>1, HeadTailProperties
  <1> HIDE DEF a, t
  <1>3. /\ c \in Seq(X) /\ Len(c) = Len(a) + Len(t)
        /\ \A i \in 1..(Len(a) + Len(t)) : c[i] = IF i <= Len(a) THEN a[i] ELSE t[i - Len(a)]
    BY <1>1, ConcatProperties
  <1> HIDE DEF c
  <1>4. Len(c) = Len(s)
    BY <1>1, <1>2, <1>3
  <1>5. ASSUME NEW i \in 1..Len(s) PROVE s[i] = c[i]
    <2>1. i \in 1..(Len(a) + Len(t))
      BY <1>1, <1>2
    <2>2. c[i] = IF i <= 1 THEN a[i] ELSE t[i - 1]
      BY <1>1, <1>3, <2>1
    <2>3. CASE i = 1
      BY <1>1, <2>2, <2>3
    <2>4. CASE i # 1
      <3>1. i - 1 \in 1..(Len(s) - 1) /\ (i - 1) + 1 = i /\ ~(i <= 1)
        BY <1>2, <2>4
      <3>2. t[i - 1] = s[(i - 1) + 1]
        BY <1>2, <3>1
      <3>. QED  BY <2>2, <3>1, <3>2
    <2>. QED  BY <2>3, <2>4
  <1>6. s = c
    BY <1>3, <1>4, <1>5, SeqEqual
  <1>. QED  BY <1>6 DEF c, a, t

LEMMA AssignDeals ==
    ASSUME command \in Commands, NEW f \in ToSet(command), NEW A, NEW x, NEW p, DealtIn(A, x, p)
    PROVE  DealtIn(A, x, Assign(p, f))
  <1> DEFINE v == p.values
             r == p.rest
             n == f.name
             X == AnyText
  <1>1. Dealt(A, x, v, r) /\ r \in Seq(X) /\ n \in FlagNames
    BY DEF DealtIn, Dealt, Texted, FlagNames
  <1>2. n # ""
    BY CommandLineAssumption
  <1>3. CASE v[n] # <<>> \/ r = <<>>
    BY <1>3 DEF Assign
  <1>4. CASE ~(v[n] # <<>> \/ r = <<>>) /\ f.repeated
    <2>1. Assign(p, f) = Parsed([v EXCEPT ![n] = r], <<>>)
      BY <1>4 DEF Assign
    <2> HIDE DEF v, r, n, X
    <2>2. r = r \o <<>> /\ <<>> \in Seq(X)
      BY <1>1, ConcatEmptySeq, EmptySeq
    <2>3. Dealt(A, x, [v EXCEPT ![n] = r], <<>>)
      BY <1>1, <1>2, <1>4, <2>2, Redealt DEF X
    <2>. QED  BY <2>1, <2>3, DealtParsed
  <1>5. CASE ~(v[n] # <<>> \/ r = <<>>) /\ ~f.repeated
    <2>1. Assign(p, f) = Parsed([v EXCEPT ![n] = <<Head(r)>>], Tail(r))
      BY <1>5 DEF Assign
    <2> HIDE DEF v, r, n, X
    <2>2. <<Head(r)>> \in Seq(X) /\ Tail(r) \in Seq(X) /\ r = <<Head(r)>> \o Tail(r)
      BY <1>1, <1>5, Ahead, HeadThenTail
    <2>3. Dealt(A, x, [v EXCEPT ![n] = <<Head(r)>>], Tail(r))
      BY <1>1, <1>2, <1>5, <2>2, Redealt DEF X
    <2>. QED  BY <2>1, <2>3, DealtParsed
  <1>. QED  BY <1>3, <1>4, <1>5

LEMMA AssignedDeals ==
    ASSUME command \in Commands, NEW A, NEW x, NEW p, DealtIn(A, x, p)
    PROVE  DealtIn(A, x, AssignPositionals(p))
  <1> DEFINE s == Positionals
             N == Len(s)
  <1>1. N \in Nat /\ \A i \in 1..N : s[i] \in ToSet(command)
    BY SlotsCounted
  <1>2. PICK acc : /\ acc[0] = p
                   /\ \A i \in 1..N : acc[i] = Assign(acc[i - 1], s[i])
                   /\ AssignPositionals(p) = acc[N]
    BY <1>1, AssignUnfolds
  <1> HIDE DEF s, N
  <1> DEFINE S == {n \in Nat : n <= N => DealtIn(A, x, acc[n])}
  <1>3. 0 \in S
    BY <1>2
  <1>4. ASSUME NEW n \in Nat, n \in S PROVE n + 1 \in S
    <2>1. SUFFICES ASSUME n + 1 <= N PROVE DealtIn(A, x, acc[n + 1])
      OBVIOUS
    <2>2. n <= N /\ n + 1 \in 1..N /\ (n + 1) - 1 = n
      BY <1>1, <2>1
    <2>3. DealtIn(A, x, acc[n]) /\ s[n + 1] \in ToSet(command)
      BY <1>1, <1>4, <2>2
    <2>4. acc[n + 1] = Assign(acc[n], s[n + 1])
      BY <1>2, <2>2
    <2>. QED  BY <2>3, <2>4, AssignDeals
  <1>5. N \in S
    <2> HIDE DEF S
    <2>. QED  BY <1>1, <1>3, <1>4, SetInduction
  <1>6. DealtIn(A, x, acc[N])
    BY <1>1, <1>5
  <1>. QED  BY <1>2, <1>6

\* Texts of a complete command: what was typed, the defaults, what the host supplies.
FullText == AnyText \cup {f.default : f \in ToSet(command)} \cup {Filled[n] : n \in DOMAIN Filled}

LEMMA OneInSeq ==
    ASSUME NEW X, NEW x \in X
    PROVE  <<x>> \in Seq(X)
  OBVIOUS

LEMMA CompletedHolds ==
    ASSUME command \in Commands, NEW v \in Value(AnyText), NEW x
    PROVE  /\ Complete(v) \in Value(FullText)
           /\ Spots(Held(v, <<>>), x) \subseteq Spots(Complete(v), x)
  <1> DEFINE u == Complete(v)
             at(n) == CHOOSE g \in ToSet(command) : g.name = n
  <1>1. ASSUME NEW n \in FlagNames
        PROVE  u[n] = IF v[n] # <<>> THEN v[n]
                      ELSE IF at(n).default # "" THEN <<at(n).default>>
                      ELSE IF n \in DOMAIN Filled THEN <<Filled[n]>>
                      ELSE <<>>
    BY <1>1 DEF Complete
  <1>2. DOMAIN u = FlagNames
    BY DEF Complete
  <1>3. ASSUME NEW n \in FlagNames PROVE at(n) \in ToSet(command)
    BY <1>3 DEF FlagNames
  <1> DEFINE X == AnyText
             Z == FullText
  <1>4. X \subseteq Z
    BY DEF FullText
  <1>5. ASSUME NEW n \in FlagNames PROVE u[n] \in Seq(Z)
    <2> DEFINE a == at(n).default
               b == Filled[n]
               w == v[n]
    <2>1. u[n] = IF w # <<>> THEN w ELSE IF a # "" THEN <<a>>
                 ELSE IF n \in DOMAIN Filled THEN <<b>> ELSE <<>>
      BY <1>1
    <2>2. w \in Seq(X)
      BY DEF Value
    <2>3. a \in Z /\ (n \in DOMAIN Filled => b \in Z)
      BY <1>3 DEF FullText
    <2> HIDE DEF a, b, w, u, X, Z
    <2>4. w \in Seq(Z)
      BY <1>4, <2>2, SeqMonotonic
    <2>5. <<a>> \in Seq(Z) /\ (n \in DOMAIN Filled => <<b>> \in Seq(Z)) /\ <<>> \in Seq(Z)
      BY <2>3, OneInSeq, EmptySeq
    <2>. QED  BY <2>1, <2>4, <2>5
  <1>6. u \in [FlagNames -> Seq(Z)]
    <2> DEFINE val(n) == IF v[n] # <<>> THEN v[n]
                         ELSE IF at(n).default # "" THEN <<at(n).default>>
                         ELSE IF n \in DOMAIN Filled THEN <<Filled[n]>>
                         ELSE <<>>
    <2>1. u = [n \in FlagNames |-> val(n)]
      BY DEF Complete
    <2>2. \A n \in FlagNames : val(n) = u[n]
      BY <1>1
    <2>3. \A n \in FlagNames : val(n) \in Seq(Z)
      <3> HIDE DEF val, u, Z
      <3>. QED  BY <1>5, <2>2
    <2> HIDE DEF val, u, Z
    <2>. QED  BY <2>1, <2>3
  <1>7. ASSUME NEW p \in Spots(Held(v, <<>>), x) PROVE p \in Spots(u, x)
    <2> DEFINE e == <<>>
               h == Held(v, e)
               n == p[1]
               i == p[2]
    <2>1. p = <<n, i>> /\ n \in DOMAIN h /\ i \in Nat /\ i \in DOMAIN h[n] /\ h[n][i] = x
      BY <1>7, SpotHas
    <2>2. DOMAIN h = Slot /\ h[""] = e
      BY HeldParts
    <2>3. DOMAIN e = {}
      OBVIOUS
    <2> HIDE DEF n, i
    <2>4. n # "" /\ n \in FlagNames
      <3> HIDE DEF h, e
      <3>. QED  BY <2>1, <2>2, <2>3 DEF Slot
    <2>5. h[n] = v[n]
      BY <2>4, HeldParts
    <2>6. v[n] # <<>>
      BY <2>1, <2>3, <2>5
    <2>7. u[n] = v[n]
      BY <1>1, <2>4, <2>6
    <2> HIDE DEF u, h
    <2>8. i \in DOMAIN u[n] /\ u[n][i] = x
      BY <2>1, <2>5, <2>7
    <2>9. <<n, i>> \in Spots(u, x)
      BY <1>2, <2>1, <2>4, <2>8, SpotIs
    <2>. QED  BY <2>1, <2>9
  <1>. QED  BY <1>6, <1>7 DEF Value
-----------------------------------------------------------------------------
(* What is sent *)

LEMMA OneToOne ==
    ASSUME NEW S, NEW T, NEW g \in [S -> T], \A a, b \in S : g[a] = g[b] => a = b
    PROVE  g \in Injection(S, T)
  BY DEF Injection, IsInjective

\* Every flag of the command has its place among the fields.
LEMMA FlagsCounted ==
    ASSUME command \in Commands
    PROVE  /\ IsFiniteSet(ToSet(command)) /\ Cardinality(ToSet(command)) = Len(command)
           /\ Len(command) \in Nat /\ DOMAIN command = 1..Len(command)
           /\ \A f, g \in ToSet(command) : f # g => f.field # g.field
           /\ \A f \in ToSet(command) : f.field \in Nat
  <1> DEFINE F == ToSet(command)
             n == Len(command)
  <1>1. command \in Seq(F) /\ \A f \in F : f.field \in Nat
    BY CommandLineAssumption
  <1>2. \A i, j \in DOMAIN command : i # j => command[i].field # command[j].field
    BY CommandLineAssumption
  <1>3. n \in Nat /\ DOMAIN command = 1..n
    <2> HIDE DEF F
    <2>. QED  BY <1>1, LenProperties
  <1>4. \A f \in F : \E i \in 1..n : command[i] = f
    BY <1>3 DEF ToSet
  <1>5. \A i \in 1..n : command[i] \in F
    BY <1>3 DEF ToSet
  <1>6. command \in [1..n -> F]
    <2> HIDE DEF F, n
    <2>. QED  BY <1>1, <1>3, <1>5, SeqDef
  <1> HIDE DEF F, n
  <1>7. \A i, j \in 1..n : command[i] = command[j] => i = j
    BY <1>2, <1>3
  <1>8. command \in Surjection(1..n, F)
    BY <1>4, <1>6 DEF Surjection
  <1>9. command \in Injection(1..n, F)
    BY <1>6, <1>7, OneToOne
  <1>10. IsFiniteSet(1..n) /\ Cardinality(1..n) = n
    <2>1. 1 \in Int /\ n \in Int
      BY <1>3
    <2>2. IsFiniteSet(1..n) /\ Cardinality(1..n) = IF 1 > n THEN 0 ELSE n - 1 + 1
      BY <2>1, FS_Interval
    <2>. QED  BY <1>3, <2>2
  <1>11. IsFiniteSet(F) /\ Cardinality(F) = n
    <2>1. IsFiniteSet(F) /\ (Cardinality(F) = Cardinality(1..n) <=> command \in Injection(1..n, F))
      BY <1>8, <1>10, FS_Surjection
    <2>. QED  BY <1>9, <1>10, <2>1
  <1>12. \A f, g \in F : f # g => f.field # g.field
    BY <1>2, <1>3, <1>4
  <1>. QED  BY <1>1, <1>3, <1>11, <1>12 DEF F, n

LEMMA SubsetSmaller ==
    ASSUME NEW S, IsFiniteSet(S), NEW T, T \subseteq S, NEW x \in S, x \notin T
    PROVE  Cardinality(T) \in Nat /\ Cardinality(S) \in Nat /\ Cardinality(T) < Cardinality(S)
  <1>1. /\ IsFiniteSet(T) /\ Cardinality(T) <= Cardinality(S)
        /\ Cardinality(S) = Cardinality(T) => S = T
    <2>1. T \in SUBSET S
      OBVIOUS
    <2>. QED  BY <2>1, FS_Subset
  <1>2. Cardinality(T) \in Nat /\ Cardinality(S) \in Nat
    BY <1>1, FS_CardinalityType
  <1>3. S # T
    OBVIOUS
  <1>. QED  BY <1>1, <1>2, <1>3

LEMMA FieldsRanked ==
    ASSUME command \in Commands
    PROVE  /\ \A i \in DOMAIN command : FieldsInOrder[i] \in ToSet(command)
           /\ \A f \in ToSet(command) : \E i \in DOMAIN command : FieldsInOrder[i] = f
  <1> DEFINE F == ToSet(command)
             n == Len(command)
             rank == [f \in F |-> Cardinality(Lower(f))]
             R == 0..(n - 1)
             at(i) == CHOOSE f \in F : Cardinality(Lower(f)) = i - 1
  <1>1. /\ IsFiniteSet(F) /\ Cardinality(F) = n /\ n \in Nat /\ DOMAIN command = 1..n
        /\ \A f, g \in F : f # g => f.field # g.field
        /\ \A f \in F : f.field \in Nat
    BY FlagsCounted
  <1>2. \A f \in F : rank[f] = Cardinality(Lower(f))
    OBVIOUS
  <1>3. DOMAIN rank = F
    OBVIOUS
  <1>4. rank = [f \in F |-> rank[f]]
    OBVIOUS
  <1>5. FieldsInOrder = [i \in DOMAIN command |-> at(i)]
    BY DEF FieldsInOrder
  <1>6. \A f \in F : Lower(f) = {g \in F : g.field < f.field}
    BY DEF Lower
  <1> HIDE DEF F, n, rank
  <1>7. ASSUME NEW f \in F PROVE rank[f] \in R
    <2>1. Lower(f) \subseteq F /\ f \notin Lower(f)
      BY <1>1, <1>6
    <2>2. Cardinality(Lower(f)) \in Nat /\ Cardinality(Lower(f)) < n
      BY <1>1, <2>1, SubsetSmaller
    <2>. QED  BY <1>1, <1>2, <2>2
  <1>8. ASSUME NEW f \in F, NEW g \in F, f.field < g.field PROVE rank[f] < rank[g]
    <2>1. Lower(f) \subseteq Lower(g) /\ f \in Lower(g) /\ f \notin Lower(f)
      BY <1>1, <1>6, <1>8
    <2>2. IsFiniteSet(Lower(g))
      <3>1. Lower(g) \in SUBSET F
        BY <1>6
      <3>. QED  BY <1>1, <3>1, FS_Subset
    <2>3. Cardinality(Lower(f)) < Cardinality(Lower(g))
      BY <2>1, <2>2, SubsetSmaller
    <2>. QED  BY <1>2, <2>3
  <1>9. ASSUME NEW f \in F, NEW g \in F, rank[f] = rank[g] PROVE f = g
    <2>1. SUFFICES ASSUME f # g PROVE FALSE
      OBVIOUS
    <2>2. f.field # g.field /\ f.field \in Nat /\ g.field \in Nat
      BY <1>1, <2>1
    <2>3. f.field < g.field \/ g.field < f.field
      BY <2>2
    <2>4. rank[f] < rank[g] \/ rank[g] < rank[f]
      BY <1>8, <2>3
    <2>5. rank[f] \in Nat /\ rank[g] \in Nat
      BY <1>7
    <2>. QED  BY <1>9, <2>4, <2>5
  <1>10. rank \in [F -> R]
    BY <1>4, <1>7
  <1>11. rank \in Injection(F, R)
    BY <1>9, <1>10, OneToOne
  <1>12. IsFiniteSet(R) /\ Cardinality(R) = n
    <2>1. 0 \in Int /\ n - 1 \in Int
      BY <1>1
    <2>2. IsFiniteSet(R) /\ Cardinality(R) = IF 0 > n - 1 THEN 0 ELSE (n - 1) - 0 + 1
      BY <2>1, FS_Interval
    <2>. QED  BY <1>1, <2>2
  <1>13. rank \in Surjection(F, R)
    <2>1. Cardinality(F) = Cardinality(R) <=> rank \in Surjection(F, R)
      BY <1>11, <1>12, FS_Injection
    <2>. QED  BY <1>1, <1>12, <2>1
  <1>14. \A k \in R : \E f \in F : rank[f] = k
    BY <1>13 DEF Surjection
  <1>15. ASSUME NEW i \in 1..n PROVE at(i) \in F /\ rank[at(i)] = i - 1
    <2>1. i - 1 \in R
      BY <1>1
    <2>2. \E f \in F : Cardinality(Lower(f)) = i - 1
      BY <1>2, <1>14, <2>1
    <2>3. at(i) \in F /\ Cardinality(Lower(at(i))) = i - 1
      BY <2>2
    <2> HIDE DEF at
    <2>. QED  BY <1>2, <2>3
  <1> HIDE DEF at
  <1>16. \A i \in 1..n : FieldsInOrder[i] = at(i)
    BY <1>1, <1>5
  <1>17. ASSUME NEW f \in F PROVE \E i \in 1..n : FieldsInOrder[i] = f
    <2> DEFINE i == rank[f] + 1
    <2>1. i \in 1..n /\ i - 1 = rank[f]
      BY <1>1, <1>7
    <2> HIDE DEF i
    <2>2. at(i) = f
      BY <1>9, <1>15, <2>1
    <2>. QED  BY <1>16, <2>1, <2>2
  <1>. QED  BY <1>1, <1>15, <1>16, <1>17 DEF F

\* The field made of one value.
FieldOf(f, text) ==
    [field |-> f.field, typed |-> text, wire |-> Encoded(f, SourceText(f, text))]
AnyField == {FieldOf(f, text) : f \in ToSet(command), text \in FullText}
TypedAt(w, x) == {i \in DOMAIN w : w[i].typed = x}

LEMMA FieldsOfFlag ==
    ASSUME NEW f \in ToSet(command), NEW v \in Value(FullText), NEW x
    PROVE  Fields(v, f) \in Seq(AnyField) /\ TypedAt(Fields(v, f), x) = Where(v[f.name], x)
  <1> DEFINE s == v[f.name]
             w == Fields(v, f)
  <1>1. s \in Seq(FullText)
    BY DEF Value, FlagNames
  <1>2. w = [i \in DOMAIN s |-> FieldOf(f, s[i])]
    BY DEF Fields, FieldOf
  <1>3. \A text : FieldOf(f, text).typed = text
    BY DEF FieldOf
  <1>4. ASSUME NEW text \in FullText PROVE FieldOf(f, text) \in AnyField
    BY DEF AnyField
  <1> HIDE DEF s, w
  <1>5. DOMAIN w = DOMAIN s /\ \A i \in DOMAIN s : w[i] = FieldOf(f, s[i])
    BY <1>2
  <1>6. TypedAt(w, x) = Where(s, x)
    BY <1>3, <1>5 DEF TypedAt, Where
  <1>7. w \in Seq(AnyField)
    <2> DEFINE n == Len(s)
    <2>1. n \in Nat /\ DOMAIN s = 1..n /\ \A i \in 1..n : s[i] \in FullText
      BY <1>1
    <2> HIDE DEF n
    <2>2. w \in [1..n -> AnyField]
      BY <1>2, <1>4, <2>1
    <2>. QED  BY <2>1, <2>2, AsSequence
  <1>. QED  BY <1>6, <1>7 DEF s, w

LEMMA TypedInConcat ==
    ASSUME NEW Y, NEW w \in Seq(Y), NEW z \in Seq(Y), NEW x, NEW A, NEW C,
           Fits(A, TypedAt(w, x)), Fits(C, TypedAt(z, x))
    PROVE  Fits(A \cup C, TypedAt(w \o z, x))
  <1> DEFINE B == TypedAt(w, x)
             D == TypedAt(z, x)
             E == TypedAt(w \o z, x)
  <1>1. B \subseteq DOMAIN w /\ D \subseteq Nat \ {0}
    <2>1. DOMAIN z = 1..Len(z) /\ Len(z) \in Nat
      OBVIOUS
    <2>. QED  BY <2>1 DEF TypedAt
  <1>2. B \cup Shifted(Len(w), D) \subseteq E
    <2> DEFINE c == w \o z
    <2>1. /\ \A i \in DOMAIN w : i \in DOMAIN c /\ c[i] = w[i]
          /\ \A i \in DOMAIN z : Len(w) + i \in DOMAIN c /\ c[Len(w) + i] = z[i]
      BY ConcatParts
    <2> HIDE DEF c
    <2>. QED  BY <2>1 DEF TypedAt, Shifted, c
  <1>3. Fits(A, B) /\ Fits(C, D)
    OBVIOUS
  <1> HIDE DEF B, D, E
  <1>4. Fits(A \cup C, B \cup Shifted(Len(w), D))
    BY <1>1, <1>3, FitsInConcat
  <1>. QED  BY <1>2, <1>4, FitsWithin, FitsFurther DEF E

\* The values of the first k flags, in the order of the fields.
Leading(k) == {FieldsInOrder[i].name : i \in 1..k}
SpotsUpTo(v, x, k) == {p \in Spots(v, x) : p[1] \in Leading(k)}

LEMMA OneFlagMore ==
    ASSUME NEW v, NEW x, NEW k \in Nat, NEW n, n = FieldsInOrder[k + 1].name
    PROVE  SpotsUpTo(v, x, k + 1) \subseteq SpotsUpTo(v, x, k) \cup SpotsAt(v, x, n)
  <1>1. 1..(k + 1) = (1..k) \cup {k + 1}
    OBVIOUS
  <1>2. Leading(k + 1) = Leading(k) \cup {n}
    BY <1>1 DEF Leading
  <1>. QED  BY <1>2 DEF SpotsUpTo, SpotsAt

\* Each typed text that the values hold is sent.
LEMMA AllIsSent ==
    ASSUME command \in Commands, NEW v \in Value(FullText), NEW x
    PROVE  Fits(Spots(v, x), TypedAt(Sent(v).fields, x))
  <1> DEFINE N == Len(command)
             at(i) == Fields(v, FieldsInOrder[i])
             s == [i \in DOMAIN command |-> at(i)]
             X == AnyField
  <1>1. N \in Nat /\ DOMAIN command = 1..N
    BY FlagsCounted
  <1>2. /\ \A i \in 1..N : FieldsInOrder[i] \in ToSet(command)
        /\ \A f \in ToSet(command) : \E i \in 1..N : FieldsInOrder[i] = f
    BY <1>1, FieldsRanked
  <1>3. Sent(v).fields = FlattenSeq(s)
    BY DEF Sent
  <1>4. DOMAIN s = 1..N /\ \A i \in 1..N : s[i] = at(i)
    BY <1>1
  <1>5. s \in Seq(Seq(X)) /\ Len(s) = N
    <2>1. ASSUME NEW i \in 1..N PROVE s[i] \in Seq(X)
      <3>1. at(i) \in Seq(X)
        BY <1>2, FieldsOfFlag
      <3>. QED  BY <1>4, <3>1
    <2>2. s = [i \in 1..N |-> s[i]]
      BY <1>1, <1>4
    <2> HIDE DEF s, N, X
    <2>3. s \in [1..N -> Seq(X)]
      BY <1>1, <2>1, <2>2
    <2>. QED  BY <1>1, <2>3, AsSequence
  <1> DEFINE Good(k, w) == Fits(SpotsUpTo(v, x, k), TypedAt(w, x))
             G == {g \in Nat \X Seq(X) : Good(g[1], g[2])}
  <1>6. <<0, <<>> >> \in G
    <2>1. SpotsUpTo(v, x, 0) = {}
      <3>1. 1..0 = {}
        OBVIOUS
      <3>. QED  BY <3>1 DEF SpotsUpTo, Leading
    <2>2. {} \subseteq TypedAt(<<>>, x)
      OBVIOUS
    <2>3. Good(0, <<>>)
      BY <2>1, <2>2, FitsWithin
    <2>4. <<>> \in Seq(X)
      BY EmptySeq
    <2> HIDE DEF Good
    <2>. QED  BY <2>3, <2>4
  <1>7. ASSUME NEW k \in Nat, NEW w \in Seq(X), k + 1 \in 1..N, <<k, w>> \in G
        PROVE  <<k + 1, w \o s[k + 1]>> \in G
    <2> DEFINE f == FieldsInOrder[k + 1]
               n == f.name
               z == s[k + 1]
               A == SpotsUpTo(v, x, k)
               C == SpotsAt(v, x, n)
    <2>1. Good(k, w)
      <3> HIDE DEF Good
      <3>. QED  BY <1>7
    <2>2. z \in Seq(X) /\ TypedAt(z, x) = Where(v[n], x)
      <3>1. z = Fields(v, f)
        BY <1>4, <1>7
      <3>2. f \in ToSet(command)
        BY <1>2, <1>7
      <3> HIDE DEF f, z, X
      <3>. QED  BY <3>1, <3>2, FieldsOfFlag DEF X
    <2>3. Fits(C, TypedAt(z, x))
      <3>1. Fits(SpotsAt(v, x, n), Where(v[n], x))
        BY FitsAt
      <3> HIDE DEF z, n
      <3>. QED  BY <2>2, <3>1
    <2>4. Fits(A, TypedAt(w, x))
      BY <2>1
    <2>5. SpotsUpTo(v, x, k + 1) \subseteq A \cup C
      BY OneFlagMore
    <2> DEFINE w1 == w \o z
    <2>6. w1 \in Seq(X)
      <3> HIDE DEF z, X
      <3>. QED  BY <2>2, ConcatProperties
    <2>7. Good(k + 1, w1)
      <3> HIDE DEF A, C, z, X, s
      <3>1. Fits(A \cup C, TypedAt(w \o z, x))
        BY <2>2, <2>3, <2>4, TypedInConcat
      <3>2. Fits(SpotsUpTo(v, x, k + 1), A \cup C)
        BY <2>5, FitsWithin
      <3>. QED  BY <3>1, <3>2, FitsFurther
    <2> HIDE DEF Good, w1, X
    <2> DEFINE g == <<k + 1, w1>>
    <2>8. g \in Nat \X Seq(X) /\ g[1] = k + 1 /\ g[2] = w1
      BY <2>6, PairUp, Zenon
    <2> HIDE DEF g
    <2>9. g \in G
      BY <2>7, <2>8
    <2>. QED  BY <2>9 DEF g, w1
  <1>8. <<N, FlattenSeq(s)>> \in G
    <2> HIDE DEF s, N, G, X
    <2>. QED  BY <1>5, <1>6, <1>7, FlattenReaches
  <1>9. Good(N, FlattenSeq(s))
    <2> HIDE DEF s, N, Good
    <2>. QED  BY <1>8
  <1>10. SpotsUpTo(v, x, N) = Spots(v, x)
    <2>1. DOMAIN v = FlagNames
      BY DEF Value
    <2>2. \A n \in FlagNames : n \in Leading(N)
      BY <1>2 DEF FlagNames, Leading
    <2>3. \A p \in Spots(v, x) : p[1] \in FlagNames
      BY <2>1, SpotHas
    <2>. QED  BY <2>2, <2>3 DEF SpotsUpTo
  <1> HIDE DEF s
  <1>. QED  BY <1>3, <1>9, <1>10

\* A request sent of a reading that holds w holds it too.
LEMMA ReadIsSent ==
    ASSUME command \in Commands, NEW tier, NEW s \in Seq(AnyWord), NEW w, ~IsDashed(w),
           Request(tier, Parse(tier, s)).sent
    PROVE  Fits(Where(s, w), Supplied(w.text, Request(tier, Parse(tier, s))))
  <1> DEFINE r == ReadWords(tier, s)
             p == Parse(tier, s)
             q == Request(tier, p)
             x == w.text
             W == Where(s, w)
             a == AssignPositionals(p)
             u == Complete(a.values)
             All == \A f \in ToSet(command) : Valid(tier, u, f)
  <1>1. Followed(s, w, r)
    BY ReadFollowed
  <1>2. q = IF p.ok /\ a.rest = <<>> /\ All THEN Sent(u) ELSE NoRequest
    BY RequestOf
  <1>3. NoRequest.sent = FALSE
    BY DEF NoRequest
  <1>4. q.sent
    OBVIOUS
  <1>5. p.ok /\ a.rest = <<>> /\ q = Sent(u)
    <2> HIDE DEF p, q, a, u, All
    <2>. QED  BY <1>2, <1>3, <1>4
  <1>6. r.ok /\ p = Parsed(r.values, r.rest)
    <2>1. p = IF r.ok /\ r.open = "" THEN Parsed(r.values, r.rest) ELSE Refused
      BY DEF Parse
    <2>2. Refused.ok = FALSE
      BY DEF Refused
    <2> HIDE DEF p, r
    <2>. QED  BY <1>5, <2>1, <2>2
  <1>7. DealtIn(W, x, p)
    <2> DEFINE v == r.values
               e == r.rest
    <2>1. Texted(v, e) /\ Fits(W, Spots(Held(v, e), x))
      BY <1>1, <1>6, FollowedHas
    <2>2. p = Parsed(v, e)
      BY <1>6
    <2> HIDE DEF v, e, r, p, W, x
    <2>. QED  BY <2>1, <2>2, DealtParsed DEF Dealt
  <1> HIDE DEF r, p, q, W, x, u
  <1>8. DealtIn(W, x, a)
    BY <1>7, AssignedDeals
  <1> DEFINE v == a.values
             e == <<>>
  <1>9. v \in Value(AnyText) /\ Fits(W, Spots(Held(v, e), x))
    BY <1>5, <1>8 DEF DealtIn, Dealt, Texted
  <1>10. u = Complete(v)
    BY DEF u
  <1> HIDE DEF v, a
  <1>11. u \in Value(FullText) /\ Spots(Held(v, e), x) \subseteq Spots(u, x)
    BY <1>9, <1>10, CompletedHolds
  <1>12. Fits(W, Spots(u, x))
    BY <1>9, <1>11, FitsWithin, FitsFurther
  <1>13. Fits(Spots(u, x), TypedAt(Sent(u).fields, x))
    BY <1>11, AllIsSent
  <1>14. TypedAt(Sent(u).fields, x) = Supplied(x, q)
    BY <1>5 DEF TypedAt, Supplied
  <1>15. Fits(W, Supplied(x, q))
    BY <1>12, <1>13, <1>14, FitsFurther
  <1>. QED  BY <1>15 DEF W, x, q, p

\* When a request is sent, each bare word of the line is the value of a field in it, as
\* often as it was typed (assignPositionals() refuses what is left over).
THEOREM NothingIsDropped == CliSpec => []NothingDropped
  <1>1. ASSUME CliTypeOK PROVE NothingDropped
    <2>1. command \in Commands /\ line \in Seq(Words)
      BY <1>1 DEF CliTypeOK
    <2>2. line \in Seq(AnyWord) /\ ToSet(line) \subseteq Words
      <3>1. Words \subseteq AnyWord
        BY DEF AnyWord
      <3>2. line \in Seq(AnyWord)
        BY <2>1, <3>1, SeqMonotonic
      <3>3. \A i \in DOMAIN line : line[i] \in Words
        BY <2>1
      <3>. QED  BY <3>2, <3>3 DEF ToSet
    <2>3. ASSUME NEW w \in ToSet(line), ~IsDashed(w)
          PROVE  /\ Native(line).sent => Fits(Where(line, w), Supplied(w.text, Native(line)))
                 /\ Typed(line).sent => Fits(Where(line, w), Supplied(w.text, Typed(line)))
      <3> DEFINE s == line
                 t == Permute(s)
                 n == Native(s)
                 d == Typed(s)
      <3>1. t \in Seq(AnyWord) /\ Fits(Where(s, w), Where(t, w))
        BY <2>2, <2>3, PermuteKeeps
      <3>2. n = Request("native", Parse("native", t))
        BY DEF Native, NativeParse
      <3>3. ASSUME n.sent PROVE Fits(Where(s, w), Supplied(w.text, n))
        <4> HIDE DEF t, n
        <4>1. Fits(Where(t, w), Supplied(w.text, n))
          BY <2>1, <2>3, <3>1, <3>2, <3>3, ReadIsSent
        <4>. QED  BY <3>1, <4>1, FitsFurther
      <3>4. ASSUME d.sent PROVE Fits(Where(s, w), Supplied(w.text, d))
        <4>1. d = Request("terminal", TerminalParse(s))
          BY DEF Typed
        <4>2. TerminalParse(s) = Parse("terminal", s) \/ TerminalParse(s) = Refused
          BY DEF TerminalParse
        <4>3. NoRequest.sent = FALSE
          BY DEF NoRequest
        <4> HIDE DEF d
        <4>4. TerminalParse(s) # Refused
          BY <3>4, <4>1, <4>3, RefusedSendsNothing
        <4>5. d = Request("terminal", Parse("terminal", s))
          BY <4>1, <4>2, <4>4
        <4>. QED  BY <2>1, <2>2, <2>3, <3>4, <4>5, ReadIsSent
      <3>. QED  BY <3>3, <3>4
    <2>4. ASSUME NEW w \in ToSet(line) PROVE Times(w.text, line) = Where(line, w)
      <3>1. w \in Words /\ \A i \in DOMAIN line : line[i] \in Words
        BY <2>1, <2>2
      <3>2. \A i \in DOMAIN line : line[i].text = w.text <=> line[i] = w
        BY <3>1, CommandLineAssumption
      <3>. QED  BY <3>2 DEF Times, Where
    <2>5. ASSUME NEW q \in {Native(line), Typed(line)}, NEW w \in ToSet(line), q.sent, ~IsDashed(w)
          PROVE  Fits(Times(w.text, line), Supplied(w.text, q))
      <3>1. Fits(Where(line, w), Supplied(w.text, q))
        BY <2>3, <2>5
      <3>. QED  BY <2>4, <3>1
    <2>. QED  BY <2>5 DEF NothingDropped, Fits
  <1>. QED  BY <1>1, CliTypeCorrect, PTL

=============================================================================
