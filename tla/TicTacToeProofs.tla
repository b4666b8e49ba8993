--------------------------- MODULE TicTacToeProofs ---------------------------
(***************************************************************************)
(* Proofs about TicTacToe, for any board and any ways to win on it, and    *)
(* any number of processes that save over one another and die.             *)
(***************************************************************************)
EXTENDS TicTacToe, FiniteSetTheorems, SequenceTheorems, WellFoundedInduction, TLAPS

-----------------------------------------------------------------------------
(* Induction, in terms of sets *)

Below == {ss \in Nat \X Nat : ss[1] < ss[2]}

LEMMA BelowIsWellFounded == IsWellFoundedOn(Below, Nat)
  BY NatLessThanWellFounded DEF OpToRel, Below

LEMMA LeastElement ==
    ASSUME NEW S \in SUBSET Nat, S # {}
    PROVE  \E n \in S : \A m \in S : n <= m
  <1>1. PICK n \in S : \A m \in S : <<m, n>> \notin Below
    BY BelowIsWellFounded, WFMin
  <1>2. \A m \in S : n <= m
    <2> TAKE m \in S
    <2>1. <<m, n>> \in Nat \X Nat /\ <<m, n>>[1] = m /\ <<m, n>>[2] = n
      OBVIOUS
    <2>2. ~(m < n)
      BY <1>1, <2>1 DEF Below
    <2>. QED  BY <2>2
  <1>. QED  BY <1>2

LEMMA SetInduction ==
    ASSUME NEW S, 0 \in S, \A n \in Nat : n \in S => n + 1 \in S
    PROVE  Nat \subseteq S
  <1>1. SUFFICES ASSUME Nat \ S # {} PROVE FALSE
    OBVIOUS
  <1>2. PICK n \in Nat \ S : \A m \in Nat \ S : n <= m
    BY <1>1, LeastElement
  <1>3. n - 1 \in Nat /\ ~(n <= n - 1)
    BY <1>2
  <1>4. n - 1 \in S
    BY <1>2, <1>3
  <1>. QED  BY <1>2, <1>3, <1>4

-----------------------------------------------------------------------------
(* Games *)

\* Who moves after n moves.
Mover(n) == IF n % 2 = 0 THEN "X" ELSE "O"

Stones(h) == {h[i].square : i \in DOMAIN h}

Game == [board : [Squares -> Marks \cup {"none"}], turn : Marks \cup {"none"},
         outcome : Outcomes, line : SUBSET Squares, history : Seq(Move)]

\* What JudgedRight says of the game in the file.
Judged(g) ==
    LET h == g.history
    IN  /\ \A s \in Squares : g.board[s] = IF s \in Holds(h, "X") THEN "X"
                                           ELSE IF s \in Holds(h, "O") THEN "O" ELSE "none"
        /\ Cardinality(Stones(h)) = Len(h)
        /\ g.outcome = IF HasLine(h, "X") THEN "X_wins"
                       ELSE IF HasLine(h, "O") THEN "O_wins"
                       ELSE IF Len(h) = Cardinality(Squares) THEN "draw" ELSE "in_progress"
        /\ g.turn = IF g.outcome # "in_progress" THEN "none" ELSE Mover(Len(h))
        /\ g.outcome = "X_wins" => g.line # {} /\ g.line \subseteq Holds(h, "X")
        /\ g.outcome = "O_wins" => g.line # {} /\ g.line \subseteq Holds(h, "O")

GoodGame(g) ==
    /\ g \in Game
    /\ g.line \in {Lines[i] : i \in DOMAIN Lines} \cup {{}}
    /\ Judged(g)
    /\ Holds(g.history, "X") \cap Holds(g.history, "O") = {}

LEMMA MoversAlternate ==
    ASSUME NEW n \in Nat
    PROVE  /\ Mover(n) \in Marks /\ Mover(n + 1) = IF Mover(n) = "X" THEN "O" ELSE "X"
           /\ Mover(n + 1) # Mover(n) /\ Marks = {Mover(n), Mover(n + 1)}
  <1>1. (n % 2 = 0 <=> (n + 1) % 2 = 1) /\ n % 2 \in {0, 1} /\ (n + 1) % 2 \in {0, 1}
    OBVIOUS
  <1>. QED  BY <1>1 DEF Mover, Marks

\* A history and the one with a move m more.
LEMMA LongerHistory ==
    ASSUME NEW h \in Seq(Move), NEW m \in Move
    PROVE  /\ Append(h, m) \in Seq(Move) /\ Len(Append(h, m)) = Len(h) + 1
           /\ DOMAIN h = 1..Len(h) /\ DOMAIN Append(h, m) = 1..(Len(h) + 1)
           /\ \A i \in 1..Len(h) : Append(h, m)[i] = h[i]
           /\ Append(h, m)[Len(h) + 1] = m
  OBVIOUS

LEMMA HeldSquares ==
    ASSUME NEW h \in Seq(Move)
    PROVE  /\ Stones(h) = Holds(h, "X") \cup Holds(h, "O")
           /\ Stones(h) \subseteq Squares
           /\ IsFiniteSet(Stones(h)) /\ Cardinality(Stones(h)) <= Cardinality(Squares)
  <1>1. DOMAIN h = 1..Len(h) /\ Len(h) \in Nat
    OBVIOUS
  <1>2. \A i \in DOMAIN h : i % 2 \in {0, 1}
    BY <1>1
  <1>3. Stones(h) = Holds(h, "X") \cup Holds(h, "O")
    BY <1>2 DEF Stones, Holds
  <1>4. Stones(h) \subseteq Squares
    <2>1. \A i \in DOMAIN h : h[i] \in Move
      OBVIOUS
    <2>. QED  BY <2>1 DEF Stones, Move
  <1>. QED  BY <1>3, <1>4, FS_Subset, BoardAssumption

LEMMA MoreSquares ==
    ASSUME NEW h \in Seq(Move), NEW m \in Move
    PROVE  /\ Stones(Append(h, m)) = Stones(h) \cup {m.square}
           /\ \A p \in Marks : Holds(Append(h, m), p) =
                              IF p = Mover(Len(h)) THEN Holds(h, p) \cup {m.square}
                              ELSE Holds(h, p)
  <1> DEFINE k == Append(h, m)
  <1>1. /\ k \in Seq(Move) /\ Len(k) = Len(h) + 1 /\ Len(h) \in Nat
        /\ DOMAIN h = 1..Len(h) /\ DOMAIN k = 1..(Len(h) + 1)
        /\ \A i \in 1..Len(h) : k[i] = h[i]
        /\ k[Len(h) + 1] = m
    BY LongerHistory
  <1> DEFINE n == Len(h)
  <1> HIDE DEF k
  <1>2. DOMAIN k = DOMAIN h \cup {n + 1}
    BY <1>1
  <1>3. Stones(k) = Stones(h) \cup {m.square}
    BY <1>1, <1>2 DEF Stones
  <1>4. (n % 2 = 0 <=> (n + 1) % 2 = 1) /\ (n % 2 \in {0, 1}) /\ ((n + 1) % 2 \in {0, 1})
    BY <1>1
  <1>5. ASSUME NEW p \in Marks
        PROVE  Holds(k, p) = IF p = Mover(n) THEN Holds(h, p) \cup {m.square} ELSE Holds(h, p)
    <2> DEFINE parity == IF p = "X" THEN 1 ELSE 0
    <2>1. Holds(k, p) = {k[i].square : i \in {j \in DOMAIN k : j % 2 = parity}}
          /\ Holds(h, p) = {h[i].square : i \in {j \in DOMAIN h : j % 2 = parity}}
      BY DEF Holds
    <2>2. p = Mover(n) <=> (n + 1) % 2 = parity
      BY <1>4 DEF Mover, Marks
    <2> HIDE DEF parity, n
    <2>3. CASE p = Mover(n)
      <3>1. {j \in DOMAIN k : j % 2 = parity} = {j \in DOMAIN h : j % 2 = parity} \cup {n + 1}
        BY <1>2, <2>2, <2>3
      <3>. QED  BY <1>1, <2>1, <2>3, <3>1 DEF n
    <2>4. CASE p # Mover(n)
      <3>1. {j \in DOMAIN k : j % 2 = parity} = {j \in DOMAIN h : j % 2 = parity}
        BY <1>2, <2>2, <2>4
      <3>. QED  BY <1>1, <2>1, <2>4, <3>1 DEF n
    <2>. QED  BY <2>3, <2>4
  <1>. QED  BY <1>3, <1>5 DEF k

\* The rules are about lines of squares.
LEMMA LineSquares ==
    \A i \in DOMAIN Lines : i \in Nat /\ Lines[i] \subseteq Squares /\ Lines[i] # {}
  BY BoardAssumption

\* The first of the lines that are won is one of them.
LEMMA FirstWon ==
    ASSUME NEW board, Won(board) # {}
    PROVE  Min(Won(board)) \in Won(board)
  <1>1. Won(board) \in SUBSET Nat
    BY LineSquares DEF Won
  <1>2. \E n \in Won(board) : \A m \in Won(board) : n <= m
    BY <1>1, LeastElement
  <1>. QED  BY <1>2 DEF Min

\* What a move on a free square of a game in progress makes of it.
LEMMA PutFields ==
    ASSUME NEW g \in Game, NEW m \in Move
    PROVE  /\ Put(g, m) \in Game
           /\ Put(g, m).board = [g.board EXCEPT ![m.square] = m.mark]
           /\ Put(g, m).history = Append(g.history, m)
           /\ Put(g, m).turn = g.turn /\ Put(g, m).outcome = g.outcome
           /\ Put(g, m).line = g.line
  <1>1. m.square \in Squares /\ m.mark \in Marks
    BY DEF Move
  <1>2. Append(g.history, m) \in Seq(Move) /\ g.board \in [Squares -> Marks \cup {"none"}]
    BY DEF Game
  <1>3. [g.board EXCEPT ![m.square] = m.mark] \in [Squares -> Marks \cup {"none"}]
    BY <1>1, <1>2
  <1>. QED  BY <1>1, <1>2, <1>3 DEF Put, Game

LEMMA EndedFields ==
    ASSUME NEW g \in Game, NEW outcome \in Outcomes, NEW line \in SUBSET Squares
    PROVE  /\ Ended(g, outcome, line) \in Game
           /\ Ended(g, outcome, line).board = g.board
           /\ Ended(g, outcome, line).history = g.history
           /\ Ended(g, outcome, line).outcome = outcome
           /\ Ended(g, outcome, line).line = line
           /\ Ended(g, outcome, line).turn = "none"
  BY DEF Ended, Game

LEMMA PassedFields ==
    ASSUME NEW g \in Game
    PROVE  LET e == Passed(g)
           IN  /\ e \in Game /\ e.board = g.board /\ e.history = g.history
               /\ e.outcome = g.outcome /\ e.line = g.line
               /\ e.turn = IF g.turn = "X" THEN "O" ELSE "X"
  BY DEF Passed, Game, Marks

LEMMA FreshGood == GoodGame(Fresh)
  <1>1. /\ Fresh.board = [s \in Squares |-> "none"] /\ Fresh.turn = "X"
        /\ Fresh.outcome = "in_progress" /\ Fresh.line = {} /\ Fresh.history = <<>>
    BY DEF Fresh
  <1>2. Fresh \in Game
    BY DEF Fresh, Game, Marks, Outcomes
  <1>3. Holds(<<>>, "X") = {} /\ Holds(<<>>, "O") = {} /\ Stones(<<>>) = {}
    BY DEF Holds, Stones
  <1>4. ~HasLine(<<>>, "X") /\ ~HasLine(<<>>, "O")
    BY <1>3, LineSquares DEF HasLine
  <1>5. Cardinality(Stones(<<>>)) = 0 /\ Len(<<>>) = 0 /\ Cardinality(Squares) # 0
    BY <1>3, FS_EmptySet, BoardAssumption
  <1>6. Mover(0) = "X"
    BY DEF Mover
  <1>. QED  BY <1>1, <1>2, <1>3, <1>4, <1>5, <1>6 DEF GoodGame, Judged

\* A game that may be played on.
LEMMA OpenGame ==
    ASSUME NEW g, GoodGame(g), NEW s \in Squares, MayPlay(g, s)
    PROVE  LET h == g.history
           IN  /\ g \in Game /\ h \in Seq(Move) /\ Len(h) \in Nat
               /\ g.outcome = "in_progress" /\ g.turn = Mover(Len(h))
               /\ g.board[s] = "none"
               /\ \A p \in Marks : ~HasLine(h, p) /\ s \notin Holds(h, p)
               /\ [square |-> s, mark |-> g.turn] \in Move
  <1> DEFINE h == g.history
  <1>1. g \in Game /\ h \in Seq(Move) /\ Len(h) \in Nat
    BY DEF GoodGame, Game
  <1>2. g.outcome = "in_progress" /\ g.board[s] = "none"
    BY DEF MayPlay
  <1>3. g.turn = Mover(Len(h))
    BY <1>2 DEF GoodGame, Judged
  <1>4. \A p \in Marks : ~HasLine(h, p)
    BY <1>2 DEF GoodGame, Judged, Marks
  <1>5. \A p \in Marks : s \notin Holds(h, p)
    BY <1>2 DEF GoodGame, Judged, Marks
  <1>6. [square |-> s, mark |-> g.turn] \in Move
    BY <1>3 DEF Move, Mover, Marks
  <1>. QED  BY <1>1, <1>2, <1>3, <1>4, <1>5, <1>6

LEMMA PlayedGood ==
    ASSUME NEW g, GoodGame(g), NEW s \in Squares, MayPlay(g, s)
    PROVE  /\ GoodGame(Played(g, s))
           /\ Played(g, s).history = Append(g.history, [square |-> s, mark |-> g.turn])
  <1> DEFINE h == g.history
             m == [square |-> s, mark |-> g.turn]
             k == Append(h, m)
             p == Mover(Len(h))
             q == Mover(Len(h) + 1)
             g1 == Put(g, m)
             b == g1.board
             won == HasLine(k, p)
  <1>1. /\ g \in Game /\ h \in Seq(Move) /\ Len(h) \in Nat
        /\ g.outcome = "in_progress" /\ g.turn = p
        /\ g.board[s] = "none"
        /\ \A x \in Marks : ~HasLine(h, x) /\ s \notin Holds(h, x)
        /\ m \in Move
    BY OpenGame
  <1>2. m.square = s /\ m.mark = p
    BY <1>1
  <1>3. p \in Marks /\ q \in Marks /\ p # q /\ Marks = {p, q} /\ q = IF p = "X" THEN "O" ELSE "X"
    BY <1>1, MoversAlternate
  <1>4. /\ g1 \in Game /\ g1.board = b /\ g1.history = k
        /\ g1.turn = p /\ g1.outcome = "in_progress" /\ g1.line = g.line
    BY <1>1, <1>2, PutFields
  <1>5. b = [g.board EXCEPT ![s] = p]
    <2>1. Put(g, m).board = [g.board EXCEPT ![m.square] = m.mark]
      BY <1>1, PutFields
    <2> HIDE DEF m, p
    <2>. QED  BY <1>2, <2>1
  <1> HIDE DEF m, k, p, q, g1, b
  <1>6. k \in Seq(Move) /\ Len(k) = Len(h) + 1
    BY <1>1, LongerHistory DEF k
  <1>7. /\ Stones(k) = Stones(h) \cup {s} /\ Holds(k, p) = Holds(h, p) \cup {s}
        /\ Holds(k, q) = Holds(h, q)
    BY <1>1, <1>2, <1>3, MoreSquares DEF k, p
  <1>8. /\ \A x \in Squares : g.board[x] = IF x \in Holds(h, "X") THEN "X"
                                           ELSE IF x \in Holds(h, "O") THEN "O" ELSE "none"
        /\ Holds(h, "X") \cap Holds(h, "O") = {} /\ Cardinality(Stones(h)) = Len(h)
        /\ g.line \in {Lines[i] : i \in DOMAIN Lines} \cup {{}}
    BY DEF GoodGame, Judged
  <1>9. g.board \in [Squares -> Marks \cup {"none"}]
    BY <1>1 DEF Game
  <1> HIDE DEF h
  <1>10. Holds(k, "X") \cap Holds(k, "O") = {}
    BY <1>1, <1>3, <1>7, <1>8 DEF Marks
  <1>11. \A x \in Squares : b[x] = IF x \in Holds(k, "X") THEN "X"
                                   ELSE IF x \in Holds(k, "O") THEN "O" ELSE "none"
    BY <1>1, <1>3, <1>5, <1>7, <1>8, <1>9 DEF Marks
  <1>12. Cardinality(Stones(k)) = Len(k)
    <2>1. s \notin Stones(h)
      BY <1>1, <1>3, HeldSquares DEF Marks
    <2>2. IsFiniteSet(Stones(h))
      BY <1>1, HeldSquares
    <2>3. Cardinality(Stones(h) \cup {s}) = Cardinality(Stones(h)) + 1
      BY <2>1, <2>2, FS_AddElement
    <2>. QED  BY <1>6, <1>7, <1>8, <2>3
  <1>13. \A x \in Squares, y \in Marks : b[x] = y <=> x \in Holds(k, y)
    BY <1>10, <1>11 DEF Marks
  <1>14. ~HasLine(k, q)
    BY <1>1, <1>3, <1>7 DEF HasLine
  <1>15. Full(b) <=> Len(k) = Cardinality(Squares)
    <2>1. Full(b) <=> Squares \subseteq Stones(k)
      BY <1>6, <1>11, HeldSquares DEF Full
    <2>2. Squares \subseteq Stones(k) <=> Cardinality(Stones(k)) = Cardinality(Squares)
      BY <1>6, HeldSquares, FS_Subset, BoardAssumption
    <2>. QED  BY <1>12, <2>1, <2>2
  <1>16. \A i \in DOMAIN Lines, y \in Marks :
           (\A x \in Lines[i] : b[x] = y) <=> Lines[i] \subseteq Holds(k, y)
    BY <1>13, LineSquares
  <1>17. \A i \in DOMAIN Lines : i \in Won(b) <=> Lines[i] \subseteq Holds(k, p)
    BY <1>3, <1>14, <1>16 DEF Won, HasLine
  <1>18. Won(b) # {} <=> won
    BY <1>17 DEF Won, HasLine
  <1> DEFINE d == Decide(g1)
  <1>19. /\ d \in Game /\ d.board = b /\ d.history = k
         /\ d.outcome = IF won THEN (IF p = "X" THEN "X_wins" ELSE "O_wins")
                        ELSE IF Len(k) = Cardinality(Squares) THEN "draw" ELSE "in_progress"
         /\ d.turn = IF d.outcome # "in_progress" THEN "none" ELSE q
         /\ won => d.line # {} /\ d.line \subseteq Holds(k, p)
         /\ d.line \in {Lines[i] : i \in DOMAIN Lines} \cup {{}}
    <2>1. CASE won
      <3> DEFINE i == Min(Won(b))
                 line == Lines[i]
      <3>1. i \in Won(b) /\ i \in DOMAIN Lines
        BY <1>18, <2>1, FirstWon DEF Won
      <3>2. line # {} /\ line \subseteq Squares /\ line \subseteq Holds(k, p)
        BY <1>17, <3>1, LineSquares
      <3>3. (\A x \in line : b[x] = "X") <=> p = "X"
        BY <1>3, <1>10, <1>13, <3>2 DEF Marks
      <3> DEFINE outcome == IF p = "X" THEN "X_wins" ELSE "O_wins"
      <3>4. d = Ended(g1, outcome, line)
        BY <1>18, <2>1, <3>3 DEF Decide, Winner, b
      <3>5. outcome \in Outcomes /\ outcome # "in_progress"
        BY DEF Outcomes
      <3> HIDE DEF d, outcome, line, i
      <3>6. /\ d \in Game /\ d.board = b /\ d.history = k /\ d.outcome = outcome
            /\ d.line = line /\ d.turn = "none"
        <4>1. g1 \in Game /\ line \in SUBSET Squares
          BY <1>4, <3>2
        <4>2. d \in Game /\ d.board = g1.board /\ d.history = g1.history
          BY <3>4, <3>5, <4>1, EndedFields
        <4>3. d.outcome = outcome /\ d.line = line /\ d.turn = "none"
          BY <3>4, <3>5, <4>1, EndedFields
        <4>. QED  BY <1>4, <4>2, <4>3
      <3>. QED  BY <2>1, <3>1, <3>2, <3>5, <3>6 DEF outcome, line
    <2>2. CASE ~won /\ Len(k) = Cardinality(Squares)
      <3>1. d = Ended(g1, "draw", g1.line)
        BY <1>15, <1>18, <2>2 DEF Decide, b
      <3>2. g1.line \in SUBSET Squares /\ "draw" \in Outcomes
        BY <1>4 DEF Game, Outcomes
      <3> HIDE DEF d
      <3>3. /\ d \in Game /\ d.board = b /\ d.history = k /\ d.outcome = "draw"
            /\ d.line = g1.line /\ d.turn = "none"
        <4>1. g1 \in Game
          BY <1>4
        <4>2. d \in Game /\ d.board = g1.board /\ d.history = g1.history
          BY <3>1, <3>2, <4>1, EndedFields
        <4>3. d.outcome = "draw" /\ d.line = g1.line /\ d.turn = "none"
          BY <3>1, <3>2, <4>1, EndedFields
        <4>. QED  BY <1>4, <4>2, <4>3
      <3>. QED  BY <1>4, <1>8, <2>2, <3>3
    <2>3. CASE ~won /\ Len(k) # Cardinality(Squares)
      <3>1. d = Passed(g1)
        BY <1>15, <1>18, <2>3 DEF Decide, b
      <3> HIDE DEF d
      <3>2. /\ d \in Game /\ d.board = b /\ d.history = k /\ d.outcome = "in_progress"
            /\ d.line = g1.line /\ d.turn = q
        BY <1>3, <1>4, <3>1, PassedFields
      <3>. QED  BY <1>4, <1>8, <2>3, <3>2
    <2>. QED  BY <2>1, <2>2, <2>3
  <1>20. d = Played(g, s)
    BY DEF Played, g1, m
  <1> HIDE DEF d
  <1>21. d.outcome = IF HasLine(k, "X") THEN "X_wins"
                     ELSE IF HasLine(k, "O") THEN "O_wins"
                     ELSE IF Len(k) = Cardinality(Squares) THEN "draw" ELSE "in_progress"
    BY <1>3, <1>14, <1>19 DEF Marks
  <1>22. /\ d.outcome = "X_wins" => d.line # {} /\ d.line \subseteq Holds(k, "X")
         /\ d.outcome = "O_wins" => d.line # {} /\ d.line \subseteq Holds(k, "O")
    BY <1>3, <1>19 DEF Marks
  <1>23. q = Mover(Len(k))
    BY <1>6 DEF q
  <1>24. Judged(d)
    BY <1>11, <1>12, <1>19, <1>21, <1>22, <1>23 DEF Judged
  <1>. QED  BY <1>10, <1>19, <1>20, <1>24 DEF GoodGame, k, m, h

-----------------------------------------------------------------------------
(* The replay *)

\* r is the course of game g: every moment of it, from the first on.
Course(g, r) ==
    LET h == g.history
    IN  /\ r \in [0..Len(h) -> Game]
        /\ r[0] = Fresh /\ r[Len(h)] = g
        /\ \A n \in 1..Len(h) : r[n] = Decide(Put(r[n - 1], h[n]))
        /\ \A n \in 0..(Len(h) - 1) : /\ r[n].outcome = "in_progress"
                                      /\ r[n].history = SubSeq(h, 1, n)

Sound(g) == GoodGame(g) /\ \E r : Course(g, r)

\* A replay of n moves of game g.
Replay(f, g, n) ==
    f = [i \in 0..n |-> IF i = 0 THEN Fresh ELSE Decide(Put(f[i - 1], g.history[i]))]

LEMMA ReplayIsCourse ==
    ASSUME NEW g \in Game, NEW r, Course(g, r), NEW n \in 0..Len(g.history)
    PROVE  At(g, n) = r[n]
  <1> DEFINE h == g.history
             replay == CHOOSE f : Replay(f, g, n)
             c == [i \in 0..n |-> r[i]]
  <1>1. h \in Seq(Move) /\ Len(h) \in Nat /\ n \in Nat /\ n <= Len(h)
    BY DEF Game
  <1>2. r[0] = Fresh /\ \A i \in 1..Len(h) : r[i] = Decide(Put(r[i - 1], h[i]))
    BY DEF Course
  <1>3. Replay(c, g, n)
    <2>1. ASSUME NEW i \in 0..n
          PROVE  r[i] = IF i = 0 THEN Fresh ELSE Decide(Put(c[i - 1], h[i]))
      <3>1. i # 0 => i - 1 \in 0..n /\ i \in 1..Len(h)
        BY <1>1
      <3>. QED  BY <1>2, <3>1
    <2>. QED  BY <2>1 DEF Replay
  <1>4. Replay(replay, g, n)
    BY <1>3
  <1>5. At(g, n) = replay[n]
    BY DEF At, Replay
  <1> HIDE DEF replay, c
  <1>6. \A i \in 0..n : replay[i] = IF i = 0 THEN Fresh ELSE Decide(Put(replay[i - 1], h[i]))
    BY <1>4 DEF Replay
  <1> DEFINE S == {i \in Nat : i <= n => replay[i] = r[i]}
  <1>7. Nat \subseteq S
    <2>1. 0 \in S
      BY <1>1, <1>2, <1>6
    <2>2. ASSUME NEW i \in Nat, i \in S PROVE i + 1 \in S
      <3>1. SUFFICES ASSUME i + 1 <= n PROVE replay[i + 1] = r[i + 1]
        OBVIOUS
      <3>2. i + 1 \in 0..n /\ i + 1 \in 1..Len(h) /\ i + 1 # 0 /\ (i + 1) - 1 = i /\ i <= n
        BY <1>1, <3>1
      <3>3. replay[i] = r[i]
        BY <2>2, <3>2
      <3>. QED  BY <1>2, <1>6, <3>2, <3>3
    <2> HIDE DEF S
    <2>. QED  BY <2>1, <2>2, SetInduction
  <1>. QED  BY <1>1, <1>5, <1>7

LEMMA FreshSound == Sound(Fresh)
  <1> DEFINE r == [n \in 0..0 |-> Fresh]
  <1>1. Fresh \in Game /\ Fresh.history = <<>> /\ Len(<<>>) = 0
    BY FreshGood DEF GoodGame, Fresh
  <1>2. Course(Fresh, r)
    BY <1>1 DEF Course
  <1>. QED  BY <1>2, FreshGood DEF Sound

\* A move more leaves what had been played.
LEMMA SamePrefix ==
    ASSUME NEW h \in Seq(Move), NEW m \in Move, NEW n \in 0..Len(h)
    PROVE  SubSeq(Append(h, m), 1, n) = SubSeq(h, 1, n)
  <1> DEFINE k == Append(h, m)
  <1>1. /\ Len(h) \in Nat /\ n \in Int /\ 1 \in Int
        /\ \A i \in 1..n : i \in 1..Len(h) /\ h[i] \in Move
    OBVIOUS
  <1>2. \A i \in 1..n : k[i] = h[i] /\ k[i] \in Move
    BY <1>1, LongerHistory
  <1> HIDE DEF k
  <1>3. /\ SubSeq(h, 1, n) \in Seq(Move)
        /\ Len(SubSeq(h, 1, n)) = IF 1 <= n THEN n - 1 + 1 ELSE 0
        /\ \A i \in 1..(n - 1 + 1) : SubSeq(h, 1, n)[i] = h[1 + i - 1]
    BY <1>1, SubSeqProperties
  <1>4. /\ SubSeq(k, 1, n) \in Seq(Move)
        /\ Len(SubSeq(k, 1, n)) = IF 1 <= n THEN n - 1 + 1 ELSE 0
        /\ \A i \in 1..(n - 1 + 1) : SubSeq(k, 1, n)[i] = k[1 + i - 1]
    BY <1>1, <1>2, SubSeqProperties
  <1>5. \A i \in 1..Len(SubSeq(k, 1, n)) : SubSeq(k, 1, n)[i] = SubSeq(h, 1, n)[i]
    BY <1>1, <1>2, <1>3, <1>4
  <1>. QED  BY <1>3, <1>4, <1>5, SeqEqual DEF k

LEMMA PlayedSound ==
    ASSUME NEW g, Sound(g), NEW s \in Squares, MayPlay(g, s)
    PROVE  Sound(Played(g, s)) /\ OneMoveOn(g, Played(g, s))
  <1> DEFINE h == g.history
             m == [square |-> s, mark |-> g.turn]
             d == Played(g, s)
             k == Append(h, m)
  <1>1. /\ g \in Game /\ h \in Seq(Move) /\ Len(h) \in Nat
        /\ g.outcome = "in_progress" /\ g.turn = Mover(Len(h))
        /\ \A p \in Marks : ~HasLine(h, p) /\ s \notin Holds(h, p)
        /\ m \in Move
    BY OpenGame DEF Sound
  <1>2. h \in Seq(Move) /\ Len(h) \in Nat /\ m \in Move
    BY <1>1
  <1>3. GoodGame(d) /\ d \in Game /\ d.history = k
    BY PlayedGood DEF Sound, GoodGame
  <1>4. d = Decide(Put(g, m))
    BY DEF Played
  <1> HIDE DEF d
  <1>5. OneMoveOn(g, d)
    <2>1. m = [square |-> s, mark |-> IF Len(h) % 2 = 0 THEN "X" ELSE "O"]
      BY <1>1 DEF Mover
    <2>. QED  BY <1>1, <1>3, <2>1 DEF OneMoveOn
  <1>6. PICK r : Course(g, r)
    BY DEF Sound
  <1>7. /\ r \in [0..Len(h) -> Game] /\ r[0] = Fresh /\ r[Len(h)] = g
        /\ \A n \in 1..Len(h) : r[n] = Decide(Put(r[n - 1], h[n]))
    BY <1>6 DEF Course
  <1>8. /\ Len(k) = Len(h) + 1 /\ k[Len(h) + 1] = m
        /\ \A i \in 1..Len(h) : k[i] = h[i]
    BY <1>2, LongerHistory
  <1>9. SubSeq(k, 1, Len(h)) = h /\ \A n \in 0..Len(h) : SubSeq(k, 1, n) = SubSeq(h, 1, n)
    BY <1>2, SamePrefix, SubSeqFull
  <1>10. g.history = h
    OBVIOUS
  <1> DEFINE t == [n \in 0..(Len(h) + 1) |-> IF n = Len(h) + 1 THEN d ELSE r[n]]
  <1> HIDE DEF h, m, k
  <1>11. t \in [0..(Len(h) + 1) -> Game] /\ t[Len(h) + 1] = d /\ \A n \in 0..Len(h) : t[n] = r[n]
    BY <1>2, <1>3, <1>7
  <1> HIDE DEF t
  <1>12. t \in [0..Len(k) -> Game] /\ t[0] = Fresh /\ t[Len(k)] = d
    BY <1>2, <1>7, <1>8, <1>11
  <1>13. ASSUME NEW n \in 1..Len(k) PROVE t[n] = Decide(Put(t[n - 1], k[n]))
    <2>1. CASE n = Len(h) + 1
      BY <1>2, <1>4, <1>7, <1>8, <1>11, <2>1
    <2>2. CASE n # Len(h) + 1
      <3>1. n \in 1..Len(h) /\ n \in 0..Len(h) /\ n - 1 \in 0..Len(h)
        BY <1>2, <1>8, <2>2
      <3>. QED  BY <1>7, <1>8, <1>11, <3>1
    <2>. QED  BY <2>1, <2>2
  <1>14. ASSUME NEW n \in 0..(Len(k) - 1)
         PROVE  t[n].outcome = "in_progress" /\ t[n].history = SubSeq(k, 1, n)
    <2>1. n \in 0..Len(h) /\ t[n] = r[n]
      BY <1>2, <1>8, <1>11
    <2>2. CASE n = Len(h)
      BY <1>1, <1>7, <1>9, <1>10, <2>1, <2>2
    <2>3. CASE n # Len(h)
      <3>1. n \in 0..(Len(h) - 1)
        BY <1>2, <2>1, <2>3
      <3>2. r[n].outcome = "in_progress" /\ r[n].history = SubSeq(h, 1, n)
        BY <1>6, <1>10, <3>1 DEF Course
      <3>. QED  BY <1>9, <2>1, <3>2
    <2>. QED  BY <2>2, <2>3
  <1>15. Course(d, t)
    BY <1>3, <1>12, <1>13, <1>14 DEF Course
  <1>. QED  BY <1>3, <1>5, <1>15 DEF Sound, d

-----------------------------------------------------------------------------
(* The invariant *)

ProcState == [pc : Phases, op : {"none", "play", "new"}, game : Game \cup {None},
              lost : BOOLEAN, alone : BOOLEAN]

FileInv == (file \notin {None, Torn} => Sound(file)) /\ Sound(last)

\* What a process is about to write is a game that was played by the rules.
ProcInv(p) ==
    /\ Busy(p) => Sound(proc[p].game)
    /\ ~Busy(p) => proc[p].game = None

MoveFrom(g, h) == \E s \in Squares : MayPlay(g, s) /\ h = Played(g, s)

\* A command that meets no other still has the file that it loaded, or has
\* truncated that file and noted what it held.
AloneInv(p) ==
    Busy(p) /\ proc[p].alone =>
        /\ ~proc[p].lost
        /\ \A q \in Procs : Busy(q) => q = p
        /\ proc[p].pc = "writing" => file = Torn
        /\ proc[p].op = "play" /\ proc[p].pc = "truncating" =>
             file # Torn /\ MoveFrom(Load, proc[p].game)
        /\ proc[p].op = "play" /\ proc[p].pc = "writing" => MoveFrom(last, proc[p].game)

GInv ==
    /\ FileInv
    /\ proc \in [Procs -> ProcState]
    /\ \A p \in Procs : ProcInv(p) /\ AloneInv(p)

LEMMA IdleState == Idle \in ProcState
  BY DEF Idle, ProcState, Phases

LEMMA LoadedGame ==
    ASSUME FileInv, file # Torn
    PROVE  Sound(Load)
  BY FreshSound DEF FileInv, Load

LEMMA InitInv == Init => GInv
  <1> SUFFICES ASSUME Init PROVE GInv
    OBVIOUS
  <1>1. FileInv
    BY FreshSound DEF Init, FileInv
  <1>2. proc \in [Procs -> ProcState]
    BY IdleState DEF Init
  <1>3. \A p \in Procs : ~Busy(p) /\ proc[p].game = None
    BY DEF Init, Busy, Idle
  <1>. QED  BY <1>1, <1>2, <1>3 DEF GInv, ProcInv, AloneInv

\* A command that starts: what it is to write, and who else is at work.
LEMMA StartFields ==
    ASSUME NEW p \in Procs, NEW op \in {"play", "new"}, NEW game, Sound(game),
           Start(p, op, game), proc \in [Procs -> ProcState]
    PROVE  /\ proc' \in [Procs -> ProcState]
           /\ proc'[p].pc = "truncating" /\ proc'[p].op = op /\ proc'[p].game = game
           /\ proc'[p].lost = FALSE /\ proc'[p].alone = \A r \in Procs : ~Busy(r)
           /\ \A q \in Procs : q # p =>
                /\ proc'[q].pc = proc[q].pc /\ proc'[q].op = proc[q].op
                /\ proc'[q].game = proc[q].game /\ proc'[q].lost = proc[q].lost
                /\ proc'[q].alone = ~Busy(q)
  <1> DEFINE free == \A r \in Procs : ~Busy(r)
             k == [Idle EXCEPT !.pc = "truncating", !.op = op, !.game = game, !.alone = free]
  <1>1. game \in Game
    BY DEF Sound, GoodGame
  <1>2. proc' = [q \in Procs |-> IF q = p THEN k ELSE [proc[q] EXCEPT !.alone = ~Busy(q)]]
    BY DEF Start
  <1>3. free \in BOOLEAN
    OBVIOUS
  <1> HIDE DEF free
  <1>4. /\ k \in ProcState /\ k.pc = "truncating" /\ k.op = op /\ k.game = game
        /\ k.lost = FALSE /\ k.alone = free
    BY <1>1, <1>3, IdleState DEF ProcState, Phases, Idle
  <1> HIDE DEF k
  <1>5. ASSUME NEW q \in Procs, NEW b \in BOOLEAN
        PROVE  LET j == [proc[q] EXCEPT !.alone = b]
               IN  /\ j \in ProcState /\ j.pc = proc[q].pc /\ j.op = proc[q].op
                   /\ j.game = proc[q].game /\ j.lost = proc[q].lost /\ j.alone = b
    <2>1. proc[q] \in ProcState
      OBVIOUS
    <2>. QED  BY <2>1 DEF ProcState
  <1>6. \A q \in Procs : (~Busy(q)) \in BOOLEAN
    OBVIOUS
  <1>7. proc' \in [Procs -> ProcState]
    BY <1>2, <1>4, <1>5, <1>6
  <1>8. proc'[p] = k
    BY <1>2
  <1>9. ASSUME NEW q \in Procs, q # p
        PROVE  /\ proc'[q].pc = proc[q].pc /\ proc'[q].op = proc[q].op
               /\ proc'[q].game = proc[q].game /\ proc'[q].lost = proc[q].lost
               /\ proc'[q].alone = ~Busy(q)
    BY <1>2, <1>5, <1>6, <1>9
  <1>. QED  BY <1>4, <1>7, <1>8, <1>9 DEF free

LEMMA StartInv ==
    ASSUME GInv, NEW p \in Procs, NEW op \in {"play", "new"}, NEW game, Sound(game),
           Start(p, op, game), UNCHANGED <<file, last>>,
           op = "play" => file # Torn /\ MoveFrom(Load, game)
    PROVE  GInv'
  <1>1. /\ FileInv /\ proc \in [Procs -> ProcState] /\ ~Busy(p)
        /\ \A q \in Procs : ProcInv(q) /\ AloneInv(q)
    BY DEF GInv, Start
  <1>2. FileInv'
    BY <1>1 DEF FileInv
  <1>3. /\ proc' \in [Procs -> ProcState]
        /\ proc'[p].pc = "truncating" /\ proc'[p].op = op /\ proc'[p].game = game
        /\ proc'[p].lost = FALSE /\ proc'[p].alone = \A r \in Procs : ~Busy(r)
        /\ \A q \in Procs : q # p =>
             /\ proc'[q].pc = proc[q].pc /\ proc'[q].op = proc[q].op
             /\ proc'[q].game = proc[q].game /\ proc'[q].lost = proc[q].lost
             /\ proc'[q].alone = ~Busy(q)
    BY <1>1, StartFields
  <1>4. Busy(p)' /\ \A q \in Procs : q # p => (Busy(q)' <=> Busy(q))
    BY <1>3 DEF Busy
  <1>5. Load' = Load
    BY DEF Load
  <1>6. ASSUME NEW q \in Procs PROVE ProcInv(q)'
    BY <1>1, <1>3, <1>4 DEF ProcInv
  <1>7. ASSUME NEW q \in Procs PROVE AloneInv(q)'
    <2>1. CASE q = p
      <3>1. SUFFICES ASSUME proc'[p].alone PROVE AloneInv(p)'
        BY <2>1 DEF AloneInv
      <3>2. \A r \in Procs : Busy(r)' => r = p
        BY <1>3, <1>4, <3>1
      <3>3. ~proc'[p].lost /\ proc'[p].pc # "writing"
        BY <1>3
      <3>4. proc'[p].op = "play" => file' # Torn /\ MoveFrom(Load, proc[p].game)'
        BY <1>3, <1>5 DEF MoveFrom
      <3>. QED  BY <3>2, <3>3, <3>4 DEF AloneInv
    <2>2. CASE q # p
      <3>1. ~(Busy(q)' /\ proc'[q].alone)
        BY <1>3, <1>4, <2>2
      <3>. QED  BY <3>1 DEF AloneInv
    <2>. QED  BY <2>1, <2>2
  <1>. QED  BY <1>2, <1>3, <1>6, <1>7 DEF GInv

LEMMA PlayInv ==
    ASSUME GInv, NEW p \in Procs, NEW s \in Squares, Play(p, s)
    PROVE  GInv'
  <1>1. /\ file # Torn /\ MayPlay(Load, s) /\ Start(p, "play", Played(Load, s))
        /\ UNCHANGED <<file, last>> /\ FileInv
    BY DEF Play, GInv
  <1>2. Sound(Load)
    BY <1>1, LoadedGame
  <1>3. Sound(Played(Load, s)) /\ MoveFrom(Load, Played(Load, s))
    BY <1>1, <1>2, PlayedSound DEF MoveFrom
  <1>. QED  BY <1>1, <1>3, StartInv

LEMMA NewGameInv ==
    ASSUME GInv, NEW p \in Procs, NewGame(p)
    PROVE  GInv'
  BY StartInv, FreshSound DEF NewGame

\* A process that goes idle, and the others as they were.
LEMMA ReturnFields ==
    ASSUME proc \in [Procs -> ProcState], NEW p \in Procs, Return(p)
    PROVE  /\ proc' \in [Procs -> ProcState]
           /\ ~Busy(p)' /\ proc'[p].game = None
           /\ \A q \in Procs : q # p => proc'[q] = proc[q] /\ (Busy(q)' <=> Busy(q))
  <1>1. proc' = [proc EXCEPT ![p] = Idle]
    BY DEF Return, Continue
  <1>2. proc' \in [Procs -> ProcState] /\ proc'[p] = Idle
    BY <1>1, IdleState
  <1>3. \A q \in Procs : q # p => proc'[q] = proc[q]
    BY <1>1
  <1>4. ~Busy(p)' /\ proc'[p].game = None
    BY <1>2 DEF Busy, Idle
  <1>. QED  BY <1>2, <1>3, <1>4 DEF Busy

LEMMA SaveInv ==
    ASSUME GInv, NEW p \in Procs, Save(p)
    PROVE  GInv'
  <1>1. /\ FileInv /\ proc \in [Procs -> ProcState]
        /\ \A q \in Procs : ProcInv(q) /\ AloneInv(q)
    BY DEF GInv
  <1>2. /\ proc[p].pc = "writing" /\ Return(p) /\ last' = last
        /\ file' \in {file, proc[p].game, Torn}
    BY DEF Save
  <1>3. Busy(p)
    BY <1>2 DEF Busy
  <1>4. Sound(proc[p].game)
    BY <1>1, <1>3 DEF ProcInv
  <1>5. FileInv'
    BY <1>1, <1>2, <1>4 DEF FileInv
  <1>6. /\ proc' \in [Procs -> ProcState]
        /\ ~Busy(p)' /\ proc'[p].game = None
        /\ \A q \in Procs : q # p => proc'[q] = proc[q] /\ (Busy(q)' <=> Busy(q))
    BY <1>1, <1>2, ReturnFields
  <1>7. ASSUME NEW q \in Procs PROVE ProcInv(q)'
    BY <1>1, <1>6 DEF ProcInv
  <1>8. ASSUME NEW q \in Procs PROVE AloneInv(q)'
    <2>1. CASE q = p
      BY <1>6, <2>1 DEF AloneInv
    <2>2. CASE q # p
      <3>1. ~(Busy(q) /\ proc[q].alone)
        BY <1>1, <1>3, <2>2 DEF AloneInv
      <3>. QED  BY <1>6, <2>2, <3>1 DEF AloneInv
    <2>. QED  BY <2>1, <2>2
  <1>. QED  BY <1>5, <1>6, <1>7, <1>8 DEF GInv

LEMMA CrashInv ==
    ASSUME GInv, NEW p \in Procs, Crash(p)
    PROVE  GInv'
  <1>1. /\ FileInv /\ proc \in [Procs -> ProcState]
        /\ \A q \in Procs : ProcInv(q) /\ AloneInv(q)
    BY DEF GInv
  <1>2. Busy(p) /\ Return(p) /\ UNCHANGED <<file, last>>
    BY DEF Crash
  <1>3. FileInv'
    BY <1>1, <1>2 DEF FileInv
  <1>4. /\ proc' \in [Procs -> ProcState]
        /\ ~Busy(p)' /\ proc'[p].game = None
        /\ \A q \in Procs : q # p => proc'[q] = proc[q] /\ (Busy(q)' <=> Busy(q))
    BY <1>1, <1>2, ReturnFields
  <1>5. ASSUME NEW q \in Procs PROVE ProcInv(q)'
    BY <1>1, <1>4 DEF ProcInv
  <1>6. ASSUME NEW q \in Procs PROVE AloneInv(q)'
    <2>1. CASE q = p
      BY <1>4, <2>1 DEF AloneInv
    <2>2. CASE q # p
      <3>1. ~(Busy(q) /\ proc[q].alone)
        BY <1>1, <1>2, <2>2 DEF AloneInv
      <3>. QED  BY <1>4, <2>2, <3>1 DEF AloneInv
    <2>. QED  BY <2>1, <2>2
  <1>. QED  BY <1>3, <1>4, <1>5, <1>6 DEF GInv

LEMMA TruncateInv ==
    ASSUME GInv, NEW p \in Procs, Truncate(p)
    PROVE  GInv'
  <1>1. /\ FileInv /\ proc \in [Procs -> ProcState]
        /\ \A q \in Procs : ProcInv(q) /\ AloneInv(q)
    BY DEF GInv
  <1>2. /\ proc[p].pc = "truncating" /\ file' = Torn
        /\ last' = IF file = Torn THEN last ELSE Load
        /\ proc' = [proc EXCEPT ![p] = [proc[p] EXCEPT !.pc = "writing"]]
    BY DEF Truncate, Continue
  <1>3. Busy(p)
    BY <1>2 DEF Busy
  <1>4. FileInv'
    BY <1>1, <1>2, LoadedGame DEF FileInv
  <1> DEFINE k == [proc[p] EXCEPT !.pc = "writing"]
  <1>5. /\ k \in ProcState /\ k.pc = "writing" /\ k.op = proc[p].op
        /\ k.game = proc[p].game /\ k.lost = proc[p].lost /\ k.alone = proc[p].alone
    BY <1>1 DEF ProcState, Phases
  <1> HIDE DEF k
  <1>6. /\ proc' \in [Procs -> ProcState] /\ proc'[p] = k
        /\ \A q \in Procs : q # p => proc'[q] = proc[q]
    BY <1>1, <1>2, <1>5 DEF k
  <1>7. \A q \in Procs : Busy(q)' <=> Busy(q)
    BY <1>3, <1>5, <1>6 DEF Busy
  <1>8. ASSUME NEW q \in Procs PROVE ProcInv(q)'
    BY <1>1, <1>5, <1>6, <1>7 DEF ProcInv
  <1>9. ASSUME NEW q \in Procs PROVE AloneInv(q)'
    <2>1. CASE q = p
      <3>1. SUFFICES ASSUME proc[p].alone PROVE AloneInv(p)'
        BY <1>5, <1>6, <2>1 DEF AloneInv
      <3>2. ~k.lost /\ \A r \in Procs : Busy(r)' => r = p
        BY <1>1, <1>3, <1>5, <1>7, <3>1 DEF AloneInv
      <3>3. k.op = "play" => file # Torn /\ MoveFrom(Load, k.game)
        BY <1>1, <1>2, <1>3, <1>5, <3>1 DEF AloneInv
      <3>4. k.op = "play" => MoveFrom(last', k.game)
        BY <1>2, <3>3
      <3>5. k.op = "play" => MoveFrom(last, proc[p].game)'
        BY <1>6, <3>4 DEF MoveFrom
      <3>. QED  BY <1>2, <1>5, <1>6, <3>2, <3>5 DEF AloneInv
    <2>2. CASE q # p
      <3>1. ~(Busy(q) /\ proc[q].alone)
        BY <1>1, <1>3, <2>2 DEF AloneInv
      <3>. QED  BY <1>6, <1>7, <2>2, <3>1 DEF AloneInv
    <2>. QED  BY <2>1, <2>2
  <1>. QED  BY <1>4, <1>6, <1>8, <1>9 DEF GInv

\* A call's record when another file has been put in place of the one it read.
Freed(k, a, b) == [k EXCEPT !.alone = a, !.lost = b]

LEMMA FreedFields ==
    ASSUME NEW k \in ProcState, NEW a \in BOOLEAN, NEW b \in BOOLEAN
    PROVE  /\ Freed(k, a, b) \in ProcState /\ Freed(k, a, b).pc = k.pc
           /\ Freed(k, a, b).game = k.game /\ Freed(k, a, b).alone = a
  BY DEF Freed, ProcState

LEMMA ResetFields ==
    ASSUME proc \in [Procs -> ProcState], NEW p \in Procs, Reset(p)
    PROVE  /\ proc' \in [Procs -> ProcState]
           /\ \A q \in Procs : /\ proc'[q].pc = proc[q].pc /\ proc'[q].game = proc[q].game
                               /\ proc'[q].alone = ~Busy(q)
  <1> DEFINE free(q) == ~Busy(q)
             gone(q) == proc[q].lost \/ proc[q].pc = "writing"
  <1>1. proc' = [q \in Procs |-> Freed(proc[q], free(q), gone(q))]
    BY DEF Reset, Freed
  <1>2. \A q \in Procs : free(q) \in BOOLEAN /\ gone(q) \in BOOLEAN
    OBVIOUS
  <1> HIDE DEF free, gone
  <1>3. \A q \in Procs : /\ Freed(proc[q], free(q), gone(q)) \in ProcState
                         /\ Freed(proc[q], free(q), gone(q)).pc = proc[q].pc
                         /\ Freed(proc[q], free(q), gone(q)).game = proc[q].game
                         /\ Freed(proc[q], free(q), gone(q)).alone = free(q)
    BY <1>2, FreedFields
  <1>. QED  BY <1>1, <1>3 DEF free

LEMMA ResetInv ==
    ASSUME GInv, NEW p \in Procs, Reset(p)
    PROVE  GInv'
  <1>1. /\ FileInv /\ proc \in [Procs -> ProcState]
        /\ \A q \in Procs : ProcInv(q) /\ AloneInv(q)
    BY DEF GInv
  <1>2. file' = None /\ last' = last
    BY DEF Reset
  <1>3. FileInv'
    BY <1>1, <1>2 DEF FileInv
  <1>4. /\ proc' \in [Procs -> ProcState]
        /\ \A q \in Procs : /\ proc'[q].game = proc[q].game /\ (Busy(q)' <=> Busy(q))
                            /\ proc'[q].alone = ~Busy(q)
    BY <1>1, ResetFields DEF Busy
  <1>5. ASSUME NEW q \in Procs PROVE ProcInv(q)' /\ AloneInv(q)'
    BY <1>1, <1>4 DEF ProcInv, AloneInv
  <1>. QED  BY <1>3, <1>4, <1>5 DEF GInv

LEMMA InvNext == GInv /\ [Next]_vars => GInv'
  <1> SUFFICES ASSUME GInv, [Next]_vars PROVE GInv'
    OBVIOUS
  <1>1. ASSUME NEW p \in Procs, NEW s \in Squares, Play(p, s) PROVE GInv'
    BY <1>1, PlayInv
  <1>2. ASSUME NEW p \in Procs, NewGame(p) PROVE GInv'
    BY <1>2, NewGameInv
  <1>3. ASSUME NEW p \in Procs, Truncate(p) PROVE GInv'
    BY <1>3, TruncateInv
  <1>4. ASSUME NEW p \in Procs, Save(p) PROVE GInv'
    BY <1>4, SaveInv
  <1>5. ASSUME NEW p \in Procs, Reset(p) PROVE GInv'
    BY <1>5, ResetInv
  <1>6. ASSUME NEW p \in Procs, Crash(p) PROVE GInv'
    BY <1>6, CrashInv
  <1>7. CASE UNCHANGED vars
    BY <1>7 DEF vars, GInv, FileInv, ProcInv, AloneInv, Busy, Load, MoveFrom
  <1>. QED  BY <1>1, <1>2, <1>3, <1>4, <1>5, <1>6, <1>7 DEF Next

LEMMA Invariance == Spec => []GInv
  BY InitInv, InvNext, PTL DEF Spec

-----------------------------------------------------------------------------
(* The theorems *)

LEMMA GoodIsTyped ==
    ASSUME NEW g, GoodGame(g)
    PROVE  GameType(g)
  <1>1. /\ g.board \in [Squares -> Marks \cup {"none"}] /\ g.turn \in Marks \cup {"none"}
        /\ g.outcome \in Outcomes /\ g.history \in Seq(Move)
        /\ g.line \in {Lines[i] : i \in DOMAIN Lines} \cup {{}}
    BY DEF GoodGame, Game
  <1>2. \A i \in DOMAIN g.history : g.history[i] \in Move
    BY <1>1
  <1>3. Len(g.history) = Cardinality(Stones(g.history))
    BY DEF GoodGame, Judged
  <1>4. Cardinality(Stones(g.history)) \in Nat /\ Cardinality(Squares) \in Nat
    BY <1>1, HeldSquares, FS_CardinalityType, BoardAssumption
  <1>5. Len(g.history) \in 0..Cardinality(Squares)
    BY <1>1, <1>3, <1>4, HeldSquares
  <1>. QED  BY <1>1, <1>2, <1>5 DEF GameType

\* Whatever processes save over one another, die and reset, the file and every
\* command at work hold games of the board's type (type GameState).
THEOREM TypeCorrect == Spec => []TypeOK
  <1>1. GInv => TypeOK
    <2> SUFFICES ASSUME GInv PROVE TypeOK
      OBVIOUS
    <2>1. \A g : Sound(g) => GameType(g)
      BY GoodIsTyped DEF Sound
    <2>2. ASSUME NEW p \in Procs
          PROVE  /\ proc[p].pc \in Phases /\ proc[p].op \in {"none", "play", "new"}
                 /\ proc[p].game # None => GameType(proc[p].game)
                 /\ proc[p].lost \in BOOLEAN /\ proc[p].alone \in BOOLEAN
      <3>1. proc[p] \in ProcState
        BY DEF GInv
      <3>2. proc[p].game # None => Sound(proc[p].game)
        BY DEF GInv, ProcInv
      <3>. QED  BY <2>1, <3>1, <3>2 DEF ProcState
    <2>3. (file \notin {None, Torn} => GameType(file)) /\ GameType(last)
      BY <2>1 DEF GInv, FileInv
    <2>. QED  BY <2>2, <2>3 DEF TypeOK
  <1>. QED  BY <1>1, Invariance, PTL

\* On a board of any size, with any lines to win on, the outcome, the turn and the
\* winning line of every game that can be loaded follow from the list of its moves
\* alone: a line completed by the move that fills the board is a win (decide()).
THEOREM GamesAreJudgedRight == Spec => []JudgedRight
  <1>1. ASSUME GInv PROVE JudgedRight
    <2>1. file \notin {None, Torn} => Judged(file)
      BY <1>1 DEF GInv, FileInv, Sound, GoodGame
    <2>. QED  BY <2>1 DEF Judged, JudgedRight, Mover, Stones
  <1>. QED  BY <1>1, Invariance, PTL

\* For a history of any length, the replay at its end is the stored game, and at
\* every earlier move it is the game as it was then (handleGetState(), at()).
THEOREM ReviewsAgree == Spec => []TimeTravelAgrees
  <1>1. ASSUME GInv PROVE TimeTravelAgrees
    <2> SUFFICES ASSUME file \notin {None, Torn}
                 PROVE  /\ At(file, Len(file.history)) = file
                        /\ \A n \in 0..(Len(file.history) - 1) :
                             /\ At(file, n).outcome = "in_progress"
                             /\ At(file, n).history = SubSeq(file.history, 1, n)
      BY DEF TimeTravelAgrees
    <2>1. file \in Game /\ \E r : Course(file, r)
      BY <1>1 DEF GInv, FileInv, Sound, GoodGame
    <2>2. PICK r : Course(file, r)
      BY <2>1
    <2>3. Len(file.history) \in Nat
      BY <2>1 DEF Game
    <2>4. \A n \in 0..Len(file.history) : At(file, n) = r[n]
      BY <2>1, <2>2, ReplayIsCourse
    <2>5. r[Len(file.history)] = file
      BY <2>2 DEF Course
    <2>6. At(file, Len(file.history)) = file
      BY <2>3, <2>4, <2>5
    <2>7. ASSUME NEW n \in 0..(Len(file.history) - 1)
          PROVE  /\ At(file, n).outcome = "in_progress"
                 /\ At(file, n).history = SubSeq(file.history, 1, n)
      <3>1. n \in 0..Len(file.history)
        BY <2>3
      <3>2. At(file, n) = r[n]
        BY <2>4, <3>1
      <3>3. r[n].outcome = "in_progress" /\ r[n].history = SubSeq(file.history, 1, n)
        BY <2>2 DEF Course
      <3>. QED  BY <3>2, <3>3
    <2>. QED  BY <2>6, <2>7
  <1>. QED  BY <1>1, Invariance, PTL

\* For any number of processes: a play that meets no other command adds exactly one
\* legal move to the game the file held before it was truncated (handlePlay()).
THEOREM PlaysAreLegal == Spec => PlaysOneLegalMove
  <1> DEFINE legal ==
        \A p \in Procs :
           proc[p].pc = "writing" /\ proc[p].op = "play" /\ proc[p].alone
             /\ proc'[p].pc = "idle" /\ file' # Torn
               => OneMoveOn(last, file')
  <1>1. ASSUME GInv, [Next]_vars PROVE legal
    <2> SUFFICES ASSUME NEW p \in Procs,
                        proc[p].pc = "writing", proc[p].op = "play", proc[p].alone,
                        proc'[p].pc = "idle", file' # Torn
                 PROVE  OneMoveOn(last, file')
      OBVIOUS
    <2>1. /\ FileInv /\ proc \in [Procs -> ProcState] /\ AloneInv(p) /\ Busy(p)
      BY <1>1 DEF GInv, Busy
    <2>2. /\ ~proc[p].lost /\ file = Torn /\ MoveFrom(last, proc[p].game)
          /\ \A q \in Procs : Busy(q) => q = p
      BY <2>1 DEF AloneInv
    <2>3. PICK s \in Squares : MayPlay(last, s) /\ proc[p].game = Played(last, s)
      BY <2>2 DEF MoveFrom
    <2>4. OneMoveOn(last, proc[p].game)
      BY <2>1, <2>3, PlayedSound DEF FileInv
    <2>5. PICK q \in Procs :
            \/ \E x \in Squares : Play(q, x)
            \/ NewGame(q) \/ Truncate(q) \/ Save(q) \/ Reset(q) \/ Crash(q)
      <3>1. ~UNCHANGED vars
        BY DEF vars
      <3>. QED  BY <1>1, <3>1 DEF Next
    <2>6. CASE \/ \E x \in Squares : Play(q, x)
               \/ NewGame(q) \/ Truncate(q) \/ Crash(q)
      BY <2>2, <2>6 DEF Play, NewGame, Truncate, Crash
    <2>7. CASE Save(q)
      <3>1. q = p
        BY <2>2, <2>7 DEF Save, Busy
      <3>2. file' = proc[p].game
        BY <2>2, <2>7, <3>1 DEF Save
      <3>. QED  BY <2>4, <3>2
    <2>8. CASE Reset(q)
      <3>1. proc'[p].pc = proc[p].pc
        BY <2>1, <2>8, ResetFields
      <3>. QED  BY <3>1
    <2>. QED  BY <2>5, <2>6, <2>7, <2>8
  <1>2. []GInv /\ [][Next]_vars => [][legal]_vars
    BY <1>1, PTL
  <1>. QED  BY <1>2, Invariance DEF Spec, PlaysOneLegalMove
=============================================================================
