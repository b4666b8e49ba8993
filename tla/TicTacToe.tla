----------------------------- MODULE TicTacToe -----------------------------
(***************************************************************************)
(* Tic-tac-toe (example-apps/tictactoe/engine/commands.go): the rules, the *)
(* replay that answers "the board as of move n", and the one file that is  *)
(* the store, which several native processes may load and save.  Saving is *)
(* os.WriteFile: it truncates, and then writes through the handle it has.  *)
(* A file that was edited by hand or imported is outside the model.        *)
(***************************************************************************)
EXTENDS Naturals, Sequences, FiniteSetsExt

CONSTANTS Procs,    \* native processes of the app
          Squares,  \* the squares of the board; 1..9 in the code
          Lines,    \* the ways to win, in the order they are tried
          None,     \* no game file
          Torn,     \* a file truncated and not yet written, or overwritten in part
          Crashes   \* TRUE: a process may die between two steps

ASSUME BoardAssumption ==
    /\ IsFiniteSet(Squares) /\ Squares # {}
    /\ Lines \in Seq((SUBSET Squares) \ {{}})
    /\ Crashes \in BOOLEAN

VARIABLES file,  \* what game.json holds
          proc   \* proc[p]: the command process p is running

\* Auxiliary: the game that the file held before it was last truncated.
VARIABLE last

vars == <<file, proc, last>>

Marks == {"X", "O"}
Outcomes == {"in_progress", "X_wins", "O_wins", "draw"}
Move == [square : Squares, mark : Marks]

GameType(g) ==
    /\ g.board \in [Squares -> Marks \cup {"none"}]
    /\ g.turn \in Marks \cup {"none"}
    /\ g.outcome \in Outcomes
    /\ g.line \in {Lines[i] : i \in DOMAIN Lines} \cup {{}}
    /\ Len(g.history) \in 0..Cardinality(Squares)
    /\ \A i \in DOMAIN g.history : g.history[i] \in Move

\* fresh()
Fresh == [board |-> [s \in Squares |-> "none"], turn |-> "X", outcome |-> "in_progress",
          line |-> {}, history |-> <<>>]

-----------------------------------------------------------------------------
(* The rules *)

Full(board) == \A s \in Squares : board[s] # "none"

\* The lines that one player holds.
Won(board) == {i \in DOMAIN Lines : \E m \in Marks : \A s \in Lines[i] : board[s] = m}

Ended(g, outcome, line) == [g EXCEPT !.outcome = outcome, !.line = line, !.turn = "none"]
Winner(g) ==
    LET line == Lines[Min(Won(g.board))]
    IN  Ended(g, IF \A s \in line : g.board[s] = "X" THEN "X_wins" ELSE "O_wins", line)
Passed(g) == [g EXCEPT !.turn = IF g.turn = "X" THEN "O" ELSE "X"]

\* decide(): a line is looked for first, a full board only then.
DrawFirst(g) ==
    IF Full(g.board) THEN Ended(g, "draw", g.line)
    ELSE IF Won(g.board) # {} THEN Winner(g)
    ELSE Passed(g)
Decide(g) ==
    IF Won(g.board) # {} THEN Winner(g)
    ELSE IF Full(g.board) THEN Ended(g, "draw", g.line)
    ELSE Passed(g)

Put(g, move) == [g EXCEPT !.board[move.square] = move.mark, !.history = Append(@, move)]

\* at(): the recorded moves are put and judged one by one.
JudgeOnce(g, n) ==
    LET replay[i \in 0..n] == IF i = 0 THEN Fresh ELSE Put(replay[i - 1], g.history[i])
    IN  IF n = 0 THEN Fresh ELSE Decide(replay[n])
At(g, n) ==
    LET replay[i \in 0..n] == IF i = 0 THEN Fresh
                              ELSE Decide(Put(replay[i - 1], g.history[i]))
    IN  replay[n]

\* What handlePlay() refuses: a game that is over, a square that is taken.
AnySquare(g, s) == g.outcome = "in_progress"
AnyTime(g, s) == g.board[s] = "none"
MayPlay(g, s) == g.outcome = "in_progress" /\ g.board[s] = "none"

Played(g, s) == Decide(Put(g, [square |-> s, mark |-> g.turn]))

-----------------------------------------------------------------------------
(* The commands *)

Phases == {"idle", "truncating", "writing"}
Idle == [pc |-> "idle", op |-> "none", game |-> None, lost |-> FALSE, alone |-> TRUE]

TypeOK ==
    /\ file \notin {None, Torn} => GameType(file)
    /\ GameType(last)
    /\ \A p \in Procs :
         /\ proc[p].pc \in Phases
         /\ proc[p].op \in {"none", "play", "new"}
         /\ proc[p].game # None => GameType(proc[p].game)
         /\ proc[p].lost \in BOOLEAN /\ proc[p].alone \in BOOLEAN

Init ==
    /\ file = None
    /\ proc = [p \in Procs |-> Idle]
    /\ last = Fresh

Busy(p) == proc[p].pc # "idle"
Continue(p, k) == proc' = [proc EXCEPT ![p] = k]
Return(p) == Continue(p, Idle)

\* Process p, or a new one in its place, starts to save game.
Start(p, op, game) ==
    /\ ~Busy(p)
    /\ proc' = [q \in Procs |->
                  IF q = p THEN [Idle EXCEPT !.pc = "truncating", !.op = op, !.game = game,
                                             !.alone = \A r \in Procs : ~Busy(r)]
                  ELSE [proc[q] EXCEPT !.alone = ~Busy(q)]]

\* load(): a missing file is a new game; one that cannot be read is an error.
Load == IF file = None THEN Fresh ELSE file

\* handlePlay() up to its save: a refusal writes nothing.
Play(p, s) ==
    /\ file # Torn
    /\ MayPlay(Load, s)
    /\ Start(p, "play", Played(Load, s))
    /\ UNCHANGED <<file, last>>

\* handleNewGame() asks nothing of the file.
NewGame(p) ==
    /\ Start(p, "new", Fresh)
    /\ UNCHANGED <<file, last>>

\* save(): the file is created, or truncated where there is one.
Truncate(p) ==
    /\ proc[p].pc = "truncating"
    /\ file' = Torn
    /\ last' = IF file = Torn THEN last ELSE Load
    /\ Continue(p, [proc[p] EXCEPT !.pc = "writing"])

\* save() ends.  Over another process's bytes it may leave their tail standing.
Save(p) ==
    /\ proc[p].pc = "writing"
    /\ file' \in IF proc[p].lost THEN {file}
                 ELSE IF file = Torn THEN {proc[p].game} ELSE {proc[p].game, Torn}
    /\ Return(p)
    /\ UNCHANGED last

\* reset-fs removes the file; a process that has it open is left without a name.
Reset(p) ==
    /\ ~Busy(p)
    /\ file # None
    /\ file' = None
    /\ proc' = [q \in Procs |-> [proc[q] EXCEPT !.alone = ~Busy(q),
                                               !.lost = @ \/ proc[q].pc = "writing"]]
    /\ UNCHANGED last

\* The process dies where it stands.
Crash(p) ==
    /\ Crashes
    /\ Busy(p)
    /\ Return(p)
    /\ UNCHANGED <<file, last>>

Next ==
    \E p \in Procs :
        \/ \E s \in Squares : Play(p, s)
        \/ NewGame(p)
        \/ Truncate(p)
        \/ Save(p)
        \/ Reset(p)
        \/ Crash(p)

Spec == Init /\ [][Next]_vars

-----------------------------------------------------------------------------
(* Properties *)

\* The squares that player m has played in a history.
Holds(history, m) ==
    {history[i].square : i \in {j \in DOMAIN history : j % 2 = IF m = "X" THEN 1 ELSE 0}}
HasLine(history, m) == \E i \in DOMAIN Lines : Lines[i] \subseteq Holds(history, m)

\* Every game that can be loaded is judged as the bare list of its moves is: who
\* holds a square follows from who moved first, a line on the last square is a win
\* and no draw, and the line that is named is the winner's (decide()).
JudgedRight ==
    file \notin {None, Torn} =>
      LET g == file
          h == g.history
      IN  /\ \A s \in Squares : g.board[s] = IF s \in Holds(h, "X") THEN "X"
                                             ELSE IF s \in Holds(h, "O") THEN "O" ELSE "none"
          /\ Cardinality({h[i].square : i \in DOMAIN h}) = Len(h)
          /\ g.outcome = IF HasLine(h, "X") THEN "X_wins"
                         ELSE IF HasLine(h, "O") THEN "O_wins"
                         ELSE IF Len(h) = Cardinality(Squares) THEN "draw" ELSE "in_progress"
          /\ g.turn = IF g.outcome # "in_progress" THEN "none"
                      ELSE IF Len(h) % 2 = 0 THEN "X" ELSE "O"
          /\ g.outcome = "X_wins" => g.line # {} /\ g.line \subseteq Holds(h, "X")
          /\ g.outcome = "O_wins" => g.line # {} /\ g.line \subseteq Holds(h, "O")

\* Replaying the whole history gives the game back, and every earlier moment of it
\* was a game still in progress: a board that is reviewed says what it said then
\* (handleGetState(), at()).
TimeTravelAgrees ==
    file \notin {None, Torn} =>
        /\ At(file, Len(file.history)) = file
        /\ \A n \in 0..(Len(file.history) - 1) :
             /\ At(file, n).outcome = "in_progress"
             /\ At(file, n).history = SubSeq(file.history, 1, n)

\* h is g with one more move, by the player whose turn it is, to a free square of a
\* game that nobody has won.
OneMoveOn(g, h) ==
    \E s \in Squares :
        /\ h.history = Append(g.history, [square |-> s,
                                mark |-> IF Len(g.history) % 2 = 0 THEN "X" ELSE "O"])
        /\ \A m \in Marks : ~HasLine(g.history, m) /\ s \notin Holds(g.history, m)

\* A play that meets no other command takes the stored game on by one legal move,
\* however the file came to be as it is - deaths and overlapping commands before
\* included (handlePlay(): "every one of these refusals is a DECISION").
PlaysOneLegalMove ==
    [][\A p \in Procs :
         proc[p].pc = "writing" /\ proc[p].op = "play" /\ proc[p].alone
           /\ proc'[p].pc = "idle" /\ file' # Torn
             => OneMoveOn(last, file')]_vars
=============================================================================
