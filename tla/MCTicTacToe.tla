---------------------------- MODULE MCTicTacToe ----------------------------
(***************************************************************************)
(* Values for TicTacToe: a board of four squares with two crossing lines,  *)
(* on which either player may win, a win may take the last square, and a   *)
(* game may be drawn.                                                      *)
(***************************************************************************)
EXTENDS TicTacToe, TLC

SmallBoard == 1..4
SmallLines == <<{1, 2}, {1, 3}>>

\* The code's table of lines, in its order, by squares from 1.
CodeLines == <<{1, 2, 3}, {4, 5, 6}, {7, 8, 9}, {1, 4, 7}, {2, 5, 8}, {3, 6, 9},
               {1, 5, 9}, {3, 5, 7}>>

\* They are the rows, the columns and the diagonals of a board of three by three.
ASSUME CodeLinesAssumption ==
    LET square(r, c) == 3 * r + c + 1
        side == 0..2
    IN  {CodeLines[i] : i \in DOMAIN CodeLines} =
            {{square(r, c) : c \in side} : r \in side}
            \cup {{square(r, c) : r \in side} : c \in side}
            \cup {{square(d, d) : d \in side}, {square(d, 2 - d) : d \in side}}

Alike == Permutations(Procs)
=============================================================================
