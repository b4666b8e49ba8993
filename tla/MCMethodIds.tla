---------------------------- MODULE MCMethodIds ----------------------------
(***************************************************************************)
(* Method ids, when they are given out and when they are spoken: the       *)
(* generator with its locks, and the registry of a running engine.  The    *)
(* two share no state; part says which of them moves, and the other rests  *)
(* in its initial state.                                                   *)
(***************************************************************************)
EXTENDS Generator, Registry, TLC

VARIABLE part

IdsInit ==
    /\ part \in {"locks", "registry"}
    /\ GenInit /\ Init

IdsNext ==
    /\ UNCHANGED part
    /\ \/ part = "locks" /\ GenNext /\ UNCHANGED vars
       \/ part = "registry" /\ Next /\ UNCHANGED genVars

IdsSpec == IdsInit /\ [][IdsNext]_<<part, genVars, vars>>

\* Every property is a safety property; the rpcs, the events and the filesystem verbs
\* differ by name alone.
Alike == Permutations(Method) \cup Permutations(Event) \cup Permutations(Fs)
=============================================================================
