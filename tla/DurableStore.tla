---------------------------- MODULE DurableStore ----------------------------
(***************************************************************************)
(* What the web tier's store promises a page that awaits its calls.  There *)
(* is a committed tree, and a tree in the making.  Files move to the disk  *)
(* one at a time; a command is acknowledged only when the disk holds the   *)
(* whole tree; and an interruption leaves whatever mixture is on disk as   *)
(* the truth the next page starts from.                                    *)
(***************************************************************************)
CONSTANTS Names, Content, Absent, Empty

VARIABLES disk,       \* what each path holds durably
          committed,  \* the tree last known to be durable
          wanted,     \* the tree the engine has now
          acked       \* the last command was acknowledged

vars == <<disk, committed, wanted, acked>>

Init ==
    /\ disk = [n \in Names |-> Absent]
    /\ committed = disk
    /\ wanted = disk
    /\ acked = FALSE

\* A command changes one file of the tree in memory.  It is acknowledged at once
\* only if it took the tree back to what is durable.
Change(n, v) ==
    /\ wanted' = [wanted EXCEPT ![n] = v]
    /\ acked' => wanted' = committed /\ wanted' = disk
    /\ acked' \in BOOLEAN
    /\ UNCHANGED <<disk, committed>>

\* One file is created, still with nothing in it.
Create(n) ==
    /\ ~acked
    /\ disk[n] = Absent /\ wanted[n] # Absent
    /\ disk' = [disk EXCEPT ![n] = Empty]
    /\ UNCHANGED <<committed, wanted, acked>>

\* One file reaches the disk, or is removed from it.
Persist(n) ==
    /\ ~acked
    /\ disk' = [disk EXCEPT ![n] = wanted[n]]
    /\ UNCHANGED <<committed, wanted, acked>>

\* A command is acknowledged: the whole tree is durable.
Commit ==
    /\ disk = wanted
    /\ committed' = wanted
    /\ acked' = TRUE
    /\ UNCHANGED <<disk, wanted>>

\* The page is gone; the next one starts from the disk.
Restart ==
    /\ committed' = disk
    /\ wanted' = disk
    /\ acked' = FALSE
    /\ UNCHANGED disk

\* The user wipes the store, with no tree in the making.
Wipe(n) ==
    /\ committed = disk /\ wanted = disk /\ ~acked
    /\ disk' = [disk EXCEPT ![n] = Absent]
    /\ committed' = disk'
    /\ wanted' = disk'
    /\ UNCHANGED acked

Next ==
    \/ \E n \in Names, v \in Content : Change(n, v)
    \/ \E n \in Names : Create(n) \/ Persist(n) \/ Wipe(n)
    \/ Commit
    \/ Restart

Spec == Init /\ [][Next]_vars
=============================================================================
