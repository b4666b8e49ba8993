------------------------------- MODULE MCPage -------------------------------
(***************************************************************************)
(* A page that awaits its calls: the store behind it, with no other tab    *)
(* about, and the views on it that follow the worker.  The two share no    *)
(* state; part says which of them moves, and the other rests in one of its *)
(* initial states.                                                         *)
(***************************************************************************)
EXTENDS MCWebStoreSerial, Watchers

VARIABLE part

PageInit ==
    /\ part \in {"store", "views"}
    /\ Init /\ WatchersInit
    /\ part # "views" => signal = "flush"

PageNext ==
    /\ UNCHANGED part
    /\ \/ part = "store" /\ Next /\ UNCHANGED watchersVars
       \/ part = "views" /\ WatchersNext /\ UNCHANGED vars

PageSpec ==
    PageInit /\ [][PageNext]_<<part, vars, watchersVars>> /\ WatchersFairness
=============================================================================
