-------------------------- MODULE MCWebStoreSerial --------------------------
(***************************************************************************)
(* One tab whose page awaits every call: the store implements DurableStore *)
(* over page loads, traps and resets.                                      *)
(***************************************************************************)
EXTENDS WebStore

\* The tab is alone on its origin, its page awaits its calls, and OPFS neither
\* denies the probe nor fails an operation.
ASSUME SerialAssumption ==
    /\ \E t \in Tabs : Tabs = {t}
    /\ ~Overlap
    /\ Faults \cap {"fail", "deny"} = {}
    /\ Names # {}

Tab == CHOOSE t \in Tabs : TRUE

\* While the tab has an engine, the worker's own memory says what is committed
\* and wanted; with none, or while the store is being wiped, the store does.
InMemory == engine[Tab] /\ ~Clearing(Tab)

Abstract == INSTANCE DurableStore WITH
    disk      <- opfs,
    committed <- IF InMemory THEN flushed[Tab] ELSE opfs,
    wanted    <- IF InMemory THEN guest[Tab] ELSE opfs,
    acked     <- InMemory /\ \A c \in Calls : call[Tab][c].pc = "idle"

\* The worker, its flush and its boot implement the store that DurableStore
\* describes: no command is acknowledged before the whole tree is durable, and no
\* page load finds a file other than as acknowledged or as last commanded.
ImplementsDurableStore == Abstract!Spec
=============================================================================
