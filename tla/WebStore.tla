------------------------------ MODULE WebStore ------------------------------
(***************************************************************************)
(* The web tier's store: the worker that runs the engine in a browser tab  *)
(* (dlc-platform/web/worker.ts), the bridge that hydrates its file tree    *)
(* from OPFS and mirrors it back (opfs.ts), and the broadcast that tells   *)
(* the origin's other tabs that the store moved (crosstab.ts).             *)
(*                                                                         *)
(* Every `await` of the code ends a step here; what runs between two of    *)
(* them is one step.  An asynchronous OPFS operation takes effect when its *)
(* promise resolves.  A file is named by its whole path, so the directory  *)
(* walks of readDir, writeDir and clearOPFS are loops over Names.          *)
(***************************************************************************)
EXTENDS Naturals, FiniteSets

CONSTANTS Tabs,     \* the pages of one origin, each with its own worker
          Calls,    \* the calls a page may have in flight (Comlink requests)
          Names,    \* file paths outside HOST_RESERVED
          Vals,     \* what a command may write into a file
          Absent,   \* no such file
          Empty,    \* a file that was created and never written
          None,     \* no file name; no digest yet
          Overlap,  \* TRUE: a page starts a call while another is in flight
          Faults    \* which faults may happen, a subset of FaultKinds

FaultKinds == {"fail", "trap", "reload", "clear", "deny"}

ASSUME StoreAssumption ==
    /\ Vals # {}
    /\ Absent \notin Vals \cup {Empty, None}
    /\ Empty  \notin Vals \cup {None}
    /\ None   \notin Vals \cup Names
    /\ Overlap \in BOOLEAN
    /\ Faults \subseteq FaultKinds

VARIABLES
    opfs,      \* the origin's store: what each path holds
    engine,    \* engine[t]: boot() has finished and the component is live
    guest,     \* guest[t]: the tree behind the preopen the component captured
    fileData,  \* fileData[t]: the shim's _fileData, the tree flush() looks at
    split,     \* split[t]: the two are different objects
    flushed,   \* flushed[t]: the tree as last persisted (None: never)
    stale,     \* stale[t]: another tab wrote, the worker refuses commands
    inbox,     \* inbox[t]: a store-changed message is on its way to t
    call       \* call[t][c]: what call c of tab t is doing

\* Auxiliary; no code reads them.
VARIABLES
    missed,    \* missed[t]: the paths another tab's finished flush changed, which
               \* tab t had read before and knows otherwise
    unsaid     \* unsaid[t]: t has no warning behind or before it, and a call that
               \* will not broadcast left the store other than t read it

tabVars == <<engine, guest, fileData, split, flushed, stale>>
auxVars == <<missed, unsaid>>
vars == <<opfs, engine, guest, fileData, split, flushed, stale, inbox, call, missed, unsaid>>

Content == Vals \cup {Empty, Absent}
Tree == [Names -> Content]
EmptyTree == [n \in Names |-> Absent]
Present(tree) == {n \in Names : tree[n] # Absent}

\* A call at rest was acknowledged ("idle") or it threw ("rejected").
AtRest == {"idle", "rejected"}
Phases == AtRest \cup {"hydrating", "importing", "listing", "pruning",
                      "writing", "closing", "clearing"}

\* todo: the paths the loop at hand has still to visit.  tree: while hydrating,
\* what was read so far; during a flush, what was read out of the entries that
\* have left the live tree.  at: the file whose writable is open.  live: the
\* flush walks the engine's own tree object.  change: the path whose change the
\* call has yet to announce.
CallState == [pc : Phases, todo : SUBSET Names, tree : [Names -> Content \cup {None}],
              digest : Tree, live : BOOLEAN, at : Names \cup {None},
              change : Names \cup {None}]

Idle == [pc |-> "idle", todo |-> {}, tree |-> [n \in Names |-> None],
         digest |-> EmptyTree, live |-> FALSE, at |-> None, change |-> None]
Rejected == [Idle EXCEPT !.pc = "rejected"]

TypeOK ==
    /\ opfs \in Tree
    /\ engine \in [Tabs -> BOOLEAN]
    /\ guest \in [Tabs -> Tree]
    /\ fileData \in [Tabs -> Tree]
    /\ split \in [Tabs -> BOOLEAN]
    /\ flushed \in [Tabs -> Tree \cup {None}]
    /\ stale \in [Tabs -> BOOLEAN]
    /\ inbox \in [Tabs -> BOOLEAN]
    /\ call \in [Tabs -> [Calls -> CallState]]
    /\ missed \in [Tabs -> SUBSET Names]
    /\ unsaid \in [Tabs -> BOOLEAN]

Init ==
    /\ opfs = EmptyTree
    /\ engine = [t \in Tabs |-> FALSE]
    /\ guest = [t \in Tabs |-> EmptyTree]
    /\ fileData = [t \in Tabs |-> EmptyTree]
    /\ split = [t \in Tabs |-> FALSE]
    /\ flushed = [t \in Tabs |-> None]
    /\ stale = [t \in Tabs |-> FALSE]
    /\ inbox = [t \in Tabs |-> FALSE]
    /\ call = [t \in Tabs |-> [c \in Calls |-> Idle]]
    /\ missed = [t \in Tabs |-> {}]
    /\ unsaid = [t \in Tabs |-> FALSE]

-----------------------------------------------------------------------------
(* Commands *)

\* A page that awaits each call has no other in flight.
MayStart(t, c) ==
    /\ call[t][c].pc \in AtRest
    /\ Overlap \/ \A d \in Calls : call[t][d].pc \in AtRest

\* A removed file's entry object leaves the tree, and a flush that snapshotted
\* it keeps the object and its last bytes: Object.entries() copied the
\* reference.  An overwrite keeps the entry object, so the flush sees it.
DetachEntry(k, n, old, v) ==
    IF /\ k.pc \in {"writing", "closing"} /\ k.live /\ n \in k.todo
       /\ k.tree[n] = None /\ old # Absent /\ v = Absent
    THEN [k EXCEPT !.tree[n] = old]
    ELSE k

\* What a command at the engine does to the other calls of its tab: the path it
\* changed is no longer what they are about to announce.
Disturb(k, n, old, v) ==
    LET d == DetachEntry(k, n, old, v)
    IN  IF d.change = n THEN [d EXCEPT !.change = None] ELSE d

\* flush(): nothing to do when the digest is the one last persisted.  Digests
\* are taken to be injective (a collision skips a flush).
SameNames(digest, persisted) == Present(digest) # Present(persisted)
NeedsFlush(digest, persisted) == digest # persisted

AfterCommand(digest, persisted, isSplit, n) ==
    IF NeedsFlush(digest, persisted)
    THEN [Idle EXCEPT !.pc = "listing", !.digest = digest, !.live = ~isSplit,
                      !.change = n]
    ELSE Idle

\* mod.execute() and the synchronous head of flush(): one command of call c runs
\* on tab t, whose guest tree is g and whose shim tree is fd.  It writes or
\* removes one file and announces it, or only reads (n = None).
RunCommand(t, c, g, fd, persisted, isSplit) ==
    \E n \in Names \cup {None}, v \in Vals \cup {Absent} :
      LET old   == IF n = None THEN Absent ELSE g[n]
          after == IF n = None THEN g ELSE [g EXCEPT ![n] = v]
          shim  == IF isSplit THEN fd ELSE after
          others == [d \in Calls |-> IF n = None THEN call[t][d]
                                     ELSE Disturb(call[t][d], n, old, v)]
      IN  /\ n = None => v = Absent
          /\ guest' = [guest EXCEPT ![t] = after]
          /\ fileData' = [fileData EXCEPT ![t] = shim]
          /\ \/ call' = [call EXCEPT ![t] = [others EXCEPT ![c] =
                          AfterCommand(shim, persisted, isSplit,
                                       IF after = g THEN None ELSE n)]]
             \* A trap: what was written stays in the tree, nothing is flushed.
             \/ /\ "trap" \in Faults
                /\ call' = [call EXCEPT ![t] = [others EXCEPT ![c] = Rejected]]

\* A broadcast has reached the tab or is on its way to it.
Warned(t) == stale[t] \/ inbox[t]

\* execute() refuses on a stale tab, before it awaits boot().
Refuses(t) == stale[t]

\* execute() on a live engine.
Execute(t, c) ==
    /\ MayStart(t, c)
    /\ ~Refuses(t)
    /\ engine[t]
    /\ RunCommand(t, c, guest[t], fileData[t], flushed[t], split[t])
    /\ UNCHANGED <<opfs, engine, split, flushed, stale, inbox, auxVars>>

-----------------------------------------------------------------------------
(* Boot: probe, hydrate, hand the tree to the shim, import, first command *)

\* execute() before there is an engine: boot() probes OPFS and starts reading.
\* A probe that OPFS refuses leaves nothing to read: the tree starts empty.
StartBoot(t, c) ==
    /\ MayStart(t, c)
    /\ ~Refuses(t)
    /\ ~engine[t]
    /\ \E denied \in {FALSE} \cup (IF "deny" \in Faults THEN {TRUE} ELSE {}) :
         /\ call' = [call EXCEPT ![t][c] =
                      [Idle EXCEPT !.pc = "hydrating", !.tree = EmptyTree,
                                   !.todo = IF denied THEN {} ELSE Names]]
         /\ unsaid' = [unsaid EXCEPT ![t] = denied /\ ~Warned(t)]
    /\ UNCHANGED <<opfs, tabVars, inbox, missed>>

\* loadTreeFromOPFS() reads one file.
Hydrate(t, c, n) ==
    LET k == call[t][c]
    IN  /\ k.pc = "hydrating"
        /\ n \in k.todo
        /\ call' = [call EXCEPT ![t][c] =
                      [k EXCEPT !.todo = @ \ {n}, !.tree[n] = opfs[n]]]
        /\ UNCHANGED <<opfs, tabVars, inbox, auxVars>>

\* _setFileData(): the shim's tree is replaced.  A component that is already
\* live keeps the tree it captured.
SetFileData(t, c) ==
    /\ call[t][c].pc = "hydrating"
    /\ call[t][c].todo = {}
    /\ fileData' = [fileData EXCEPT ![t] = call[t][c].tree]
    /\ split' = [split EXCEPT ![t] = engine[t]]
    /\ call' = [call EXCEPT ![t][c] =
                  [@ EXCEPT !.pc = "importing", !.tree = Idle.tree]]
    /\ UNCHANGED <<opfs, engine, guest, flushed, stale, inbox, auxVars>>

\* The import resolves.  The first one instantiates the component, which
\* captures the shim's tree; a later one finds the module in the ES cache.  The
\* manifest is sent, which the engine takes (it refuses a missing one and
\* revision 0), the digest seeded, and the command that was waiting runs.
FinishBoot(t, c) ==
    LET g == IF engine[t] THEN guest[t] ELSE fileData[t]
    IN  /\ call[t][c].pc = "importing"
        /\ engine' = [engine EXCEPT ![t] = TRUE]
        /\ flushed' = [flushed EXCEPT ![t] = fileData[t]]
        /\ RunCommand(t, c, g, fileData[t], fileData[t], split[t])
        /\ UNCHANGED <<opfs, split, stale, inbox, auxVars>>

-----------------------------------------------------------------------------
(* flushTreeToOPFS(): list, prune, snapshot the entries, write each file *)

\* The tree object a flush walks: the engine's own while the two are one.
Wanted(t, c) == IF call[t][c].live THEN guest[t] ELSE call[t][c].digest

ListStore(t, c) ==
    /\ call[t][c].pc = "listing"
    /\ call' = [call EXCEPT ![t][c] =
                  [@ EXCEPT !.pc = "pruning", !.todo = Present(opfs)]]
    /\ UNCHANGED <<opfs, tabVars, inbox, auxVars>>

\* What the store has and the tree dropped is removed.
NeverPrunes(t, c, n) == FALSE
ClearsFirst(t, c, n) == TRUE
MustPrune(t, c, n) == Wanted(t, c)[n] = Absent

Prune(t, c, n) ==
    /\ call[t][c].pc = "pruning"
    /\ n \in call[t][c].todo
    /\ opfs' = IF MustPrune(t, c, n) THEN [opfs EXCEPT ![n] = Absent] ELSE opfs
    /\ call' = [call EXCEPT ![t][c].todo = @ \ {n}]
    /\ UNCHANGED <<tabVars, inbox, auxVars>>

SnapshotEntries(t, c) ==
    /\ call[t][c].pc = "pruning"
    /\ call[t][c].todo = {}
    /\ call' = [call EXCEPT ![t][c] =
                  [@ EXCEPT !.pc = "writing", !.todo = Present(Wanted(t, c))]]
    /\ UNCHANGED <<opfs, tabVars, inbox, auxVars>>

\* With the write forgotten, the file is closed with no bytes of its own.
OpenWithoutBytes(t, c, n) ==
    /\ call[t][c].pc = "writing"
    /\ n \in call[t][c].todo
    /\ opfs' = IF opfs[n] = Absent THEN [opfs EXCEPT ![n] = Empty] ELSE opfs
    /\ call' = [call EXCEPT ![t][c] = [@ EXCEPT !.pc = "closing", !.at = n]]
    /\ UNCHANGED <<tabVars, inbox, auxVars>>

\* getFileHandle({create: true}), createWritable(), and the entry's bytes are
\* read.  A file that was not there exists from here on, with nothing in it.
OpenFile(t, c, n) ==
    LET k == call[t][c]
    IN  /\ k.pc = "writing"
        /\ n \in k.todo
        /\ opfs' = IF opfs[n] = Absent THEN [opfs EXCEPT ![n] = Empty] ELSE opfs
        /\ call' = [call EXCEPT ![t][c] =
                      [k EXCEPT !.pc = "closing", !.at = n,
                                !.tree[n] = IF @ = None THEN Wanted(t, c)[n] ELSE @]]
        /\ UNCHANGED <<tabVars, inbox, auxVars>>

\* writable.close(): the bytes that were read become the file.
CloseFile(t, c) ==
    LET k == call[t][c]
    IN  /\ k.pc = "closing"
        /\ opfs' = [opfs EXCEPT ![k.at] = k.tree[k.at]]
        /\ call' = [call EXCEPT ![t][c] =
                      [k EXCEPT !.pc = "writing", !.at = None,
                                !.todo = @ \ {k.at}, !.tree[k.at] = None]]
        /\ UNCHANGED <<tabVars, inbox, auxVars>>

\* Tab u has read path n into a tree it will run commands on, and found there
\* something else than v.
KnowsOtherwise(u, n, v) ==
    \/ engine[u] /\ flushed[u][n] # v
    \/ \E d \in Calls :
         \/ call[u][d].pc = "importing" /\ fileData[u][n] # v
         \/ /\ call[u][d].pc = "hydrating" /\ n \notin call[u][d].todo
            /\ call[u][d].tree[n] # v

\* publishStoreChanged(): every other tab of the origin will hear it, whether or
\* not the command announced anything.  A worker opens the channel when its
\* module loads, before it hydrates; a stale one stays stale.  The browser is
\* taken to have a BroadcastChannel: with none, nobody hears anything.
HearsOnceBooted(t, c, u) == u # t /\ engine[u] /\ ~stale[u]
HearsEvents(t, c, u) == u # t /\ ~stale[u] /\ call[t][c].change # None
Hears(t, c, u) == u # t /\ ~stale[u]

\* The paths whose change this flush has made durable.
Changed(t, c) == {n \in Names : call[t][c].digest[n] # flushed[t][n]}

\* The flush is over: its digest becomes the one last persisted, the other tabs
\* are told, and only then do the command's events go out.
FinishFlush(t, c) ==
    /\ call[t][c].pc = "writing"
    /\ call[t][c].todo = {}
    /\ flushed' = [flushed EXCEPT ![t] = call[t][c].digest]
    /\ inbox' = [u \in Tabs |-> inbox[u] \/ Hears(t, c, u)]
    /\ missed' = [u \in Tabs |-> IF u = t THEN missed[u] ELSE
                     missed[u] \cup {n \in Changed(t, c) :
                                       KnowsOtherwise(u, n, call[t][c].digest[n])}]
    /\ call' = [call EXCEPT ![t][c] = Idle]
    /\ unsaid' = [u \in Tabs |-> unsaid[u] /\ ~Hears(t, c, u)]
    /\ UNCHANGED <<opfs, engine, guest, fileData, split, stale>>

-----------------------------------------------------------------------------
(* What the page and the browser do *)

\* With the listener installed by boot(), a message to a booting tab is lost.
DeliverOnceBooted(t) ==
    /\ inbox[t]
    /\ inbox' = [inbox EXCEPT ![t] = FALSE]
    /\ stale' = [stale EXCEPT ![t] = @ \/ engine[t]]
    /\ UNCHANGED <<opfs, engine, guest, fileData, split, flushed, call, auxVars>>

\* receiveStoreChanged(): the message of another tab's flush arrives.
Deliver(t) ==
    /\ inbox[t]
    /\ inbox' = [inbox EXCEPT ![t] = FALSE]
    /\ stale' = [stale EXCEPT ![t] = TRUE]
    /\ UNCHANGED <<opfs, engine, guest, fileData, split, flushed, call, auxVars>>

\* The call may have left the store other than it found it.
Moving(k) == k.pc \in {"pruning", "writing", "closing", "clearing"}

\* The tab has begun to read the store.
Started(u) == engine[u] \/ \E d \in Calls : call[u][d].pc \in {"hydrating", "importing"}

\* A call of tab t that was moving the store ends without a broadcast.
LeavesUnsaid(ended) ==
    [u \in Tabs |-> unsaid[u] \/ (Started(u) /\ ~Warned(u) /\ \E k \in ended : Moving(k))]

\* A page load replaces the worker: a reload, a crash and a reopening, or a tab
\* closed and opened later.  What was in flight stops where it stands.
Reload(t) ==
    /\ engine' = [engine EXCEPT ![t] = FALSE]
    /\ guest' = [guest EXCEPT ![t] = EmptyTree]
    /\ fileData' = [fileData EXCEPT ![t] = EmptyTree]
    /\ split' = [split EXCEPT ![t] = FALSE]
    /\ flushed' = [flushed EXCEPT ![t] = None]
    /\ stale' = [stale EXCEPT ![t] = FALSE]
    /\ inbox' = [inbox EXCEPT ![t] = FALSE]
    /\ call' = [call EXCEPT ![t] = [c \in Calls |-> Idle]]
    /\ missed' = [missed EXCEPT ![t] = {}]
    /\ unsaid' = [LeavesUnsaid({call[t][c] : c \in Calls}) EXCEPT ![t] = FALSE]
    /\ UNCHANGED opfs

\* The user, or a crash.
Interrupt(t) == "reload" \in Faults /\ Reload(t)

\* onExternalChange(): a page that hears it reloads, which is what notes does.
ReloadOnWarning(t) == stale[t] /\ Reload(t)

\* An OPFS operation rejects (quota, a removed handle), or the import does:
\* execute() rejects, its events are dropped, and the digest stays what it was.
\* reset() rejects half-way, and its page load does not happen.
Fail(t, c) ==
    LET k == call[t][c]
    IN  /\ "fail" \in Faults
        /\ \/ k.pc \in {"hydrating", "pruning", "writing", "clearing"} /\ k.todo # {}
           \/ k.pc \in {"listing", "closing"}
           \/ k.pc = "importing" /\ ~engine[t]
        /\ call' = [call EXCEPT ![t][c] = Rejected]
        /\ unsaid' = LeavesUnsaid({k})
        /\ UNCHANGED <<opfs, tabVars, inbox, missed>>

\* reset(): clearOPFS() lists and removes every entry, then the page reloads.
\* It is not a command: nothing refuses it and nothing is broadcast.
StartClear(t, c) ==
    /\ "clear" \in Faults
    /\ MayStart(t, c)
    /\ call' = [call EXCEPT ![t][c] =
                 [Idle EXCEPT !.pc = "clearing", !.todo = Present(opfs)]]
    /\ UNCHANGED <<opfs, tabVars, inbox, auxVars>>

ClearEntry(t, c, n) ==
    /\ call[t][c].pc = "clearing"
    /\ n \in call[t][c].todo
    /\ opfs' = [opfs EXCEPT ![n] = Absent]
    /\ call' = [call EXCEPT ![t][c].todo = @ \ {n}]
    /\ UNCHANGED <<tabVars, inbox, auxVars>>

FinishClear(t, c) ==
    /\ call[t][c].pc = "clearing"
    /\ call[t][c].todo = {}
    /\ Reload(t)

CallStep(t, c) ==
    \/ \E n \in Names : Hydrate(t, c, n)
    \/ SetFileData(t, c)
    \/ FinishBoot(t, c)
    \/ ListStore(t, c)
    \/ \E n \in Names : Prune(t, c, n)
    \/ SnapshotEntries(t, c)
    \/ \E n \in Names : OpenFile(t, c, n)
    \/ CloseFile(t, c)
    \/ FinishFlush(t, c)
    \/ \E n \in Names : ClearEntry(t, c, n)
    \/ FinishClear(t, c)

Next ==
    \E t \in Tabs :
        \/ \E c \in Calls : \/ StartBoot(t, c)
                            \/ Execute(t, c)
                            \/ StartClear(t, c)
                            \/ Fail(t, c)
                            \/ CallStep(t, c)
        \/ Deliver(t)
        \/ Interrupt(t)
        \/ ReloadOnWarning(t)

Spec == Init /\ [][Next]_vars

\* A posted message arrives and the page acts on it.  Nothing is assumed of the
\* user's calls.
FairSpec == /\ Spec
            /\ \A t \in Tabs : WF_vars(Deliver(t)) /\ WF_vars(ReloadOnWarning(t))

-----------------------------------------------------------------------------
(* Properties *)

InFlight(t) == \E c \in Calls : call[t][c].pc \notin AtRest
Clearing(t) == \E c \in Calls : call[t][c].pc = "clearing"

\* Whatever the page did before, once no call is in flight the store holds the
\* tree whose digest the worker remembers, so the next comparison against that
\* digest decides rightly whether there is anything to write (flush(),
\* worker.ts: "the digest of the tree as last persisted").
DigestMeansDurable ==
    \A t \in Tabs : engine[t] /\ ~InFlight(t) => opfs = flushed[t]

\* When every call so far has been acknowledged, the store holds the engine's
\* tree: a command that finds nothing to flush may say so only because all of it
\* is durable already (flush(), worker.ts; flushTreeToOPFS(), opfs.ts).
AcknowledgedIsDurable ==
    \A t \in Tabs :
        engine[t] /\ (\A c \in Calls : call[t][c].pc = "idle") => opfs = guest[t]

\* Cut short anywhere, a flush leaves every file as it was last persisted or as
\* the engine now has it, or empty where it was being created: no file that was
\* in both trees is ever gone (writeDir prunes and overwrites, and never clears).
CutShortLeavesOldOrNew ==
    \A t \in Tabs : engine[t] /\ ~Clearing(t) =>
        \A n \in Names : \/ opfs[n] \in {flushed[t][n], guest[t][n]}
                         \/ opfs[n] = Empty /\ flushed[t][n] = Absent

\* The engine and the flush look at one tree ("one instance per page load is
\* therefore the contract", worker.ts): otherwise the flush persists a tree the
\* engine does not write to.
OneTree == \A t \in Tabs : ~split[t]

\* The step delivers the announcement that path n changed: at the end of the
\* flush, or, when the flush found nothing to do, with the command itself.
Announces(t, n) ==
    \E c \in Calls :
        /\ call'[t][c].pc = "idle"
        /\ \/ FinishFlush(t, c) /\ call[t][c].change = n
           \/ Execute(t, c) /\ guest'[t][n] # guest[t][n]

\* "An event never arrives before the change it announces" (execute(),
\* worker.ts): when the announcement of a path that no later command has touched
\* goes out, the store holds what the engine has.  For runs without faults.
EventFollowsChange ==
    [][\A t \in Tabs, n \in Names : Announces(t, n) => opfs'[n] = guest'[t][n]]_vars

\* A tab whose tree lacks another tab's finished flush is stale, or the message
\* that will make it so is on its way: no interleaving of a boot's reads with the
\* other tab's writes leaves a tab behind and unwarned (crosstab.ts, worker.ts).
BehindTabIsWarned ==
    \A t \in Tabs : missed[t] # {} => Warned(t)

\* A tab that takes itself for current is current: unless a call that moves the
\* store is under way, one was cut short, or its own probe was denied, a tab with
\* no warning behind or before it has for persisted what the store holds, whatever
\* boots, flushes, resets and page loads of either tab interleaved (execute(),
\* worker.ts: "a tab that reloads on hearing this finds what it was told about").
UnwarnedTabIsCurrent ==
    \A t \in Tabs :
        /\ engine[t] /\ ~Warned(t) /\ ~unsaid[t]
        /\ \A u \in Tabs, c \in Calls : ~Moving(call[u][c])
        => opfs = flushed[t]

\* A call of tab t changes path n in the store, and no command of it did so.
RewritesUnasked(t, n) ==
    /\ opfs'[n] # opfs[n]
    /\ \E c \in Calls : call'[t][c] # call[t][c] /\ n \notin Changed(t, c)

\* No tab mirrors a snapshot over a file that another tab's finished flush changed
\* and its own command never touched: "cross-tab is safe" (README.md), though the
\* flush of a call accepted before the warning writes and prunes a whole tree.
NoForeignOverwrite ==
    [][\A t \in Tabs, n \in Names : RewritesUnasked(t, n) => n \notin missed[t]]_vars

\* A tab that fell behind does not stay behind: it is told, and reloads.
BehindTabCatchesUp ==
    \A t \in Tabs : missed[t] # {} ~> missed[t] = {}
=============================================================================
