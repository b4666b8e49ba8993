--------------------------- MODULE WebStoreProofs ---------------------------
(***************************************************************************)
(* Proofs about WebStore for any number of tabs, calls, files and faults.  *)
(***************************************************************************)
EXTENDS WebStore, TLAPS

USE StoreAssumption

-----------------------------------------------------------------------------
(* Calls *)

\* While a call hydrates it holds nothing but what it read, and while a file of
\* its flush is open it holds the bytes that file will get.
CallOK(k) ==
    /\ k \in CallState
    /\ k.pc = "hydrating" => k.tree \in Tree
    /\ k.pc = "closing" => k.at \in Names /\ k.tree[k.at] \in Content

CallsOK == \A t \in Tabs, c \in Calls : CallOK(call[t][c])

IInv == TypeOK /\ CallsOK

LEMMA RestOK == CallOK(Idle) /\ CallOK(Rejected)
  BY DEF CallOK, CallState, Idle, Rejected, Phases, AtRest, Tree, EmptyTree, Content

LEMMA EmptyTreeType == EmptyTree \in Tree
  BY DEF EmptyTree, Tree, Content

\* A step that moves one call of one tab keeps the calls as they should be when
\* the moved call is.
LEMMA OneCallMoves ==
    ASSUME IInv, NEW t \in Tabs, NEW c \in Calls, NEW k, CallOK(k),
           call' = [call EXCEPT ![t][c] = k]
    PROVE  call' \in [Tabs -> [Calls -> CallState]] /\ CallsOK'
  <1>1. call \in [Tabs -> [Calls -> CallState]] /\ k \in CallState
    BY DEF IInv, TypeOK, CallOK
  <1>2. call' \in [Tabs -> [Calls -> CallState]]
    BY <1>1
  <1>3. ASSUME NEW u \in Tabs, NEW d \in Calls
        PROVE  CallOK(call'[u][d])
    <2>1. call'[u][d] = IF u = t /\ d = c THEN k ELSE call[u][d]
      BY <1>1
    <2>2. CallOK(call[u][d])
      BY DEF IInv, CallsOK
    <2>. QED  BY <2>1, <2>2
  <1>. QED  BY <1>2, <1>3 DEF CallsOK

LEMMA DisturbOK ==
    ASSUME NEW k, CallOK(k), NEW n \in Names, NEW old \in Content, NEW v
    PROVE  CallOK(Disturb(k, n, old, v))
  <1> DEFINE d == DetachEntry(k, n, old, v)
  <1>1. CallOK(d)
    <2>1. CASE d = k
      BY <2>1
    <2>2. CASE k.pc \in {"writing", "closing"} /\ d = [k EXCEPT !.tree[n] = old]
      BY <2>2 DEF CallOK, CallState, Content, Tree, Phases, AtRest
    <2>. QED  BY <2>1, <2>2 DEF DetachEntry
  <1> HIDE DEF d
  <1>2. Disturb(k, n, old, v) = IF d.change = n THEN [d EXCEPT !.change = None] ELSE d
    BY DEF Disturb, d
  <1>3. CallOK([d EXCEPT !.change = None])
    BY <1>1 DEF CallOK, CallState
  <1>. QED  BY <1>1, <1>2, <1>3

\* A command at the engine moves no other call on.
LEMMA DisturbKeeps ==
    ASSUME NEW k, CallOK(k), NEW n, NEW old, NEW v
    PROVE  Disturb(k, n, old, v).pc = k.pc
  <1> DEFINE d == DetachEntry(k, n, old, v)
  <1>1. d = k \/ d = [k EXCEPT !.tree[n] = old]
    BY DEF DetachEntry
  <1>2. "pc" \in DOMAIN d /\ d.pc = k.pc
    BY <1>1 DEF CallOK, CallState
  <1> HIDE DEF d
  <1>3. Disturb(k, n, old, v) = IF d.change = n THEN [d EXCEPT !.change = None] ELSE d
    BY DEF Disturb, d
  <1>. QED  BY <1>2, <1>3

\* The call a command leaves behind flushes, or is at rest.
LEMMA AfterCommandOK ==
    ASSUME NEW digest \in Tree, NEW persisted, NEW isSplit \in BOOLEAN,
           NEW n \in Names \cup {None}
    PROVE  CallOK(AfterCommand(digest, persisted, isSplit, n))
  BY DEF AfterCommand, NeedsFlush, CallOK, CallState, Idle, Phases, AtRest, Tree,
         EmptyTree, Content

\* Its fields, one by one.
IsListing(k, digest, live, n) ==
    /\ k.pc = "listing" /\ k.todo = {} /\ k.digest = digest /\ k.live = live
    /\ k.at = None /\ k.change = n /\ k.tree = [m \in Names |-> None]

LEMMA AfterCommandFields ==
    ASSUME NEW digest, NEW persisted, NEW isSplit, NEW n
    PROVE  LET k == AfterCommand(digest, persisted, isSplit, n)
           IN  IF NeedsFlush(digest, persisted)
               THEN IsListing(k, digest, ~isSplit, n)
               ELSE k = Idle
  <1>1. ASSUME NEW live
        PROVE  IsListing([Idle EXCEPT !.pc = "listing", !.digest = digest, !.live = live,
                                      !.change = n],
                         digest, live, n)
    <2> DEFINE none == [m \in Names |-> None]
    <2> HIDE DEF none
    <2>1. Idle = [pc |-> "idle", todo |-> {}, tree |-> none,
                  digest |-> EmptyTree, live |-> FALSE, at |-> None,
                  change |-> None]
      BY DEF Idle, none
    <2>2. ASSUME NEW k, k = [Idle EXCEPT !.pc = "listing", !.digest = digest, !.live = live,
                                         !.change = n]
          PROVE  /\ k.pc = "listing" /\ k.todo = {} /\ k.digest = digest /\ k.live = live
                 /\ k.at = None /\ k.change = n /\ k.tree = none
      BY <2>1, <2>2
    <2>. QED  BY <2>2 DEF IsListing, none
  <1>. QED  BY <1>1 DEF AfterCommand

\* A command writes trees of the right kind and leaves every call as it should be.
LEMMA CommandTypes ==
    ASSUME NEW t, NEW c, NEW g, NEW fd, NEW persisted, NEW isSplit,
           RunCommand(t, c, g, fd, persisted, isSplit), IInv,
           t \in Tabs, c \in Calls, g \in Tree, fd \in Tree, isSplit \in BOOLEAN
    PROVE  /\ guest' \in [Tabs -> Tree]
           /\ fileData' \in [Tabs -> Tree]
           /\ call' \in [Tabs -> [Calls -> CallState]]
           /\ CallsOK'
  <1> DEFINE Old(n)   == IF n = None THEN Absent ELSE g[n]
             After(n, v) == IF n = None THEN g ELSE [g EXCEPT ![n] = v]
             Shim(n, v)  == IF isSplit THEN fd ELSE After(n, v)
             Others(n, v) == [d \in Calls |-> IF n = None THEN call[t][d]
                                     ELSE Disturb(call[t][d], n, Old(n), v)]
             Mine(n, v) == AfterCommand(Shim(n, v), persisted, isSplit,
                                        IF After(n, v) = g THEN None ELSE n)
  <1>1. PICK n \in Names \cup {None}, v \in Vals \cup {Absent} :
          /\ n = None => v = Absent
          /\ guest' = [guest EXCEPT ![t] = After(n, v)]
          /\ fileData' = [fileData EXCEPT ![t] = Shim(n, v)]
          /\ \/ call' = [call EXCEPT ![t] = [Others(n, v) EXCEPT ![c] = Mine(n, v)]]
             \/ /\ "trap" \in Faults
                /\ call' = [call EXCEPT ![t] = [Others(n, v) EXCEPT ![c] = Rejected]]
    BY DEF RunCommand
  <1>2. After(n, v) \in Tree /\ Shim(n, v) \in Tree
    BY DEF Tree, Content
  <1>3. guest' \in [Tabs -> Tree] /\ fileData' \in [Tabs -> Tree]
    BY <1>1, <1>2 DEF IInv, TypeOK
  <1>4. ASSUME NEW d \in Calls PROVE CallOK(Others(n, v)[d])
    <2>1. CallOK(call[t][d])
      BY DEF IInv, CallsOK
    <2>2. CASE n = None
      BY <2>1, <2>2
    <2>3. CASE n # None
      <3>1. n \in Names /\ Old(n) \in Content
        BY <2>3 DEF Tree
      <3>2. CallOK(Disturb(call[t][d], n, Old(n), v))
        BY <2>1, <3>1, DisturbOK
      <3>. QED  BY <2>3, <3>2
    <2>. QED  BY <2>2, <2>3
  <1>5. CallOK(Mine(n, v))
    <2>1. (IF After(n, v) = g THEN None ELSE n) \in Names \cup {None}
      OBVIOUS
    <2>. QED  BY <1>2, <2>1, AfterCommandOK
  <1>6. PICK m : CallOK(m) /\ call' = [call EXCEPT ![t] = [Others(n, v) EXCEPT ![c] = m]]
    BY <1>1, <1>5, RestOK
  <1> HIDE DEF Others
  <1>7. DOMAIN Others(n, v) = Calls
    BY DEF Others
  <1>8. ASSUME NEW d \in Calls PROVE CallOK(call'[t][d])
    <2>1. call'[t][d] = IF d = c THEN m ELSE Others(n, v)[d]
      BY <1>6, <1>7 DEF IInv, TypeOK
    <2>. QED  BY <1>4, <1>6, <2>1
  <1>9. ASSUME NEW u \in Tabs, NEW d \in Calls PROVE CallOK(call'[u][d])
    <2>1. CASE u = t
      BY <1>8, <2>1
    <2>2. CASE u # t
      <3>1. call'[u] = call[u]
        BY <1>6, <2>2 DEF IInv, TypeOK
      <3>. QED  BY <3>1 DEF IInv, CallsOK
    <2>. QED  BY <2>1, <2>2
  <1>10. call' \in [Tabs -> [Calls -> CallState]]
    <2>1. DOMAIN call' = Tabs
      BY <1>6 DEF IInv, TypeOK
    <2>2. [Others(n, v) EXCEPT ![c] = m] \in [Calls -> CallState]
      <3>1. ASSUME NEW d \in Calls PROVE Others(n, v)[d] \in CallState
        BY <1>4 DEF CallOK
      <3>2. m \in CallState
        BY <1>6 DEF CallOK
      <3>3. Others(n, v) \in [Calls -> CallState]
        BY <1>7, <3>1 DEF Others
      <3>. QED  BY <3>2, <3>3
    <2>. QED  BY <1>6, <2>2 DEF IInv, TypeOK
  <1>. QED  BY <1>3, <1>9, <1>10 DEF CallsOK

-----------------------------------------------------------------------------
(* Type correctness *)

LEMMA TypeInit == Init => IInv
  <1> SUFFICES ASSUME Init PROVE IInv
    OBVIOUS
  <1>1. ASSUME NEW t \in Tabs, NEW c \in Calls PROVE CallOK(call[t][c])
    BY RestOK DEF Init
  <1>2. Idle \in CallState
    BY RestOK DEF CallOK
  <1>3. TypeOK
    BY <1>2, EmptyTreeType DEF Init, TypeOK
  <1>. QED  BY <1>1, <1>3 DEF IInv, CallsOK

\* What a call that ends half-way leaves unsaid is kept tab by tab.
LEMMA LeavesUnsaidType ==
    ASSUME IInv, NEW ended
    PROVE  LeavesUnsaid(ended) \in [Tabs -> BOOLEAN]
  <1>1. ASSUME NEW u \in Tabs
        PROVE  (unsaid[u] \/ (Started(u) /\ ~Warned(u) /\ \E k \in ended : Moving(k)))
                 \in BOOLEAN
    <2> DEFINE left == \E k \in ended : Moving(k)
    <2>1. left \in BOOLEAN
      OBVIOUS
    <2> HIDE DEF left
    <2>2. (unsaid[u] \/ (Started(u) /\ ~Warned(u) /\ left)) \in BOOLEAN
      BY <2>1
    <2>. QED  BY <2>2 DEF left
  <1>. QED  BY <1>1 DEF LeavesUnsaid

LEMMA ReloadTypes ==
    ASSUME IInv, NEW t \in Tabs, Reload(t)
    PROVE  IInv'
  <1>1. Idle \in CallState /\ CallOK(Idle)
    BY RestOK DEF CallOK
  <1>2. TypeOK'
    <2>1. unsaid' \in [Tabs -> BOOLEAN]
      BY LeavesUnsaidType DEF Reload
    <2>. QED  BY <1>1, <2>1, EmptyTreeType DEF Reload, IInv, TypeOK
  <1>3. ASSUME NEW u \in Tabs, NEW d \in Calls PROVE CallOK(call'[u][d])
    <2>1. call'[u][d] = IF u = t THEN Idle ELSE call[u][d]
      BY DEF Reload, IInv, TypeOK
    <2>. QED  BY <1>1, <2>1 DEF IInv, CallsOK
  <1>. QED  BY <1>2, <1>3 DEF IInv, CallsOK

\* A call starts to boot or to clear the store.
LEMMA StartTypes ==
    ASSUME IInv, NEW t \in Tabs, NEW c \in Calls,
           StartBoot(t, c) \/ StartClear(t, c)
    PROVE  IInv'
  <1>1. CASE StartBoot(t, c)
    <2>1. PICK denied \in BOOLEAN :
            /\ call' = [call EXCEPT ![t][c] =
                         [Idle EXCEPT !.pc = "hydrating", !.tree = EmptyTree,
                                      !.todo = IF denied THEN {} ELSE Names]]
            /\ unsaid' = [unsaid EXCEPT ![t] = denied /\ ~Warned(t)]
      BY <1>1 DEF StartBoot
    <2>2. CallOK([Idle EXCEPT !.pc = "hydrating", !.tree = EmptyTree,
                              !.todo = IF denied THEN {} ELSE Names])
      BY DEF CallOK, CallState, Idle, Phases, AtRest, Tree, EmptyTree, Content,
             IInv, TypeOK
    <2>3. call' \in [Tabs -> [Calls -> CallState]] /\ CallsOK'
      BY <2>1, <2>2, OneCallMoves
    <2>4. unsaid' \in [Tabs -> BOOLEAN]
      BY <2>1 DEF IInv, TypeOK
    <2>. QED  BY <1>1, <2>3, <2>4 DEF StartBoot, tabVars, IInv, TypeOK
  <1>2. CASE StartClear(t, c)
    <2>1. CallOK([Idle EXCEPT !.pc = "clearing", !.todo = Present(opfs)])
      BY DEF CallOK, CallState, Idle, Phases, AtRest, Tree, EmptyTree, Content, Present
    <2>2. call' \in [Tabs -> [Calls -> CallState]] /\ CallsOK'
      BY <1>2, <2>1, OneCallMoves DEF StartClear
    <2>. QED  BY <1>2, <2>2 DEF StartClear, tabVars, auxVars, IInv, TypeOK
  <1>. QED  BY <1>1, <1>2

\* The steps of a call that reads the store, prunes it or clears it one path at a
\* time, lists it, or stops on a failure.
LEMMA WalkTypes ==
    ASSUME IInv, NEW t \in Tabs, NEW c \in Calls,
           \/ \E n \in Names : \/ Hydrate(t, c, n) \/ Prune(t, c, n)
                               \/ ClearEntry(t, c, n)
           \/ ListStore(t, c) \/ SnapshotEntries(t, c) \/ Fail(t, c)
    PROVE  IInv'
  <1> DEFINE k == call[t][c]
  <1>1. CallOK(k)
    BY DEF IInv, CallsOK
  <1>2. ASSUME NEW n \in Names, Hydrate(t, c, n) PROVE IInv'
    <2>1. CallOK([k EXCEPT !.todo = @ \ {n}, !.tree[n] = opfs[n]])
      BY <1>1, <1>2 DEF CallOK, CallState, Hydrate, Tree, IInv, TypeOK
    <2>2. call' = [call EXCEPT ![t][c] =
                    [k EXCEPT !.todo = @ \ {n}, !.tree[n] = opfs[n]]]
      BY <1>2 DEF Hydrate
    <2>3. call' \in [Tabs -> [Calls -> CallState]] /\ CallsOK'
      BY <2>1, <2>2, OneCallMoves
    <2>. QED  BY <1>2, <2>3 DEF Hydrate, tabVars, auxVars, IInv, TypeOK
  <1>3. ASSUME NEW n \in Names, Prune(t, c, n) \/ ClearEntry(t, c, n) PROVE IInv'
    <2>1. CallOK([k EXCEPT !.todo = @ \ {n}])
      BY <1>1 DEF CallOK, CallState
    <2>2. call' = [call EXCEPT ![t][c] = [k EXCEPT !.todo = @ \ {n}]]
      BY <1>3 DEF Prune, ClearEntry, IInv, TypeOK
    <2>3. call' \in [Tabs -> [Calls -> CallState]] /\ CallsOK'
      BY <2>1, <2>2, OneCallMoves
    <2>4. opfs' \in Tree
      BY <1>3 DEF Prune, ClearEntry, IInv, TypeOK, Tree, Content
    <2>. QED  BY <1>3, <2>3, <2>4 DEF Prune, ClearEntry, tabVars, auxVars, IInv, TypeOK
  <1>4. CASE ListStore(t, c)
    <2>1. CallOK([k EXCEPT !.pc = "pruning", !.todo = Present(opfs)])
      BY <1>1 DEF CallOK, CallState, Present, Phases
    <2>2. call' = [call EXCEPT ![t][c] =
                    [k EXCEPT !.pc = "pruning", !.todo = Present(opfs)]]
      BY <1>4 DEF ListStore
    <2>3. call' \in [Tabs -> [Calls -> CallState]] /\ CallsOK'
      BY <2>1, <2>2, OneCallMoves
    <2>. QED  BY <1>4, <2>3 DEF ListStore, tabVars, auxVars, IInv, TypeOK
  <1>5. CASE SnapshotEntries(t, c)
    <2>1. CallOK([k EXCEPT !.pc = "writing", !.todo = Present(Wanted(t, c))])
      BY <1>1 DEF CallOK, CallState, Present, Phases
    <2>2. call' = [call EXCEPT ![t][c] =
                    [k EXCEPT !.pc = "writing", !.todo = Present(Wanted(t, c))]]
      BY <1>5 DEF SnapshotEntries
    <2>3. call' \in [Tabs -> [Calls -> CallState]] /\ CallsOK'
      BY <2>1, <2>2, OneCallMoves
    <2>. QED  BY <1>5, <2>3 DEF SnapshotEntries, tabVars, auxVars, IInv, TypeOK
  <1>6. CASE Fail(t, c)
    <2>1. call' \in [Tabs -> [Calls -> CallState]] /\ CallsOK'
      BY <1>6, OneCallMoves, RestOK DEF Fail
    <2>2. unsaid' \in [Tabs -> BOOLEAN]
      BY <1>6, LeavesUnsaidType DEF Fail
    <2>. QED  BY <1>6, <2>1, <2>2 DEF Fail, tabVars, IInv, TypeOK
  <1>. QED  BY <1>2, <1>3, <1>4, <1>5, <1>6

\* What a flush works from is a tree.
LEMMA WantedType ==
    ASSUME IInv, NEW t \in Tabs, NEW c \in Calls
    PROVE  Wanted(t, c) \in Tree
  BY DEF Wanted, IInv, TypeOK, CallState

\* A file of a flush is opened, is closed, or all of them have been.
LEMMA WriteTypes ==
    ASSUME IInv, NEW t \in Tabs, NEW c \in Calls,
           (\E n \in Names : OpenFile(t, c, n)) \/ CloseFile(t, c) \/ FinishFlush(t, c)
    PROVE  IInv'
  <1> DEFINE k == call[t][c]
  <1>1. CallOK(k)
    BY DEF IInv, CallsOK
  <1>2. ASSUME NEW n \in Names, OpenFile(t, c, n) PROVE IInv'
    <2> DEFINE bytes == IF k.tree[n] = None THEN Wanted(t, c)[n] ELSE k.tree[n]
    <2>1. bytes \in Content
      BY <1>1, WantedType DEF CallOK, CallState, Tree
    <2> HIDE DEF bytes
    <2>2. CallOK([k EXCEPT !.pc = "closing", !.at = n, !.tree[n] = bytes])
      BY <1>1, <2>1 DEF CallOK, CallState, Phases
    <2>3. call' = [call EXCEPT ![t][c] =
                    [k EXCEPT !.pc = "closing", !.at = n, !.tree[n] = bytes]]
      BY <1>2 DEF OpenFile, bytes
    <2>4. call' \in [Tabs -> [Calls -> CallState]] /\ CallsOK'
      BY <2>2, <2>3, OneCallMoves
    <2>5. opfs' \in Tree
      BY <1>2 DEF OpenFile, IInv, TypeOK, Tree, Content
    <2>. QED  BY <1>2, <2>4, <2>5 DEF OpenFile, tabVars, auxVars, IInv, TypeOK
  <1>3. CASE CloseFile(t, c)
    <2>1. k.at \in Names /\ k.tree[k.at] \in Content
      BY <1>1, <1>3 DEF CallOK, CloseFile
    <2>2. CallOK([k EXCEPT !.pc = "writing", !.at = None,
                           !.todo = @ \ {k.at}, !.tree[k.at] = None])
      BY <1>1, <2>1 DEF CallOK, CallState, Phases
    <2>3. call' = [call EXCEPT ![t][c] =
                    [k EXCEPT !.pc = "writing", !.at = None,
                              !.todo = @ \ {k.at}, !.tree[k.at] = None]]
      BY <1>3 DEF CloseFile
    <2>4. call' \in [Tabs -> [Calls -> CallState]] /\ CallsOK'
      BY <2>2, <2>3, OneCallMoves
    <2>5. opfs' \in Tree
      BY <1>3, <2>1 DEF CloseFile, IInv, TypeOK, Tree
    <2>. QED  BY <1>3, <2>4, <2>5 DEF CloseFile, tabVars, auxVars, IInv, TypeOK
  <1>4. CASE FinishFlush(t, c)
    <2>1. call' \in [Tabs -> [Calls -> CallState]] /\ CallsOK'
      BY <1>4, OneCallMoves, RestOK DEF FinishFlush
    <2>2. k.digest \in Tree
      BY <1>1 DEF CallOK, CallState
    <2>3. inbox' \in [Tabs -> BOOLEAN] /\ missed' \in [Tabs -> SUBSET Names]
      BY <1>4 DEF FinishFlush, Hears, Changed, IInv, TypeOK
    <2>5. unsaid' \in [Tabs -> BOOLEAN]
      BY <1>4 DEF FinishFlush, Hears, IInv, TypeOK
    <2>4. flushed' \in [Tabs -> Tree \cup {None}]
      BY <1>4, <2>2 DEF FinishFlush, IInv, TypeOK
    <2>. QED  BY <1>4, <2>1, <2>3, <2>4, <2>5 DEF FinishFlush, IInv, TypeOK
  <1>. QED  BY <1>2, <1>3, <1>4

\* A boot hands its tree to the shim, and then to the engine.
LEMMA BootTypes ==
    ASSUME IInv, NEW t \in Tabs, NEW c \in Calls,
           SetFileData(t, c) \/ FinishBoot(t, c) \/ Execute(t, c)
    PROVE  IInv'
  <1> DEFINE k == call[t][c]
  <1>1. CallOK(k)
    BY DEF IInv, CallsOK
  <1>2. CASE SetFileData(t, c)
    <2>1. k.tree \in Tree
      BY <1>1, <1>2 DEF CallOK, SetFileData
    <2>2. CallOK([k EXCEPT !.pc = "importing", !.tree = Idle.tree])
      BY <1>1 DEF CallOK, CallState, Phases, Idle
    <2>3. call' = [call EXCEPT ![t][c] = [k EXCEPT !.pc = "importing", !.tree = Idle.tree]]
      BY <1>2 DEF SetFileData
    <2>4. call' \in [Tabs -> [Calls -> CallState]] /\ CallsOK'
      BY <2>2, <2>3, OneCallMoves
    <2>. QED  BY <1>2, <2>1, <2>4 DEF SetFileData, auxVars, IInv, TypeOK
  <1>3. CASE FinishBoot(t, c)
    <2> DEFINE g == IF engine[t] THEN guest[t] ELSE fileData[t]
    <2>1. g \in Tree /\ fileData[t] \in Tree /\ split[t] \in BOOLEAN
      BY <1>1 DEF IInv, TypeOK, CallOK, CallState
    <2>2. RunCommand(t, c, g, fileData[t], fileData[t], split[t])
      BY <1>3 DEF FinishBoot
    <2> HIDE DEF g
    <2>3. /\ guest' \in [Tabs -> Tree] /\ fileData' \in [Tabs -> Tree]
          /\ call' \in [Tabs -> [Calls -> CallState]] /\ CallsOK'
      BY <2>1, <2>2, CommandTypes
    <2>. QED  BY <1>3, <2>1, <2>3 DEF FinishBoot, auxVars, IInv, TypeOK
  <1>4. CASE Execute(t, c)
    <2>1. guest[t] \in Tree /\ fileData[t] \in Tree /\ split[t] \in BOOLEAN
      BY DEF IInv, TypeOK
    <2>2. RunCommand(t, c, guest[t], fileData[t], flushed[t], split[t])
      BY <1>4 DEF Execute
    <2>3. /\ guest' \in [Tabs -> Tree] /\ fileData' \in [Tabs -> Tree]
          /\ call' \in [Tabs -> [Calls -> CallState]] /\ CallsOK'
      BY <2>1, <2>2, CommandTypes
    <2>. QED  BY <1>4, <2>3 DEF Execute, auxVars, IInv, TypeOK
  <1>. QED  BY <1>2, <1>3, <1>4

LEMMA DeliverTypes ==
    ASSUME IInv, NEW t \in Tabs, Deliver(t)
    PROVE  IInv'
  BY DEF Deliver, auxVars, IInv, TypeOK, CallsOK

LEMMA TypeStep == IInv /\ [Next]_vars => IInv'
  <1> SUFFICES ASSUME IInv, [Next]_vars PROVE IInv'
    OBVIOUS
  <1>1. CASE UNCHANGED vars
    BY <1>1 DEF vars, IInv, TypeOK, CallsOK
  <1>2. ASSUME NEW t \in Tabs, NEW c \in Calls, StartBoot(t, c) \/ StartClear(t, c)
        PROVE  IInv'
    BY <1>2, StartTypes
  <1>3. ASSUME NEW t \in Tabs, NEW c \in Calls, Execute(t, c) \/ Fail(t, c)
        PROVE  IInv'
    BY <1>3, BootTypes, WalkTypes
  <1>4. ASSUME NEW t \in Tabs, NEW c \in Calls, CallStep(t, c)
        PROVE  IInv'
    BY <1>4, WalkTypes, WriteTypes, BootTypes, ReloadTypes DEF CallStep, FinishClear
  <1>5. ASSUME NEW t \in Tabs, Deliver(t) \/ Interrupt(t) \/ ReloadOnWarning(t)
        PROVE  IInv'
    BY <1>5, DeliverTypes, ReloadTypes DEF Interrupt, ReloadOnWarning
  <1>. QED  BY <1>1, <1>2, <1>3, <1>4, <1>5 DEF Next

\* Whatever the tabs, the calls, the faults and the timing, the worker's variables
\* are what its code takes them to be.
THEOREM TypeCorrect == Spec => []TypeOK
  <1>1. IInv => TypeOK
    BY DEF IInv
  <1>. QED  BY TypeInit, TypeStep, <1>1, PTL DEF Spec

-----------------------------------------------------------------------------
(* Tabs that fall behind *)

\* A page load leaves nothing behind, and a flush that ends tells every tab it
\* leaves behind, unless that tab has been told before.
LEMMA WarnedStep ==
    IInv /\ BehindTabIsWarned /\ [Next]_vars => BehindTabIsWarned'
  <1> SUFFICES ASSUME IInv, BehindTabIsWarned, [Next]_vars,
                      NEW u \in Tabs, missed'[u] # {}
               PROVE  stale'[u] \/ inbox'[u]
    BY DEF BehindTabIsWarned, Warned
  <1> USE DEF IInv, TypeOK, Warned
  <1>1. CASE UNCHANGED <<stale, inbox, missed>>
    BY <1>1 DEF BehindTabIsWarned
  <1>2. ASSUME NEW t \in Tabs, NEW c \in Calls, FinishFlush(t, c)
        PROVE  stale'[u] \/ inbox'[u]
    <2>1. CASE u = t
      BY <1>2, <2>1 DEF FinishFlush, BehindTabIsWarned
    <2>2. CASE u # t
      BY <1>2, <2>2 DEF FinishFlush, Hears
    <2>. QED  BY <2>1, <2>2
  <1>3. ASSUME NEW t \in Tabs, Reload(t)
        PROVE  stale'[u] \/ inbox'[u]
    BY <1>3 DEF Reload, BehindTabIsWarned
  <1>4. ASSUME NEW t \in Tabs, Deliver(t)
        PROVE  stale'[u] \/ inbox'[u]
    BY <1>4 DEF Deliver, auxVars, BehindTabIsWarned
  <1>5. ASSUME NEW t \in Tabs, NEW c \in Calls,
               StartBoot(t, c) \/ Execute(t, c) \/ StartClear(t, c) \/ Fail(t, c)
        PROVE  UNCHANGED <<stale, inbox, missed>>
    BY <1>5 DEF StartBoot, Execute, StartClear, Fail, tabVars, auxVars
  <1>6. ASSUME NEW t \in Tabs, NEW c \in Calls, CallStep(t, c)
        PROVE  \/ UNCHANGED <<stale, inbox, missed>>
               \/ FinishFlush(t, c) \/ Reload(t)
    BY <1>6 DEF CallStep, Hydrate, SetFileData, FinishBoot, ListStore, Prune,
                SnapshotEntries, OpenFile, CloseFile, ClearEntry, FinishClear, tabVars, auxVars
  <1>7. UNCHANGED vars => UNCHANGED <<stale, inbox, missed>>
    BY DEF vars
  <1>. QED  BY <1>1, <1>2, <1>3, <1>4, <1>5, <1>6, <1>7
            DEF Next, Interrupt, ReloadOnWarning

\* A tab whose tree lacks what another tab has flushed is stale, or the message
\* that will make it so is on its way: publishStoreChanged() misses nobody.
THEOREM BehindTabsAreWarned == Spec => []BehindTabIsWarned
  <1>1. Init => BehindTabIsWarned
    BY DEF Init, BehindTabIsWarned
  <1>. QED  BY TypeInit, TypeStep, WarnedStep, <1>1, PTL DEF Spec
=============================================================================
