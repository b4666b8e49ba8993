------------------------ MODULE WebStoreSerialProofs ------------------------
(***************************************************************************)
(* Proofs about one tab whose page awaits every call, for any calls, files *)
(* and contents: what the digest means, what a flush cut short leaves      *)
(* behind, and that the store implements DurableStore.                     *)
(***************************************************************************)
EXTENDS MCWebStoreSerial, WebStoreProofs

USE SerialAssumption

-----------------------------------------------------------------------------
(* The invariant *)

Booting == {"hydrating", "importing"}
Flushing == {"listing", "pruning", "writing", "closing"}

\* What a boot has read so far is what the store holds, and so is the tree it has
\* handed to the shim.
BootOK(k, fd, o) ==
    /\ k.pc = "hydrating" => \A n \in Names \ k.todo : k.tree[n] = o[n]
    /\ k.pc = "importing" => fd = o

\* A flush from the persisted tree f to the engine's tree g has dealt with the
\* paths it need not visit any more, and has not touched the others (o is the
\* store); the file that is open is there, and gets the engine's bytes.
FlushOK(k, g, f, o) ==
    /\ k.live /\ k.digest = g
    /\ \A n \in Names : k.tree[n] = IF k.pc = "closing" /\ n = k.at THEN g[n] ELSE None
    /\ k.pc = "listing" => o = f
    /\ k.pc = "pruning" =>
         \A n \in Names : o[n] = IF n \in k.todo \/ g[n] # Absent THEN f[n] ELSE Absent
    /\ k.pc \in {"writing", "closing"} =>
         \A n \in Names :
           IF n \in k.todo
           THEN /\ g[n] # Absent
                /\ o[n] = IF k.pc = "closing" /\ n = k.at /\ f[n] = Absent
                          THEN Empty ELSE f[n]
           ELSE o[n] = g[n]
    /\ k.pc = "closing" => k.at \in k.todo

\* At most one call is under way; a boot runs without an engine, a flush with one.
CallInv(c) ==
    LET k == call[Tab][c]
    IN  /\ k.pc \notin AtRest => \A d \in Calls \ {c} : call[Tab][d].pc \in AtRest
        /\ k.pc \in Booting => ~engine[Tab] /\ BootOK(k, fileData[Tab], opfs)
        /\ k.pc \in Flushing =>
             engine[Tab] /\ FlushOK(k, guest[Tab], flushed[Tab], opfs)

\* The engine and the flush look at one tree.
TreeInv ==
    /\ ~split[Tab]
    /\ engine[Tab] => guest[Tab] = fileData[Tab] /\ flushed[Tab] \in Tree

\* With no call under way the digest is that of the store; and when all calls were
\* acknowledged, of the engine's tree as well.
RestInv ==
    engine[Tab] /\ (\A c \in Calls : call[Tab][c].pc \in AtRest) =>
        /\ opfs = flushed[Tab]
        /\ (\A c \in Calls : call[Tab][c].pc = "idle") => guest[Tab] = flushed[Tab]

SInv == IInv /\ TreeInv /\ RestInv /\ \A c \in Calls : CallInv(c)

-----------------------------------------------------------------------------
(* Steps *)

LEMMA TheTab == Tab \in Tabs /\ Tabs = {Tab}
  BY DEF Tab

\* With one tree, a command takes the engine's tree g to one that differs from it
\* in at most a path, and its call rests if that is the persisted tree, has the
\* tree to flush if it is not, or has trapped.
After(g, n, v) == IF n = None THEN g ELSE [g EXCEPT ![n] = v]

Outcome(k, after, persisted) ==
    \/ k.pc = "rejected"
    \/ k = Idle /\ after = persisted
    \/ /\ after # persisted
       /\ k.pc = "listing" /\ k.digest = after /\ k.live
       /\ \A m \in Names : k.tree[m] = None

CommandDoes(c, g, persisted) ==
    \E n \in Names \cup {None}, v \in Vals \cup {Absent} :
        /\ guest'[Tab] = After(g, n, v)
        /\ fileData'[Tab] = After(g, n, v)
        /\ \A d \in Calls \ {c} : call'[Tab][d].pc = call[Tab][d].pc
        /\ Outcome(call'[Tab][c], After(g, n, v), persisted)

LEMMA CommandEffect ==
    ASSUME NEW c, NEW g, NEW fd, NEW persisted, NEW isSplit,
           RunCommand(Tab, c, g, fd, persisted, isSplit), IInv,
           c \in Calls, g \in Tree, isSplit \in BOOLEAN, isSplit = FALSE
    PROVE  CommandDoes(c, g, persisted)
  <1> DEFINE Old(n)    == IF n = None THEN Absent ELSE g[n]
             Others(n, v) == [d \in Calls |-> IF n = None THEN call[Tab][d]
                                     ELSE Disturb(call[Tab][d], n, Old(n), v)]
             Mine(n, v) == AfterCommand(After(g, n, v), persisted, isSplit,
                                        IF After(g, n, v) = g THEN None ELSE n)
             Shim(n, v) == IF isSplit THEN fd ELSE After(g, n, v)
             Left(n, v) == AfterCommand(Shim(n, v), persisted, isSplit,
                                        IF After(g, n, v) = g THEN None ELSE n)
  <1>1. PICK n \in Names \cup {None}, v \in Vals \cup {Absent} :
          /\ n = None => v = Absent
          /\ guest' = [guest EXCEPT ![Tab] = After(g, n, v)]
          /\ fileData' = [fileData EXCEPT ![Tab] = Shim(n, v)]
          /\ \/ call' = [call EXCEPT ![Tab] = [Others(n, v) EXCEPT ![c] = Left(n, v)]]
             \/ /\ "trap" \in Faults
                /\ call' = [call EXCEPT ![Tab] = [Others(n, v) EXCEPT ![c] = Rejected]]
    BY DEF RunCommand, After
  <1>2. Shim(n, v) = After(g, n, v) /\ Left(n, v) = Mine(n, v)
    OBVIOUS
  <1> HIDE DEF Shim, Left
  <1>3. guest'[Tab] = After(g, n, v) /\ fileData'[Tab] = After(g, n, v)
    BY <1>1, <1>2, TheTab DEF IInv, TypeOK
  <1>4. Outcome(Mine(n, v), After(g, n, v), persisted)
    <2> DEFINE change == IF After(g, n, v) = g THEN None ELSE n
    <2> HIDE DEF change
    <2>1. Mine(n, v) = AfterCommand(After(g, n, v), persisted, isSplit, change)
      BY DEF change
    <2> HIDE DEF Mine
    <2>2. CASE After(g, n, v) = persisted
      <3>1. Mine(n, v) = Idle
        BY <2>1, <2>2 DEF AfterCommand, NeedsFlush
      <3>. QED  BY <2>2, <3>1 DEF Outcome
    <2>3. CASE After(g, n, v) # persisted
      <3>1. IsListing(Mine(n, v), After(g, n, v), ~isSplit, change)
        BY <2>1, <2>3, AfterCommandFields DEF NeedsFlush
      <3>. QED  BY <2>3, <3>1 DEF Outcome, IsListing
    <2>. QED  BY <2>2, <2>3
  <1>5. Outcome(Rejected, After(g, n, v), persisted)
    BY DEF Outcome, Rejected, Idle
  <1>6. ASSUME NEW d \in Calls PROVE Others(n, v)[d].pc = call[Tab][d].pc
    <2>1. CallOK(call[Tab][d])
      BY TheTab DEF IInv, CallsOK
    <2>. QED  BY <2>1, DisturbKeeps
  <1> HIDE DEF Others, Mine
  <1>7. PICK m : /\ call' = [call EXCEPT ![Tab] = [Others(n, v) EXCEPT ![c] = m]]
                 /\ Outcome(m, After(g, n, v), persisted)
    BY <1>1, <1>4, <1>5, <1>2
  <1>8. call'[Tab] = [Others(n, v) EXCEPT ![c] = m]
    BY <1>7, TheTab DEF IInv, TypeOK
  <1>9. DOMAIN Others(n, v) = Calls
    BY DEF Others
  <1>10. /\ call'[Tab][c] = m
        /\ \A d \in Calls \ {c} : call'[Tab][d].pc = call[Tab][d].pc
    BY <1>6, <1>8, <1>9
  <1>. QED  BY <1>3, <1>7, <1>10 DEF CommandDoes

\* It is enough to look at the call that moves, when the others are at rest.
LEMMA OthersAtRest ==
    ASSUME IInv', TreeInv', RestInv', NEW c \in Calls, CallInv(c)',
           \A d \in Calls \ {c} : call'[Tab][d].pc \in AtRest
    PROVE  SInv'
  <1>1. ASSUME NEW d \in Calls \ {c} PROVE CallInv(d)'
    BY <1>1 DEF CallInv, AtRest, Booting, Flushing
  <1>. QED  BY <1>1 DEF SInv

LEMMA Alone ==
    ASSUME SInv, NEW c \in Calls, call[Tab][c].pc \notin AtRest
    PROVE  \A d \in Calls \ {c} : call[Tab][d].pc \in AtRest
  BY DEF SInv, CallInv

\* A call under way takes a step that leaves the tab's own variables alone.
LEMMA ActiveCallMoves ==
    ASSUME SInv, IInv', NEW c \in Calls, call[Tab][c].pc \notin AtRest, NEW k,
           call' = [call EXCEPT ![Tab][c] = k], UNCHANGED tabVars,
           \/ k.pc \in Booting /\ ~engine[Tab] /\ BootOK(k, fileData[Tab], opfs')
           \/ k.pc \in Flushing /\ engine[Tab]
              /\ FlushOK(k, guest[Tab], flushed[Tab], opfs')
           \/ k.pc = "clearing"
    PROVE  SInv'
  <1>1. /\ call'[Tab][c] = k
        /\ \A d \in Calls \ {c} : call'[Tab][d] = call[Tab][d]
    BY TheTab DEF SInv, IInv, TypeOK
  <1>2. \A d \in Calls \ {c} : call'[Tab][d].pc \in AtRest
    BY <1>1, Alone
  <1>3. k.pc \notin AtRest
    BY DEF Booting, Flushing, AtRest
  <1>4. CallInv(c)'
    BY <1>1, <1>2 DEF CallInv, tabVars, Booting, Flushing
  <1>5. RestInv'
    BY <1>1, <1>3 DEF RestInv
  <1>6. TreeInv'
    BY DEF SInv, TreeInv, tabVars
  <1>. QED  BY <1>2, <1>4, <1>5, <1>6, OthersAtRest

\* A boot reads a file, or hands over what it has read.
LEMMA HydrateStep ==
    ASSUME SInv, IInv', NEW c \in Calls, NEW n \in Names, Hydrate(Tab, c, n)
    PROVE  SInv'
  <1> DEFINE k == call[Tab][c]
             next == [k EXCEPT !.todo = @ \ {n}, !.tree[n] = opfs[n]]
  <1>1. k \in CallState /\ k.pc = "hydrating"
    BY TheTab DEF SInv, IInv, TypeOK, Hydrate
  <1>2. ~engine[Tab] /\ BootOK(k, fileData[Tab], opfs)
    BY <1>1 DEF SInv, CallInv, Booting
  <1>3. next.pc = "hydrating" /\ \A m \in Names \ next.todo : next.tree[m] = opfs[m]
    BY <1>1, <1>2 DEF CallState, BootOK
  <1>4. call' = [call EXCEPT ![Tab][c] = next] /\ UNCHANGED <<opfs, tabVars>>
    BY DEF Hydrate
  <1> HIDE DEF next
  <1>5. BootOK(next, fileData[Tab], opfs')
    BY <1>3, <1>4 DEF BootOK
  <1>. QED  BY <1>1, <1>2, <1>3, <1>4, <1>5, ActiveCallMoves DEF AtRest, Booting

LEMMA SetFileDataStep ==
    ASSUME SInv, IInv', NEW c \in Calls, SetFileData(Tab, c)
    PROVE  SInv'
  <1> DEFINE k == call[Tab][c]
             next == [k EXCEPT !.pc = "importing", !.tree = Idle.tree]
  <1>1. k \in CallState /\ CallOK(k) /\ k.pc = "hydrating" /\ k.todo = {}
    BY TheTab DEF SInv, IInv, CallsOK, TypeOK, SetFileData
  <1>2. ~engine[Tab] /\ BootOK(k, fileData[Tab], opfs)
    BY <1>1 DEF SInv, CallInv, Booting
  <1>3. k.tree = opfs
    <2>1. k.tree \in Tree /\ opfs \in Tree /\ \A m \in Names : k.tree[m] = opfs[m]
      BY <1>1, <1>2 DEF CallOK, BootOK, SInv, IInv, TypeOK
    <2>. QED  BY <2>1 DEF Tree
  <1>4. /\ call' = [call EXCEPT ![Tab][c] = next]
        /\ fileData' = [fileData EXCEPT ![Tab] = k.tree]
        /\ split' = [split EXCEPT ![Tab] = engine[Tab]]
        /\ UNCHANGED <<opfs, engine, guest, flushed>>
    BY DEF SetFileData
  <1>5. next.pc = "importing"
    BY <1>1 DEF CallState
  <1> HIDE DEF next
  <1>6. /\ call'[Tab][c] = next
        /\ \A d \in Calls \ {c} : call'[Tab][d] = call[Tab][d]
        /\ fileData'[Tab] = opfs' /\ ~split'[Tab] /\ ~engine'[Tab]
    BY <1>2, <1>3, <1>4, TheTab DEF SInv, IInv, TypeOK
  <1>7. \A d \in Calls \ {c} : call'[Tab][d].pc \in AtRest
    BY <1>1, <1>6, Alone DEF AtRest
  <1>8. CallInv(c)' /\ TreeInv' /\ RestInv'
    BY <1>5, <1>6, <1>7 DEF CallInv, BootOK, Booting, Flushing, TreeInv, RestInv
  <1>. QED  BY <1>7, <1>8, OthersAtRest

\* A command runs when the persisted tree is what the store holds.
LEMMA CommandStep ==
    ASSUME SInv, IInv', NEW c \in Calls, NEW g \in Tree,
           \A d \in Calls \ {c} : call[Tab][d].pc \in AtRest,
           CommandDoes(c, g, opfs),
           engine'[Tab], flushed'[Tab] = opfs, UNCHANGED <<opfs, split>>
    PROVE  SInv'
  <1>1. PICK n \in Names \cup {None}, v \in Vals \cup {Absent} :
          /\ guest'[Tab] = After(g, n, v)
          /\ fileData'[Tab] = After(g, n, v)
          /\ \A d \in Calls \ {c} : call'[Tab][d].pc = call[Tab][d].pc
          /\ Outcome(call'[Tab][c], After(g, n, v), opfs)
    BY DEF CommandDoes
  <1> DEFINE k == call'[Tab][c]
             after == After(g, n, v)
  <1>2. \A d \in Calls \ {c} : call'[Tab][d].pc \in AtRest
    BY <1>1
  <1>3. TreeInv'
    BY <1>1 DEF SInv, TreeInv, IInv, TypeOK
  <1>4. Idle.pc = "idle"
    BY DEF Idle
  <1> HIDE DEF after
  <1>5. CASE k.pc = "rejected"
    <2>1. CallInv(c)' /\ RestInv'
      BY <1>5, <1>2 DEF CallInv, RestInv, AtRest, Booting, Flushing
    <2>. QED  BY <1>2, <1>3, <2>1, OthersAtRest
  <1>6. CASE k = Idle /\ after = opfs
    <2>1. CallInv(c)'
      BY <1>4, <1>6, <1>2 DEF CallInv, AtRest, Booting, Flushing
    <2>2. RestInv'
      BY <1>1, <1>6 DEF RestInv, after
    <2>. QED  BY <1>2, <1>3, <2>1, <2>2, OthersAtRest
  <1>7. CASE /\ k.pc = "listing" /\ k.digest = after /\ k.live
             /\ \A m \in Names : k.tree[m] = None
    <2>1. FlushOK(k, after, flushed'[Tab], opfs')
      BY <1>7 DEF FlushOK
    <2>2. guest'[Tab] = after
      BY <1>1 DEF after
    <2>3. CallInv(c)'
      BY <1>7, <1>2, <2>1, <2>2 DEF CallInv, AtRest, Booting, Flushing
    <2>4. RestInv'
      BY <1>7 DEF RestInv, AtRest
    <2>. QED  BY <1>2, <1>3, <2>3, <2>4, OthersAtRest
  <1>. QED  BY <1>1, <1>5, <1>6, <1>7 DEF Outcome, after

\* A call runs at the engine only when no other call is under way.
LEMMA NoneUnderWay ==
    ASSUME SInv, NEW c \in Calls, MayStart(Tab, c)
    PROVE  \A d \in Calls : call[Tab][d].pc \in AtRest
  BY DEF MayStart

\* What a command run at the engine, and one run at the end of a boot, start from.
LEMMA ExecuteDoes ==
    ASSUME SInv, NEW c \in Calls, Execute(Tab, c)
    PROVE  CommandDoes(c, guest[Tab], flushed[Tab]) /\ opfs = flushed[Tab]
  <1>1. \A d \in Calls : call[Tab][d].pc \in AtRest
    BY NoneUnderWay DEF Execute
  <1>2. engine[Tab] /\ opfs = flushed[Tab]
    BY <1>1 DEF Execute, SInv, RestInv
  <1>3. /\ guest[Tab] \in Tree
        /\ split[Tab] \in BOOLEAN /\ split[Tab] = FALSE
    BY TheTab DEF SInv, IInv, TypeOK, TreeInv
  <1> DEFINE isSplit == split[Tab]
  <1>4. RunCommand(Tab, c, guest[Tab], fileData[Tab], flushed[Tab], isSplit)
    BY DEF Execute
  <1> HIDE DEF isSplit
  <1>5. isSplit \in BOOLEAN /\ isSplit = FALSE /\ IInv
    BY <1>3 DEF isSplit, SInv
  <1>. QED  BY <1>2, <1>3, <1>4, <1>5, CommandEffect

LEMMA FinishBootDoes ==
    ASSUME SInv, NEW c \in Calls, FinishBoot(Tab, c)
    PROVE  /\ ~engine[Tab] /\ fileData[Tab] = opfs
           /\ CommandDoes(c, opfs, opfs)
  <1>1. call[Tab][c].pc = "importing"
    BY DEF FinishBoot
  <1>2. ~engine[Tab] /\ fileData[Tab] = opfs
    BY <1>1 DEF SInv, CallInv, Booting, BootOK
  <1> DEFINE isSplit == split[Tab]
  <1>3. RunCommand(Tab, c, opfs, opfs, opfs, isSplit)
    BY <1>2 DEF FinishBoot
  <1>4. isSplit \in BOOLEAN /\ isSplit = FALSE /\ IInv /\ opfs \in Tree
    BY TheTab DEF SInv, IInv, TypeOK, TreeInv
  <1> HIDE DEF isSplit
  <1>5. CommandDoes(c, opfs, opfs)
    BY <1>3, <1>4, CommandEffect
  <1>. QED  BY <1>2, <1>5

LEMMA ExecuteStep ==
    ASSUME SInv, IInv', NEW c \in Calls, Execute(Tab, c)
    PROVE  SInv'
  <1>1. CommandDoes(c, guest[Tab], opfs) /\ opfs = flushed[Tab]
    BY ExecuteDoes
  <1>2. \A d \in Calls \ {c} : call[Tab][d].pc \in AtRest
    BY NoneUnderWay DEF Execute
  <1>3. guest[Tab] \in Tree
    BY TheTab DEF SInv, IInv, TypeOK
  <1>4. engine'[Tab] /\ flushed'[Tab] = opfs /\ UNCHANGED <<opfs, split>>
    BY <1>1 DEF Execute
  <1>. QED  BY <1>1, <1>2, <1>3, <1>4, CommandStep

LEMMA FinishBootStep ==
    ASSUME SInv, IInv', NEW c \in Calls, FinishBoot(Tab, c)
    PROVE  SInv'
  <1>1. fileData[Tab] = opfs /\ CommandDoes(c, opfs, opfs)
    BY FinishBootDoes
  <1>2. \A d \in Calls \ {c} : call[Tab][d].pc \in AtRest
    BY Alone DEF FinishBoot, AtRest
  <1>3. opfs \in Tree
    BY DEF SInv, IInv, TypeOK
  <1>4. engine'[Tab] /\ flushed'[Tab] = opfs /\ UNCHANGED <<opfs, split>>
    BY <1>1, TheTab DEF FinishBoot, SInv, IInv, TypeOK
  <1>. QED  BY <1>1, <1>2, <1>3, <1>4, CommandStep

\* What is known of the tab while a call of it flushes.
LEMMA DuringFlush ==
    ASSUME SInv, NEW c \in Calls, call[Tab][c].pc \in Flushing
    PROVE  /\ engine[Tab]
           /\ call[Tab][c] \in CallState
           /\ FlushOK(call[Tab][c], guest[Tab], flushed[Tab], opfs)
           /\ Wanted(Tab, c) = guest[Tab]
           /\ guest[Tab] \in Tree /\ flushed[Tab] \in Tree /\ opfs \in Tree
           /\ call[Tab][c].pc \notin AtRest
           /\ DOMAIN call = Tabs /\ DOMAIN call[Tab] = Calls
  <1>1. engine[Tab] /\ FlushOK(call[Tab][c], guest[Tab], flushed[Tab], opfs)
    BY DEF SInv, CallInv
  <1>2. call[Tab][c] \in CallState /\ guest[Tab] \in Tree /\ opfs \in Tree
        /\ DOMAIN call = Tabs /\ DOMAIN call[Tab] = Calls
    BY TheTab DEF SInv, IInv, TypeOK
  <1>3. flushed[Tab] \in Tree
    BY <1>1 DEF SInv, TreeInv
  <1>4. Wanted(Tab, c) = guest[Tab]
    BY <1>1 DEF Wanted, FlushOK
  <1>. QED  BY <1>1, <1>2, <1>3, <1>4 DEF Flushing, AtRest

LEMMA ListStoreStep ==
    ASSUME SInv, IInv', NEW c \in Calls, ListStore(Tab, c)
    PROVE  SInv'
  <1> DEFINE k == call[Tab][c]
             next == [k EXCEPT !.pc = "pruning", !.todo = Present(opfs)]
             g == guest[Tab]
             f == flushed[Tab]
  <1>1. k.pc = "listing"
    BY DEF ListStore
  <1>2. /\ engine[Tab] /\ k \in CallState /\ FlushOK(k, g, f, opfs)
        /\ g \in Tree /\ f \in Tree /\ k.pc \notin AtRest
    BY <1>1, DuringFlush DEF Flushing
  <1>3. /\ next.pc = "pruning" /\ next.todo = Present(opfs) /\ next.live = k.live
        /\ next.digest = k.digest /\ next.tree = k.tree
    BY <1>2 DEF CallState
  <1>4. call' = [call EXCEPT ![Tab][c] = next] /\ UNCHANGED <<opfs, tabVars>>
    BY DEF ListStore
  <1> HIDE DEF next
  <1>5. FlushOK(next, g, f, opfs')
    BY <1>1, <1>2, <1>3, <1>4 DEF FlushOK, Present
  <1>. QED  BY <1>2, <1>3, <1>4, <1>5, ActiveCallMoves DEF Flushing

LEMMA PruneStep ==
    ASSUME SInv, IInv', NEW c \in Calls, NEW n \in Names, Prune(Tab, c, n)
    PROVE  SInv'
  <1> DEFINE k == call[Tab][c]
             next == [k EXCEPT !.todo = @ \ {n}]
             g == guest[Tab]
             f == flushed[Tab]
  <1>1. k.pc = "pruning" /\ n \in k.todo
    BY DEF Prune
  <1>2. /\ engine[Tab] /\ k \in CallState /\ FlushOK(k, g, f, opfs)
        /\ Wanted(Tab, c) = g
        /\ g \in Tree /\ f \in Tree /\ opfs \in Tree /\ k.pc \notin AtRest
    BY <1>1, DuringFlush DEF Flushing
  <1>3. /\ next.pc = "pruning" /\ next.todo = k.todo \ {n} /\ next.live = k.live
        /\ next.digest = k.digest /\ next.tree = k.tree
    BY <1>1, <1>2 DEF CallState
  <1>4. /\ call' = [call EXCEPT ![Tab][c] = next] /\ UNCHANGED tabVars
        /\ opfs' = IF g[n] = Absent THEN [opfs EXCEPT ![n] = Absent] ELSE opfs
    BY <1>2, TheTab DEF Prune, MustPrune, SInv, IInv, TypeOK
  <1> HIDE DEF next
  <1>5. FlushOK(next, g, f, opfs')
    BY <1>1, <1>2, <1>3, <1>4 DEF FlushOK, Tree
  <1>. QED  BY <1>2, <1>3, <1>4, <1>5, ActiveCallMoves DEF Flushing

LEMMA SnapshotStep ==
    ASSUME SInv, IInv', NEW c \in Calls, SnapshotEntries(Tab, c)
    PROVE  SInv'
  <1> DEFINE k == call[Tab][c]
             next == [k EXCEPT !.pc = "writing", !.todo = Present(Wanted(Tab, c))]
             g == guest[Tab]
             f == flushed[Tab]
  <1>1. k.pc = "pruning" /\ k.todo = {}
    BY DEF SnapshotEntries
  <1>2. /\ engine[Tab] /\ k \in CallState /\ FlushOK(k, g, f, opfs)
        /\ Wanted(Tab, c) = g
        /\ g \in Tree /\ f \in Tree /\ opfs \in Tree /\ k.pc \notin AtRest
    BY <1>1, DuringFlush DEF Flushing
  <1>3. /\ next.pc = "writing" /\ next.todo = Present(g) /\ next.live = k.live
        /\ next.digest = k.digest /\ next.tree = k.tree
    BY <1>1, <1>2 DEF CallState
  <1>4. call' = [call EXCEPT ![Tab][c] = next] /\ UNCHANGED <<opfs, tabVars>>
    BY DEF SnapshotEntries
  <1> HIDE DEF next
  <1>5. FlushOK(next, g, f, opfs')
    BY <1>1, <1>2, <1>3, <1>4 DEF FlushOK, Present, Tree
  <1>. QED  BY <1>2, <1>3, <1>4, <1>5, ActiveCallMoves DEF Flushing

\* What opening path n does: the store has the file, and the engine's bytes are read.
OpenDoes(n) ==
    /\ guest[Tab][n] # Absent
    /\ opfs' = IF opfs[n] = Absent THEN [opfs EXCEPT ![n] = Empty] ELSE opfs
    /\ UNCHANGED tabVars

LEMMA OpenStep ==
    ASSUME SInv, IInv', NEW c \in Calls, NEW n \in Names, OpenFile(Tab, c, n)
    PROVE  SInv' /\ OpenDoes(n) /\ call'[Tab][c].pc \in Flushing
  <1> DEFINE k == call[Tab][c]
             g == guest[Tab]
             f == flushed[Tab]
             next == [k EXCEPT !.pc = "closing", !.at = n, !.tree[n] = g[n]]
  <1>1. k.pc = "writing" /\ n \in k.todo
    BY DEF OpenFile
  <1>2. /\ engine[Tab] /\ k \in CallState /\ FlushOK(k, g, f, opfs)
        /\ Wanted(Tab, c) = g
        /\ g \in Tree /\ f \in Tree /\ opfs \in Tree /\ k.pc \notin AtRest
    BY <1>1, DuringFlush DEF Flushing
  <1>3. /\ next.pc = "closing" /\ next.todo = k.todo /\ next.live = k.live
        /\ next.digest = k.digest /\ next.tree = [k.tree EXCEPT ![n] = g[n]]
        /\ next.at = n
    BY <1>1, <1>2 DEF CallState
  <1>4. k.tree[n] = None
    BY <1>1, <1>2 DEF FlushOK
  <1>5. /\ call' = [call EXCEPT ![Tab][c] = next] /\ UNCHANGED tabVars
        /\ opfs' = IF opfs[n] = Absent THEN [opfs EXCEPT ![n] = Empty] ELSE opfs
    <2> DEFINE bytes == IF k.tree[n] = None THEN Wanted(Tab, c)[n] ELSE k.tree[n]
    <2>1. call' = [call EXCEPT ![Tab][c] =
                    [k EXCEPT !.pc = "closing", !.at = n, !.tree[n] = bytes]]
      BY DEF OpenFile
    <2>2. bytes = g[n]
      BY <1>2, <1>4
    <2>. QED  BY <2>1, <2>2 DEF OpenFile
  <1> HIDE DEF next
  <1>6. FlushOK(next, g, f, opfs')
    <2>1. f[n] = opfs[n] /\ g[n] # Absent
      BY <1>1, <1>2 DEF FlushOK
    <2>2. \A m \in Names : opfs'[m] = IF m = n /\ f[n] = Absent THEN Empty ELSE opfs[m]
      BY <1>2, <1>5, <2>1 DEF Tree
    <2>3. \A m \in Names : next.tree[m] = IF m = n THEN g[m] ELSE None
      BY <1>1, <1>2, <1>3 DEF FlushOK, CallState
    <2>. QED  BY <1>1, <1>2, <1>3, <2>1, <2>2, <2>3 DEF FlushOK
  <1>7. SInv'
    BY <1>2, <1>3, <1>5, <1>6, ActiveCallMoves DEF Flushing
  <1>8. g[n] # Absent
    BY <1>1, <1>2 DEF FlushOK
  <1>9. call'[Tab][c] = next
    BY <1>5, TheTab DEF SInv, IInv, TypeOK
  <1>. QED  BY <1>3, <1>5, <1>7, <1>8, <1>9 DEF OpenDoes, Flushing

\* What closing does: one path of the store becomes the engine's.
CloseDoes ==
    /\ \E n \in Names : opfs' = [opfs EXCEPT ![n] = guest[Tab][n]]
    /\ UNCHANGED tabVars

LEMMA CloseStep ==
    ASSUME SInv, IInv', NEW c \in Calls, CloseFile(Tab, c)
    PROVE  SInv' /\ CloseDoes /\ call'[Tab][c].pc \in Flushing
  <1> DEFINE k == call[Tab][c]
             g == guest[Tab]
             f == flushed[Tab]
             n == k.at
             next == [k EXCEPT !.pc = "writing", !.at = None,
                               !.todo = @ \ {k.at}, !.tree[k.at] = None]
  <1>1. k.pc = "closing"
    BY DEF CloseFile
  <1>2. /\ engine[Tab] /\ k \in CallState /\ FlushOK(k, g, f, opfs)
        /\ g \in Tree /\ f \in Tree /\ opfs \in Tree /\ k.pc \notin AtRest
    BY <1>1, DuringFlush DEF Flushing
  <1>3. n \in k.todo /\ n \in Names
    BY <1>1, <1>2 DEF FlushOK, CallState
  <1>4. /\ next.pc = "writing" /\ next.todo = k.todo \ {n} /\ next.live = k.live
        /\ next.digest = k.digest /\ next.tree = [k.tree EXCEPT ![n] = None]
    BY <1>1, <1>2 DEF CallState
  <1>5. /\ call' = [call EXCEPT ![Tab][c] = next] /\ UNCHANGED tabVars
        /\ opfs' = [opfs EXCEPT ![n] = k.tree[n]]
    BY DEF CloseFile
  <1> HIDE DEF next
  <1>6. k.tree[n] = g[n]
    BY <1>1, <1>2, <1>3 DEF FlushOK
  <1>7. FlushOK(next, g, f, opfs')
    <2>1. \A m \in Names : opfs'[m] = IF m = n THEN g[n] ELSE opfs[m]
      BY <1>2, <1>3, <1>5, <1>6 DEF Tree
    <2>2. \A m \in Names : next.tree[m] = None
      BY <1>1, <1>2, <1>3, <1>4 DEF FlushOK, CallState
    <2>3. \A m \in Names : IF m \in next.todo THEN g[m] # Absent /\ opfs'[m] = f[m]
                            ELSE opfs'[m] = g[m]
      BY <1>1, <1>2, <1>4, <2>1 DEF FlushOK
    <2>4. next.live /\ next.digest = g /\ next.pc = "writing"
      BY <1>2, <1>4 DEF FlushOK
    <2>. QED  BY <2>2, <2>3, <2>4 DEF FlushOK
  <1>8. SInv'
    BY <1>2, <1>4, <1>5, <1>7, ActiveCallMoves DEF Flushing
  <1>9. call'[Tab][c] = next
    BY <1>5, TheTab DEF SInv, IInv, TypeOK
  <1>. QED  BY <1>3, <1>4, <1>5, <1>6, <1>8, <1>9 DEF CloseDoes, Flushing

\* When a flush ends, the store, the engine and the new digest agree.
FinishDoes ==
    /\ engine[Tab] /\ engine'[Tab]
    /\ opfs = guest[Tab] /\ flushed'[Tab] = guest[Tab]
    /\ UNCHANGED <<opfs, guest>>

LEMMA FinishFlushStep ==
    ASSUME SInv, IInv', NEW c \in Calls, FinishFlush(Tab, c)
    PROVE  /\ SInv' /\ FinishDoes
           /\ \A d \in Calls : call'[Tab][d].pc \in AtRest
  <1> DEFINE k == call[Tab][c]
             g == guest[Tab]
  <1>1. k.pc = "writing" /\ k.todo = {}
    BY DEF FinishFlush
  <1>2. /\ engine[Tab] /\ k \in CallState /\ FlushOK(k, g, flushed[Tab], opfs)
        /\ g \in Tree /\ opfs \in Tree /\ k.pc \notin AtRest
    BY <1>1, DuringFlush DEF Flushing
  <1>3. opfs = g /\ k.digest = g
    <2>1. k.digest = g /\ \A m \in Names : opfs[m] = g[m]
      BY <1>1, <1>2 DEF FlushOK
    <2>. QED  BY <1>2, <2>1 DEF Tree
  <1>4. /\ flushed'[Tab] = g /\ call'[Tab][c] = Idle
        /\ \A d \in Calls \ {c} : call'[Tab][d] = call[Tab][d]
        /\ UNCHANGED <<opfs, engine, guest, fileData, split>>
    BY <1>3, TheTab DEF FinishFlush, SInv, IInv, TypeOK
  <1>5. \A d \in Calls \ {c} : call'[Tab][d].pc \in AtRest
    BY <1>2, <1>4, Alone
  <1>6. Idle.pc = "idle"
    BY DEF Idle
  <1>7. TreeInv'
    BY <1>2, <1>4 DEF SInv, TreeInv
  <1>8. CallInv(c)' /\ RestInv'
    BY <1>3, <1>4, <1>5, <1>6 DEF CallInv, RestInv, AtRest, Booting, Flushing
  <1>9. SInv'
    BY <1>5, <1>7, <1>8, OthersAtRest
  <1>. QED  BY <1>2, <1>3, <1>4, <1>5, <1>6, <1>9 DEF FinishDoes, AtRest

\* The calls that begin: a boot has everything to read, a clear has nothing to say
\* of the trees.
LEMMA StartStep ==
    ASSUME SInv, IInv', NEW c \in Calls, StartBoot(Tab, c) \/ StartClear(Tab, c)
    PROVE  SInv'
  <1>1. \A d \in Calls : call[Tab][d].pc \in AtRest
    BY NoneUnderWay DEF StartBoot, StartClear
  <1>2. Idle \in CallState
    BY RestOK DEF CallOK
  <1> DEFINE Start(todo) == [Idle EXCEPT !.pc = "hydrating", !.tree = EmptyTree,
                                         !.todo = todo]
             clear == [Idle EXCEPT !.pc = "clearing", !.todo = Present(opfs)]
  <1>3. StartBoot(Tab, c) => call' = [call EXCEPT ![Tab][c] = Start(Names)]
    <2>1. "deny" \notin Faults
      OBVIOUS
    <2>. QED  BY <2>1 DEF StartBoot
  <1>4. StartClear(Tab, c) => call' = [call EXCEPT ![Tab][c] = clear]
    BY DEF StartClear
  <1>5. Start(Names).pc = "hydrating" /\ Start(Names).todo = Names /\ clear.pc = "clearing"
    BY <1>2 DEF CallState
  <1> HIDE DEF Start, clear
  <1>6. \A d \in Calls \ {c} : call'[Tab][d] = call[Tab][d]
    BY <1>3, <1>4, TheTab DEF SInv, IInv, TypeOK
  <1>7. /\ \A d \in Calls \ {c} : call'[Tab][d].pc \in AtRest
        /\ TreeInv'
    BY <1>1, <1>6 DEF StartBoot, StartClear, tabVars, SInv, TreeInv
  <1>8. CASE StartBoot(Tab, c)
    <2>1. call'[Tab][c].pc = "hydrating" /\ call'[Tab][c].todo = Names
      BY <1>8, <1>3, <1>5, TheTab DEF SInv, IInv, TypeOK
    <2>2. ~engine'[Tab]
      BY <1>8 DEF StartBoot, tabVars
    <2>3. CallInv(c)' /\ RestInv'
      BY <1>7, <2>1, <2>2 DEF CallInv, RestInv, BootOK, AtRest, Booting, Flushing
    <2>. QED  BY <1>7, <2>3, OthersAtRest
  <1>9. CASE StartClear(Tab, c)
    <2>1. call'[Tab][c].pc = "clearing"
      BY <1>9, <1>4, <1>5, TheTab DEF SInv, IInv, TypeOK
    <2>2. CallInv(c)' /\ RestInv'
      BY <1>7, <2>1 DEF CallInv, RestInv, AtRest, Booting, Flushing
    <2>. QED  BY <1>7, <2>2, OthersAtRest
  <1>. QED  BY <1>8, <1>9

LEMMA ClearEntryStep ==
    ASSUME SInv, IInv', NEW c \in Calls, NEW n \in Names, ClearEntry(Tab, c, n)
    PROVE  SInv'
  <1> DEFINE k == call[Tab][c]
             next == [k EXCEPT !.todo = @ \ {n}]
  <1>1. k \in CallState /\ k.pc = "clearing"
    BY TheTab DEF SInv, IInv, TypeOK, ClearEntry
  <1>2. call' = [call EXCEPT ![Tab][c] = next] /\ UNCHANGED tabVars
    BY TheTab DEF ClearEntry, SInv, IInv, TypeOK
  <1>3. next.pc = "clearing"
    BY <1>1 DEF CallState
  <1> HIDE DEF next
  <1>. QED  BY <1>1, <1>2, <1>3, ActiveCallMoves DEF AtRest

LEMMA ReloadStep ==
    ASSUME SInv, IInv', Reload(Tab)
    PROVE  SInv'
  <1>1. ~engine'[Tab] /\ ~split'[Tab] /\ \A d \in Calls : call'[Tab][d] = Idle
    BY TheTab DEF Reload, SInv, IInv, TypeOK
  <1>2. Idle.pc = "idle"
    BY DEF Idle
  <1>3. TreeInv' /\ RestInv'
    BY <1>1 DEF TreeInv, RestInv
  <1>4. ASSUME NEW c \in Calls PROVE CallInv(c)'
    BY <1>1, <1>2 DEF CallInv, AtRest, Booting, Flushing
  <1>. QED  BY <1>3, <1>4 DEF SInv

\* The steps of one tab that is alone, one by one.
LEMMA SerialSteps ==
    ASSUME SInv, [Next]_vars
    PROVE  \/ UNCHANGED vars \/ Deliver(Tab) \/ Reload(Tab)
           \/ \E c \in Calls :
                \/ StartBoot(Tab, c) \/ Execute(Tab, c) \/ StartClear(Tab, c)
                \/ SetFileData(Tab, c) \/ FinishBoot(Tab, c) \/ ListStore(Tab, c)
                \/ SnapshotEntries(Tab, c) \/ CloseFile(Tab, c) \/ FinishFlush(Tab, c)
                \/ \E n \in Names : \/ Hydrate(Tab, c, n) \/ Prune(Tab, c, n)
                                    \/ OpenFile(Tab, c, n) \/ ClearEntry(Tab, c, n)
  <1>1. \A c \in Calls : ~Fail(Tab, c)
    BY DEF Fail
  <1>. QED  BY <1>1, TheTab DEF Next, CallStep, Interrupt, ReloadOnWarning, FinishClear

LEMMA SInit == Init => SInv
  <1> SUFFICES ASSUME Init PROVE SInv
    OBVIOUS
  <1>1. ~engine[Tab] /\ ~split[Tab] /\ \A d \in Calls : call[Tab][d] = Idle
    BY TheTab DEF Init
  <1>2. Idle.pc = "idle"
    BY DEF Idle
  <1>3. TreeInv /\ RestInv
    BY <1>1 DEF TreeInv, RestInv
  <1>4. ASSUME NEW c \in Calls PROVE CallInv(c)
    BY <1>1, <1>2 DEF CallInv, AtRest, Booting, Flushing
  <1>. QED  BY <1>3, <1>4, TypeInit DEF SInv

LEMMA SStep == SInv /\ [Next]_vars => SInv'
  <1> SUFFICES ASSUME SInv, [Next]_vars PROVE SInv'
    OBVIOUS
  <1>1. IInv'
    BY TypeStep DEF SInv
  <1>2. CASE UNCHANGED vars
    BY <1>1, <1>2 DEF vars, SInv, TreeInv, RestInv, CallInv
  <1>3. CASE Deliver(Tab)
    BY <1>1, <1>3 DEF Deliver, SInv, TreeInv, RestInv, CallInv
  <1>4. CASE Reload(Tab)
    BY <1>1, <1>4, ReloadStep
  <1>5. ASSUME NEW c \in Calls, StartBoot(Tab, c) \/ Execute(Tab, c) \/ StartClear(Tab, c)
        PROVE  SInv'
    BY <1>1, <1>5, StartStep, ExecuteStep
  <1>6. ASSUME NEW c \in Calls, SetFileData(Tab, c) \/ FinishBoot(Tab, c)
        PROVE  SInv'
    BY <1>1, <1>6, SetFileDataStep, FinishBootStep
  <1>7. ASSUME NEW c \in Calls, \/ ListStore(Tab, c) \/ SnapshotEntries(Tab, c)
                                \/ CloseFile(Tab, c) \/ FinishFlush(Tab, c)
        PROVE  SInv'
    BY <1>1, <1>7, ListStoreStep, SnapshotStep, CloseStep, FinishFlushStep
  <1>8. ASSUME NEW c \in Calls, NEW n \in Names,
               \/ Hydrate(Tab, c, n) \/ Prune(Tab, c, n)
               \/ OpenFile(Tab, c, n) \/ ClearEntry(Tab, c, n)
        PROVE  SInv'
    BY <1>1, <1>8, HydrateStep, PruneStep, OpenStep, ClearEntryStep
  <1>. QED  BY <1>2, <1>3, <1>4, <1>5, <1>6, <1>7, <1>8, SerialSteps

LEMMA SInvariant == Spec => []SInv
  BY SInit, SStep, PTL DEF Spec

-----------------------------------------------------------------------------
(* What a page that awaits its calls can rely on *)

\* Once no call is under way the store holds the tree whose digest the worker
\* remembers: flush() may skip a tree with that digest.
THEOREM DigestIsDurable == Spec => []DigestMeansDurable
  <1>1. SInv => DigestMeansDurable
    BY TheTab DEF SInv, RestInv, DigestMeansDurable, InFlight
  <1>. QED  BY SInvariant, <1>1, PTL

\* Cut short anywhere, a flush leaves each file as it was last persisted or as the
\* engine has it, or empty where it was being created.
THEOREM OldOrNewSurvives == Spec => []CutShortLeavesOldOrNew
  <1>1. ASSUME SInv, engine[Tab], ~Clearing(Tab), NEW n \in Names
        PROVE  \/ opfs[n] \in {flushed[Tab][n], guest[Tab][n]}
               \/ opfs[n] = Empty /\ flushed[Tab][n] = Absent
    <2>1. CASE \A c \in Calls : call[Tab][c].pc \in AtRest
      BY <1>1, <2>1 DEF SInv, RestInv
    <2>2. CASE \E c \in Calls : call[Tab][c].pc \notin AtRest
      <3>1. PICK c \in Calls : call[Tab][c].pc \notin AtRest
        BY <2>2
      <3>2. call[Tab][c].pc \in Phases
        BY TheTab, <1>1 DEF SInv, IInv, TypeOK, CallState
      <3>3. call[Tab][c].pc \in Flushing
        BY <1>1, <3>1, <3>2 DEF Phases, AtRest, Flushing, Booting, SInv, CallInv, Clearing
      <3>4. FlushOK(call[Tab][c], guest[Tab], flushed[Tab], opfs)
        BY <1>1, <3>3, DuringFlush
      <3>. QED  BY <3>3, <3>4 DEF FlushOK, Flushing
    <2>. QED  BY <2>1, <2>2
  <1>2. SInv => CutShortLeavesOldOrNew
    BY <1>1, TheTab DEF CutShortLeavesOldOrNew
  <1>. QED  BY SInvariant, <1>2, PTL

-----------------------------------------------------------------------------
(* Refinement: the worker implements DurableStore *)

Committed == IF InMemory THEN flushed[Tab] ELSE opfs
WantedTree == IF InMemory THEN guest[Tab] ELSE opfs
Acked == InMemory /\ \A c \in Calls : call[Tab][c].pc = "idle"

\* The abstract steps, in terms of the worker's variables.
AChange == \E n \in Names, v \in Content :
    /\ WantedTree' = [WantedTree EXCEPT ![n] = v]
    /\ Acked' => WantedTree' = Committed /\ WantedTree' = opfs
    /\ UNCHANGED <<opfs, Committed>>
ACreate == \E n \in Names :
    /\ ~Acked /\ opfs[n] = Absent /\ WantedTree[n] # Absent
    /\ opfs' = [opfs EXCEPT ![n] = Empty]
    /\ UNCHANGED <<Committed, WantedTree, Acked>>
APersist == \E n \in Names :
    /\ ~Acked
    /\ opfs' = [opfs EXCEPT ![n] = WantedTree[n]]
    /\ UNCHANGED <<Committed, WantedTree, Acked>>
ACommit ==
    /\ opfs = WantedTree /\ Committed' = WantedTree /\ Acked' = TRUE
    /\ UNCHANGED <<opfs, WantedTree>>
ARestart ==
    Committed' = opfs /\ WantedTree' = opfs /\ Acked' = FALSE /\ UNCHANGED opfs
AWipe == \E n \in Names :
    /\ Committed = opfs /\ WantedTree = opfs /\ ~Acked
    /\ opfs' = [opfs EXCEPT ![n] = Absent]
    /\ Committed' = opfs' /\ WantedTree' = opfs'
    /\ UNCHANGED Acked
AStutter == UNCHANGED <<opfs, Committed, WantedTree, Acked>>

ANext == AChange \/ ACreate \/ APersist \/ ACommit \/ ARestart \/ AWipe \/ AStutter

LEMMA AbstractSteps == ANext => [Abstract!Next]_(Abstract!vars)
  <1>1. Acked \in BOOLEAN /\ Acked' \in BOOLEAN
    BY DEF Acked
  <1>2. AChange => Abstract!Next
    BY <1>1 DEF AChange, Abstract!Next, Abstract!Change, Committed, WantedTree, Acked
  <1>3. ACreate => Abstract!Next
    BY DEF ACreate, Abstract!Next, Abstract!Create, Committed, WantedTree, Acked
  <1>4. APersist => Abstract!Next
    BY DEF APersist, Abstract!Next, Abstract!Persist, Committed, WantedTree, Acked
  <1>5. ACommit => Abstract!Next
    BY DEF ACommit, Abstract!Next, Abstract!Commit, Committed, WantedTree, Acked
  <1>6. ARestart => Abstract!Next
    BY DEF ARestart, Abstract!Next, Abstract!Restart, Committed, WantedTree, Acked
  <1>7. AWipe => Abstract!Next
    BY DEF AWipe, Abstract!Next, Abstract!Wipe, Committed, WantedTree, Acked
  <1>8. AStutter => UNCHANGED Abstract!vars
    BY DEF AStutter, Abstract!vars, Committed, WantedTree, Acked
  <1>. QED  BY <1>2, <1>3, <1>4, <1>5, <1>6, <1>7, <1>8 DEF ANext

\* A command is a change of one path (of none, when it only read), or the
\* acknowledgement that the disk has it all.
LEMMA CommandMaps ==
    ASSUME SInv, NEW c \in Calls, NEW g \in Tree,
           \A d \in Calls \ {c} : call[Tab][d].pc \in AtRest,
           CommandDoes(c, g, opfs),
           engine'[Tab], flushed'[Tab] = opfs, UNCHANGED opfs,
           Committed = opfs, WantedTree = g
    PROVE  ANext
  <1>1. PICK n \in Names \cup {None}, v \in Vals \cup {Absent} :
          /\ guest'[Tab] = After(g, n, v)
          /\ fileData'[Tab] = After(g, n, v)
          /\ \A d \in Calls \ {c} : call'[Tab][d].pc = call[Tab][d].pc
          /\ Outcome(call'[Tab][c], After(g, n, v), opfs)
    BY DEF CommandDoes
  <1>2. InMemory'
    <2>1. Idle.pc = "idle"
      BY DEF Idle
    <2>2. \A d \in Calls : call'[Tab][d].pc # "clearing"
      BY <1>1, <2>1 DEF Outcome, AtRest
    <2>. QED  BY <2>2 DEF InMemory, Clearing
  <1>3. Committed' = opfs /\ WantedTree' = After(g, n, v)
    BY <1>1, <1>2 DEF Committed, WantedTree
  <1>4. Acked' => WantedTree' = opfs
    BY <1>1, <1>3 DEF Acked, Outcome
  <1>5. v \in Content
    BY DEF Content
  <1>6. CASE n \in Names
    <2>1. WantedTree' = [WantedTree EXCEPT ![n] = v]
      BY <1>3, <1>6, StoreAssumption DEF After
    <2>2. AChange
      BY <1>3, <1>4, <1>5, <1>6, <2>1 DEF AChange
    <2>. QED  BY <2>2 DEF ANext
  <1>7. CASE n = None /\ Acked'
    <2>1. WantedTree' = g
      BY <1>3, <1>7 DEF After
    <2>2. Acked' = TRUE
      BY <1>7 DEF Acked
    <2>3. ACommit
      BY <1>3, <1>4, <1>7, <2>1, <2>2 DEF ACommit
    <2>. QED  BY <2>3 DEF ANext
  <1>8. CASE n = None /\ ~Acked'
    <2>1. PICK m \in Names : TRUE
      OBVIOUS
    <2>2. g[m] \in Content /\ [g EXCEPT ![m] = g[m]] = g
      BY DEF Tree
    <2>3. WantedTree' = [WantedTree EXCEPT ![m] = g[m]]
      BY <1>3, <1>8, <2>2 DEF After
    <2>4. AChange
      BY <1>3, <1>8, <2>2, <2>3 DEF AChange
    <2>. QED  BY <2>4 DEF ANext
  <1>. QED  BY <1>6, <1>7, <1>8

\* While no call is under way the store is what is committed.
LEMMA RestMaps ==
    ASSUME SInv, \A d \in Calls : call[Tab][d].pc \in AtRest
    PROVE  /\ Committed = opfs
           /\ engine[Tab] => WantedTree = guest[Tab]
           /\ ~engine[Tab] => WantedTree = opfs /\ ~Acked
  BY DEF SInv, RestInv, Committed, WantedTree, Acked, InMemory, Clearing, AtRest

\* During a flush the engine's tree is wanted and nothing is acknowledged.
LEMMA FlushMaps ==
    ASSUME SInv, NEW c \in Calls, call[Tab][c].pc \in Flushing
    PROVE  InMemory /\ Committed = flushed[Tab] /\ WantedTree = guest[Tab] /\ ~Acked
  <1>1. engine[Tab] /\ call[Tab][c].pc \notin AtRest
    BY DuringFlush
  <1>2. ~Clearing(Tab)
    BY <1>1, Alone DEF Clearing, AtRest, Flushing
  <1>. QED  BY <1>1, <1>2 DEF InMemory, Committed, WantedTree, Acked, Flushing

\* A step of a call that flushes before and after moves at most the disk.
LEMMA FlushStays ==
    ASSUME SInv, SInv', NEW c \in Calls, call[Tab][c].pc \in Flushing,
           call'[Tab][c].pc \in Flushing, UNCHANGED tabVars
    PROVE  UNCHANGED <<Committed, WantedTree, Acked>> /\ WantedTree = guest[Tab] /\ ~Acked
  <1>1. InMemory /\ Committed = flushed[Tab] /\ WantedTree = guest[Tab] /\ ~Acked
    BY FlushMaps
  <1>2. InMemory' /\ Committed' = flushed'[Tab] /\ WantedTree' = guest'[Tab] /\ ~Acked'
    <2>1. engine'[Tab] /\ call'[Tab][c].pc \notin AtRest
      BY DEF SInv, CallInv, Flushing, AtRest
    <2>2. \A d \in Calls \ {c} : call'[Tab][d].pc \in AtRest
      BY <2>1 DEF SInv, CallInv
    <2>3. ~Clearing(Tab)'
      BY <2>2 DEF Clearing, AtRest, Flushing
    <2>. QED  BY <2>1, <2>3 DEF InMemory, Committed, WantedTree, Acked, Flushing
  <1>3. Acked = FALSE /\ Acked' = FALSE
    BY <1>1, <1>2 DEF Acked
  <1>. QED  BY <1>1, <1>2, <1>3 DEF tabVars

\* With no engine, the store is all there is.
LEMMA NoEngineMaps ==
    ASSUME ~engine[Tab], ~engine'[Tab], UNCHANGED opfs
    PROVE  AStutter
  BY DEF AStutter, Committed, WantedTree, Acked, InMemory

LEMMA StepMaps == SInv /\ SInv' /\ [Next]_vars => ANext
  <1> SUFFICES ASSUME SInv, SInv', [Next]_vars PROVE ANext
    OBVIOUS
  <1>1. CASE UNCHANGED vars
    <2>1. AStutter
      BY <1>1 DEF vars, AStutter, Committed, WantedTree, Acked, InMemory, Clearing
    <2>. QED  BY <2>1 DEF ANext
  <1>2. CASE Deliver(Tab)
    <2>1. AStutter
      BY <1>2 DEF Deliver, AStutter, Committed, WantedTree, Acked, InMemory, Clearing
    <2>. QED  BY <2>1 DEF ANext
  <1>3. CASE Reload(Tab)
    <2>1. ~engine'[Tab] /\ UNCHANGED opfs
      BY <1>3, TheTab DEF Reload, SInv, IInv, TypeOK
    <2>2. Acked' = FALSE
      BY <2>1 DEF Acked, InMemory
    <2>3. ARestart
      BY <2>1, <2>2 DEF ARestart, Committed, WantedTree, InMemory
    <2>. QED  BY <2>3 DEF ANext
  <1>4. ASSUME NEW c \in Calls, StartBoot(Tab, c) \/ SetFileData(Tab, c) PROVE ANext
    <2>1. ~engine[Tab] /\ UNCHANGED <<opfs, engine>>
      BY <1>4 DEF StartBoot, SetFileData, tabVars, SInv, CallInv, Booting
    <2>. QED  BY <2>1, NoEngineMaps DEF ANext
  <1>5. ASSUME NEW c \in Calls, NEW n \in Names, Hydrate(Tab, c, n) PROVE ANext
    <2>1. ~engine[Tab] /\ UNCHANGED <<opfs, engine>>
      BY <1>5 DEF Hydrate, tabVars, SInv, CallInv, Booting
    <2>. QED  BY <2>1, NoEngineMaps DEF ANext
  <1>6. ASSUME NEW c \in Calls, Execute(Tab, c) PROVE ANext
    <2>1. \A d \in Calls : call[Tab][d].pc \in AtRest
      BY <1>6, NoneUnderWay DEF Execute
    <2>2. CommandDoes(c, guest[Tab], opfs) /\ opfs = flushed[Tab]
      BY <1>6, ExecuteDoes
    <2>3. /\ engine[Tab] /\ engine'[Tab] /\ flushed'[Tab] = opfs /\ UNCHANGED opfs
          /\ guest[Tab] \in Tree
      BY <1>6, <2>2, TheTab DEF Execute, SInv, IInv, TypeOK
    <2>4. Committed = opfs /\ WantedTree = guest[Tab]
      BY <2>1, <2>3, RestMaps
    <2>. QED  BY <2>1, <2>2, <2>3, <2>4, CommandMaps
  <1>7. ASSUME NEW c \in Calls, FinishBoot(Tab, c) PROVE ANext
    <2>1. \A d \in Calls \ {c} : call[Tab][d].pc \in AtRest
      BY <1>7, Alone DEF FinishBoot, AtRest
    <2>2. ~engine[Tab] /\ fileData[Tab] = opfs /\ CommandDoes(c, opfs, opfs)
      BY <1>7, FinishBootDoes
    <2>3. /\ engine'[Tab] /\ flushed'[Tab] = opfs /\ UNCHANGED opfs
          /\ opfs \in Tree
      BY <1>7, <2>2, TheTab DEF FinishBoot, SInv, IInv, TypeOK
    <2>4. Committed = opfs /\ WantedTree = opfs
      BY <2>2 DEF Committed, WantedTree, InMemory
    <2>. QED  BY <2>1, <2>2, <2>3, <2>4, CommandMaps
  <1>8. ASSUME NEW c \in Calls, StartClear(Tab, c) PROVE ANext
    <2>1. \A d \in Calls : call[Tab][d].pc \in AtRest
      BY <1>8, NoneUnderWay DEF StartClear
    <2>2. Clearing(Tab)'
      <3>1. Idle \in CallState
        BY RestOK DEF CallOK
      <3>2. [Idle EXCEPT !.pc = "clearing", !.todo = Present(opfs)].pc = "clearing"
        BY <3>1 DEF CallState
      <3>3. call'[Tab][c] = [Idle EXCEPT !.pc = "clearing", !.todo = Present(opfs)]
        BY <1>8, TheTab DEF StartClear, SInv, IInv, TypeOK
      <3>. QED  BY <3>2, <3>3 DEF Clearing
    <2>3. Acked' = FALSE
      BY <2>2 DEF Acked, InMemory
    <2>4. ARestart
      BY <1>8, <2>2, <2>3 DEF StartClear, ARestart, Committed, WantedTree, InMemory
    <2>. QED  BY <2>4 DEF ANext
  <1>9. ASSUME NEW c \in Calls, ListStore(Tab, c) \/ SnapshotEntries(Tab, c) PROVE ANext
    <2>1. call[Tab][c].pc \in Flushing /\ UNCHANGED <<opfs, tabVars>>
      BY <1>9 DEF ListStore, SnapshotEntries, Flushing
    <2>2. call'[Tab][c].pc \in Flushing
      <3> DEFINE k == call[Tab][c]
                 List == [k EXCEPT !.pc = "pruning", !.todo = Present(opfs)]
                 Snap == [k EXCEPT !.pc = "writing", !.todo = Present(Wanted(Tab, c))]
      <3>1. k \in CallState /\ DOMAIN call = Tabs /\ DOMAIN call[Tab] = Calls
        BY <2>1, DuringFlush
      <3>2. List.pc = "pruning" /\ Snap.pc = "writing"
        BY <3>1 DEF CallState
      <3>3. \/ call' = [call EXCEPT ![Tab][c] = List]
            \/ call' = [call EXCEPT ![Tab][c] = Snap]
        BY <1>9 DEF ListStore, SnapshotEntries
      <3> HIDE DEF List, Snap
      <3>4. call'[Tab][c] = List \/ call'[Tab][c] = Snap
        BY <3>1, <3>3, TheTab
      <3>. QED  BY <3>2, <3>4 DEF Flushing
    <2>3. AStutter
      BY <2>1, <2>2, FlushStays DEF AStutter
    <2>. QED  BY <2>3 DEF ANext
  <1>10. ASSUME NEW c \in Calls, NEW n \in Names, Prune(Tab, c, n) PROVE ANext
    <2>1. call[Tab][c].pc \in Flushing /\ UNCHANGED tabVars
      BY <1>10 DEF Prune, Flushing
    <2>2. call'[Tab][c].pc \in Flushing
      BY <1>10, TheTab DEF Prune, Flushing, SInv, IInv, TypeOK, CallState
    <2>3. /\ UNCHANGED <<Committed, WantedTree, Acked>>
          /\ WantedTree = guest[Tab] /\ ~Acked /\ Wanted(Tab, c) = guest[Tab]
      BY <2>1, <2>2, FlushStays, DuringFlush
    <2>4. APersist \/ AStutter
      BY <1>10, <2>3 DEF Prune, MustPrune, APersist, AStutter
    <2>. QED  BY <2>4 DEF ANext
  <1>11. ASSUME NEW c \in Calls, NEW n \in Names, OpenFile(Tab, c, n) PROVE ANext
    <2>1. OpenDoes(n) /\ call[Tab][c].pc \in Flushing
      BY <1>11, OpenStep DEF SInv, OpenFile, Flushing
    <2>2. call'[Tab][c].pc \in Flushing
      BY <1>11, OpenStep DEF SInv
    <2>3. UNCHANGED <<Committed, WantedTree, Acked>> /\ WantedTree = guest[Tab] /\ ~Acked
      BY <2>1, <2>2, FlushStays DEF OpenDoes
    <2>4. ACreate \/ AStutter
      BY <2>1, <2>3 DEF OpenDoes, ACreate, AStutter
    <2>. QED  BY <2>4 DEF ANext
  <1>12. ASSUME NEW c \in Calls, CloseFile(Tab, c) PROVE ANext
    <2>1. CloseDoes /\ call[Tab][c].pc \in Flushing
      BY <1>12, CloseStep DEF SInv, CloseFile, Flushing
    <2>2. call'[Tab][c].pc \in Flushing
      BY <1>12, CloseStep DEF SInv
    <2>3. UNCHANGED <<Committed, WantedTree, Acked>> /\ WantedTree = guest[Tab] /\ ~Acked
      BY <2>1, <2>2, FlushStays DEF CloseDoes
    <2>4. APersist
      BY <2>1, <2>3 DEF CloseDoes, APersist
    <2>. QED  BY <2>4 DEF ANext
  <1>13. ASSUME NEW c \in Calls, FinishFlush(Tab, c) PROVE ANext
    <2>1. FinishDoes /\ \A d \in Calls : call'[Tab][d].pc \in AtRest
      BY <1>13, FinishFlushStep DEF SInv
    <2>2. WantedTree = guest[Tab]
      BY <1>13, FlushMaps DEF FinishFlush, Flushing
    <2>3. InMemory'
      BY <2>1 DEF FinishDoes, InMemory, Clearing, AtRest
    <2>4. Committed' = opfs /\ WantedTree' = opfs /\ WantedTree = opfs /\ UNCHANGED opfs
      BY <2>1, <2>2, <2>3 DEF FinishDoes, Committed, WantedTree
    <2>5. Acked' = TRUE \/ Acked' = FALSE
      BY DEF Acked
    <2>6. ACommit \/ ARestart
      BY <2>4, <2>5 DEF ACommit, ARestart
    <2>. QED  BY <2>6 DEF ANext
  <1>14. ASSUME NEW c \in Calls, NEW n \in Names, ClearEntry(Tab, c, n) PROVE ANext
    <2>1. Clearing(Tab) /\ Clearing(Tab)'
      <3>1. call[Tab][c].pc = "clearing"
        BY <1>14 DEF ClearEntry
      <3>2. call'[Tab][c].pc = call[Tab][c].pc
        BY <1>14, TheTab DEF ClearEntry, SInv, IInv, TypeOK, CallState
      <3>. QED  BY <3>1, <3>2 DEF Clearing
    <2>2. Acked = FALSE /\ Acked' = FALSE
      BY <2>1 DEF Acked, InMemory
    <2>3. AWipe
      BY <1>14, <2>1, <2>2 DEF ClearEntry, AWipe, Committed, WantedTree, InMemory
    <2>. QED  BY <2>3 DEF ANext
  <1>. QED  BY <1>1, <1>2, <1>3, <1>4, <1>5, <1>6, <1>7, <1>8, <1>9, <1>10, <1>11,
               <1>12, <1>13, <1>14, SerialSteps

\* The worker, its boot and its flush implement the store that DurableStore
\* describes, over commands, traps, page loads at any moment and resets.
THEOREM Implements == Spec => ImplementsDurableStore
  <1>1. Init => Abstract!Init
    BY TheTab DEF Init, Abstract!Init, InMemory, EmptyTree
  <1>2. SInv /\ SInv' /\ [Next]_vars => [Abstract!Next]_(Abstract!vars)
    BY StepMaps, AbstractSteps
  <1>. QED  BY SInvariant, <1>1, <1>2, PTL DEF Spec, ImplementsDurableStore, Abstract!Spec
=============================================================================
