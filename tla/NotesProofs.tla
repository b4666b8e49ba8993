----------------------------- MODULE NotesProofs -----------------------------
(***************************************************************************)
(* Proofs about Notes, for any processes, records and ids: the index       *)
(* drifts only for a cause, and where every id is a key a rebuild that     *)
(* meets no other command repairs whatever has drifted.                    *)
(***************************************************************************)
EXTENDS Notes, TLAPS

USE NotesAssumption, NothingAssumption

-----------------------------------------------------------------------------
(* The invariant *)

\* The phases in which a process has a file open, which may be removed.
Open == {"writing", "projecting"}

\* Which commands pass through which phases, and what they carry there.
ProcOK(k) ==
    /\ k \in Process
    /\ k.pc = "truncating" => k.op \in {"update", "import"}
    /\ k.pc = "writing" => k.op \in {"create", "update", "import"}
    /\ k.pc \in {"indexing", "projecting"} => k.op \in {"create", "update", "rebuild"}
    /\ k.pc = "unindexing" => k.op = "delete"
    /\ k.pc = "clearing" => k.op \in {"rebuild", "wipe"}
    /\ k.pc = "scanning" => k.op = "rebuild"
    /\ k.pc = "removing" => k.op \in {"reset", "wipe"}
    /\ k.pc \in {"truncating", "writing", "indexing", "projecting"} =>
         k.id \in Ids /\ k.value \in Record
    /\ k.pc = "unindexing" => k.id \in Ids
    /\ k.op \in {"reset", "wipe"} /\ k.id # None => k.value \in Record
    /\ k.lost => k.pc \in Open

TypeInv == TypeOK /\ \A p \in Procs : ProcOK(proc[p])

\* A command that has met no other is the only one under way.
AloneInv ==
    \A p \in Procs : Busy(p) /\ proc[p].alone => \A q \in Procs \ {p} : ~Busy(q)

\* An id that is not excused is in the hands of one command at most.
SoleInv ==
    \A id \in Ids \ excused, p, q \in Procs :
        Busy(p) /\ id \in Touched(p) /\ Busy(q) /\ id \in Touched(q) => p = q

\* What the row of a record must be: Wanted, of what the file holds.
RowOf(f) == IF f = None THEN None ELSE IF f = Torn THEN Torn ELSE Project(f)

\* The command k has its own record's file as it should be, and its row.
RecordOK(k, f, i) ==
    /\ k.pc = "writing" => f = Torn
    /\ k.pc \in {"indexing", "projecting"} => f = k.value
    /\ k.pc = "projecting" => i = Torn
    /\ k.pc = "unindexing" => f = None
    /\ k.pc \in Open => ~k.lost

\* A rebuild k has cleared the rows it need not visit any more, and then has put
\* right those of the records it need not visit any more.
RebuildOK(k, id, f, i) ==
    IF k.pc = "clearing" THEN id \notin k.todo => i = None
    ELSE IF k.pc # "scanning" /\ id = k.id THEN RecordOK(k, f, i)
    ELSE IF id \in k.todo THEN f # None
    ELSE i = RowOf(f)

\* What command k knows of an id it touches and nobody else has.
PhaseOK(k, id, f, i) ==
    /\ k.op \in {"create", "update", "delete"} => RecordOK(k, f, i)
    /\ k.op = "rebuild" => RebuildOK(k, id, f, i)

PhaseInv(p) ==
    \A id \in Touched(p) :
        /\ id \notin excused \/ proc[p].alone => PhaseOK(proc[p], id, file[id], index[id])
        /\ proc[p].op \in {"reset", "wipe"} /\ id \notin excused => index[id] = RowOf(file[id])
        /\ proc[p].op = "import" => id \in excused

\* An id in nobody's hands has drifted only if it is excused.
RestInv ==
    \A id \in Ids \ excused :
        (\A p \in Procs : Busy(p) => id \notin Touched(p)) => index[id] = RowOf(file[id])

DInv == AloneInv /\ SoleInv /\ RestInv /\ \A p \in Procs : Busy(p) => PhaseInv(p)

NInv == TypeInv /\ DInv

-----------------------------------------------------------------------------
(* Processes *)

\* Two processes that differ at most in what others have done to them.
Same(k, l) ==
    k.pc = l.pc /\ k.op = l.op /\ k.id = l.id /\ k.value = l.value /\ k.todo = l.todo

Working(k) == k.pc \notin {"idle", "dead"}
TouchedBy(k) == IF k.op \in {"rebuild", "reset", "wipe"} THEN Ids ELSE {k.id} \cap Ids

LEMMA ProcOKSame ==
    ASSUME NEW k, NEW l \in Process, ProcOK(k), Same(l, k),
           l.lost => k.lost \/ k.pc \in Open
    PROVE  ProcOK(l)
  BY DEF ProcOK, Same

LEMMA RestingOK == ProcOK(Idle) /\ ProcOK(Dead) /\ Idle.pc = "idle" /\ Dead.pc = "dead"
  <1>1. Idle \in Process
    BY DEF Idle, Process, Phases, Ops
  <1>2. Idle.pc = "idle" /\ Idle.op = "none"
    BY DEF Idle
  <1>3. Dead \in Process /\ Dead.pc = "dead" /\ Dead.op = "none" /\ ~Dead.lost /\ ~Idle.lost
    <2>1. Idle.lost = FALSE
      BY DEF Idle
    <2>. QED  BY <1>1, <1>2, <2>1 DEF Dead, Process, Phases
  <1>. QED  BY <1>1, <1>2, <1>3 DEF ProcOK

LEMMA WithAlone ==
    ASSUME NEW k \in Process, NEW b \in BOOLEAN, NEW l, l = [k EXCEPT !.alone = b]
    PROVE  l \in Process /\ Same(l, k) /\ l.lost = k.lost /\ l.alone = b
  BY DEF Process, Same

LEMMA WithLost ==
    ASSUME NEW k \in Process, NEW b \in BOOLEAN, NEW l, l = [k EXCEPT !.lost = b]
    PROVE  l \in Process /\ Same(l, k) /\ l.alone = k.alone /\ l.lost = b
  BY DEF Process, Same

\* What starting a command does to the processes.
LEMMA StartedFields ==
    ASSUME TypeInv, NEW p \in Procs, NEW k \in Process
    PROVE  LET s == Started(p, k)
           IN  /\ s \in [Procs -> Process]
               /\ Same(s[p], k) /\ s[p].lost = k.lost
               /\ s[p].alone => \A r \in Procs : ~Busy(r)
               /\ \A q \in Procs \ {p} : /\ Same(s[q], proc[q])
                                         /\ s[q].lost = proc[q].lost
                                         /\ Busy(q) => ~s[q].alone
  <1> DEFINE s == Started(p, k)
             alone == \A r \in Procs : ~Busy(r)
  <1>1. proc \in [Procs -> Process]
    BY DEF TypeInv, TypeOK
  <1>2. DOMAIN s = Procs
    BY DEF Started
  <1>3. \E b \in BOOLEAN : (b => alone) /\ s[p] = [k EXCEPT !.alone = b]
    <2>1. s[p] = [k EXCEPT !.alone = alone]
      BY DEF Started
    <2> HIDE DEF s
    <2>2. CASE alone
      <3>1. alone = TRUE
        BY <2>2
      <3>2. s[p] = [k EXCEPT !.alone = TRUE]
        BY <2>1, <3>1
      <3>. QED  BY <2>2, <3>2
    <2>3. CASE ~alone
      <3>1. alone = FALSE
        BY <2>3
      <3>2. s[p] = [k EXCEPT !.alone = FALSE]
        BY <2>1, <3>1
      <3>. QED  BY <3>2
    <2>. QED  BY <2>2, <2>3
  <1>4. \A q \in Procs \ {p} :
          \E b \in BOOLEAN : (b => ~Busy(q)) /\ s[q] = [proc[q] EXCEPT !.alone = b]
    <2> SUFFICES ASSUME NEW q \in Procs \ {p}
                 PROVE  \E b \in BOOLEAN : (b => ~Busy(q)) /\ s[q] = [proc[q] EXCEPT !.alone = b]
      OBVIOUS
    <2>1. s[q] = [proc[q] EXCEPT !.alone = ~Busy(q)]
      BY DEF Started
    <2> HIDE DEF s
    <2>2. CASE Busy(q)
      <3>1. (~Busy(q)) = FALSE
        BY <2>2
      <3>. QED  BY <2>1, <3>1
    <2>3. CASE ~Busy(q)
      <3>1. (~Busy(q)) = TRUE
        BY <2>3
      <3>2. s[q] = [proc[q] EXCEPT !.alone = TRUE]
        BY <2>1, <3>1
      <3>. QED  BY <2>3, <3>2
    <2>. QED  BY <2>2, <2>3
  <1> HIDE DEF s, alone
  <1>5. s[p] \in Process /\ Same(s[p], k) /\ s[p].lost = k.lost /\ (s[p].alone => alone)
    <2>1. PICK b \in BOOLEAN : (b => alone) /\ s[p] = [k EXCEPT !.alone = b]
      BY <1>3
    <2>2. s[p] \in Process /\ Same(s[p], k) /\ s[p].lost = k.lost /\ s[p].alone = b
      BY <2>1, WithAlone
    <2>. QED  BY <2>1, <2>2
  <1>6. \A q \in Procs \ {p} : /\ s[q] \in Process /\ Same(s[q], proc[q])
                               /\ s[q].lost = proc[q].lost
                               /\ Busy(q) => ~s[q].alone
    <2> SUFFICES ASSUME NEW q \in Procs \ {p}
                 PROVE  /\ s[q] \in Process /\ Same(s[q], proc[q])
                        /\ s[q].lost = proc[q].lost
                        /\ Busy(q) => ~s[q].alone
      OBVIOUS
    <2>1. PICK b \in BOOLEAN : (b => ~Busy(q)) /\ s[q] = [proc[q] EXCEPT !.alone = b]
      BY <1>4
    <2>2. proc[q] \in Process
      BY <1>1
    <2>3. /\ s[q] \in Process /\ Same(s[q], proc[q])
          /\ s[q].lost = proc[q].lost /\ s[q].alone = b
      BY <2>1, <2>2, WithAlone
    <2>. QED  BY <2>1, <2>3
  <1>7. s \in [Procs -> Process]
    <2>1. \A q \in Procs : s[q] \in Process
      BY <1>5, <1>6
    <2>2. s = [q \in Procs |-> s[q]]
      BY <1>2 DEF s, Started
    <2>. QED  BY <2>1, <2>2
  <1>. QED  BY <1>5, <1>6, <1>7 DEF s, alone

\* What removing a file does to the processes.
LEMMA DisownFields ==
    ASSUME NEW procs \in [Procs -> Process], NEW phase, NEW id
    PROVE  LET d == Disown(procs, phase, id)
           IN  /\ d \in [Procs -> Process]
               /\ \A q \in Procs : /\ Same(d[q], procs[q])
                                   /\ d[q].alone = procs[q].alone
                                   /\ procs[q].id # id => d[q].lost = procs[q].lost
                                   /\ d[q].lost => procs[q].lost \/ procs[q].pc = phase
  <1> DEFINE d == Disown(procs, phase, id)
  <1>1. ASSUME NEW q \in Procs
        PROVE  \E b \in BOOLEAN : /\ d[q] = [procs[q] EXCEPT !.lost = b]
                                  /\ procs[q].id # id => b = procs[q].lost
                                  /\ b => procs[q].lost \/ procs[q].pc = phase
    <2> DEFINE b == procs[q].lost \/ (procs[q].pc = phase /\ procs[q].id = id)
    <2>1. d[q] = [procs[q] EXCEPT !.lost = b]
      BY DEF Disown
    <2>2. procs[q].lost \in BOOLEAN
      BY DEF Process
    <2>3. /\ b \in BOOLEAN
          /\ procs[q].id # id => b = procs[q].lost
          /\ b => procs[q].lost \/ procs[q].pc = phase
      BY <2>2
    <2> HIDE DEF d, b
    <2>. QED  BY <2>1, <2>3
  <1>2. d = [q \in Procs |-> d[q]]
    BY DEF Disown
  <1> HIDE DEF d
  <1>3. \A q \in Procs : /\ d[q] \in Process
                         /\ Same(d[q], procs[q])
                         /\ d[q].alone = procs[q].alone
                         /\ procs[q].id # id => d[q].lost = procs[q].lost
                         /\ d[q].lost => procs[q].lost \/ procs[q].pc = phase
    <2> SUFFICES ASSUME NEW q \in Procs
                 PROVE  /\ d[q] \in Process
                        /\ Same(d[q], procs[q])
                        /\ d[q].alone = procs[q].alone
                        /\ procs[q].id # id => d[q].lost = procs[q].lost
                        /\ d[q].lost => procs[q].lost \/ procs[q].pc = phase
      OBVIOUS
    <2>1. PICK b \in BOOLEAN : /\ d[q] = [procs[q] EXCEPT !.lost = b]
                               /\ procs[q].id # id => b = procs[q].lost
                               /\ b => procs[q].lost \/ procs[q].pc = phase
      BY <1>1
    <2>2. procs[q] \in Process
      OBVIOUS
    <2>3. /\ d[q] \in Process /\ Same(d[q], procs[q])
          /\ d[q].alone = procs[q].alone /\ d[q].lost = b
      BY <2>1, <2>2, WithLost
    <2>. QED  BY <2>1, <2>3
  <1>4. d \in [Procs -> Process]
    BY <1>2, <1>3
  <1>. QED  BY <1>3, <1>4 DEF d

-----------------------------------------------------------------------------
(* A step of one process, as the others see it *)

LEMMA BusyTouched ==
    ASSUME NEW p
    PROVE  (Busy(p) <=> Working(proc[p])) /\ Touched(p) = TouchedBy(proc[p])
  BY DEF Busy, Working, Touched, TouchedBy

\* Nothing but the ids of T has changed for anybody but q.
Elsewhere(q, T) ==
    /\ \A id \in Ids \ T : file'[id] = file[id] /\ index'[id] = index[id]
    /\ \A p \in Procs \ {q} : /\ Same(proc'[p], proc[p])
                              /\ proc[p].id \notin T => proc'[p].lost = proc[p].lost

\* Process q starts a command.
Starts(q) ==
    /\ ~Busy(q) /\ Busy(q)'
    /\ Elsewhere(q, Touched(q)')
    /\ proc'[q].alone => \A r \in Procs : ~Busy(r)
    /\ \A p \in Procs \ {q} : Busy(p) => ~proc'[p].alone
    /\ excused \cup Overlapped(q, Touched(q)') \subseteq excused'

\* Process q goes on with its command, or ends it.
GoesOn(q) ==
    /\ Busy(q)
    /\ Elsewhere(q, Touched(q))
    /\ Busy(q)' => Touched(q)' \subseteq Touched(q) /\ proc'[q].alone = proc[q].alone
    /\ \A p \in Procs \ {q} : proc'[p].alone = proc[p].alone
    /\ excused \ excused' \subseteq Touched(q)
    /\ excused \subseteq excused' \/ (proc[q].alone /\ ~Busy(q)')

\* What is left to show of process q itself.
Own(q) ==
    /\ Busy(q)' => PhaseInv(q)'
    /\ Busy(q) => \A id \in Touched(q) :
         id \notin excused' /\ ~(Busy(q)' /\ id \in Touched(q)') =>
             index'[id] = RowOf(file'[id])

LEMMA SameBusy ==
    ASSUME NEW q \in Procs, NEW T, Elsewhere(q, T), NEW p \in Procs \ {q}
    PROVE  (Busy(p)' <=> Busy(p)) /\ Touched(p)' = Touched(p)
  BY DEF Elsewhere, Same, Busy, Touched

\* Nobody's command is disturbed in what it knows of an id that it alone touches.
LEMMA OthersKeep ==
    ASSUME DInv, TypeInv, NEW q \in Procs, Starts(q) \/ GoesOn(q),
           NEW p \in Procs \ {q}, Busy(p)
    PROVE  PhaseInv(p)'
  <1> DEFINE T == IF Busy(q) THEN Touched(q) ELSE Touched(q)'
  <1>1. Elsewhere(q, T)
    BY DEF Starts, GoesOn
  <1>2. Same(proc'[p], proc[p]) /\ Touched(p)' = Touched(p)
    BY <1>1, SameBusy DEF Elsewhere
  <1>3. ASSUME NEW id \in Touched(p), id \notin excused' \/ proc'[p].alone
        PROVE  id \notin excused' /\ id \notin excused /\ id \notin T
    <2>1. CASE Starts(q)
      <3>1. id \notin excused' /\ id \notin excused
        BY <1>3, <2>1 DEF Starts
      <3>2. id \notin Touched(q)'
        BY <2>1, <3>1 DEF Starts, Overlapped
      <3>. QED  BY <2>1, <3>1, <3>2 DEF Starts
    <2>2. CASE GoesOn(q)
      <3>1. ~proc[p].alone
        BY <2>2 DEF GoesOn, DInv, AloneInv
      <3>2. excused \subseteq excused'
        BY <2>2 DEF GoesOn, DInv, AloneInv
      <3>3. id \notin excused' /\ id \notin excused
        BY <1>3, <2>2, <3>1, <3>2 DEF GoesOn
      <3>4. id \in Ids
        BY DEF Touched
      <3>5. id \notin Touched(q)
        BY <2>2, <3>3, <3>4 DEF GoesOn, DInv, SoleInv
      <3>. QED  BY <2>2, <3>3, <3>5 DEF GoesOn
    <2>. QED  BY <2>1, <2>2
  <1> HIDE DEF T
  <1>4. ASSUME NEW id \in Touched(p), id \notin excused' \/ proc'[p].alone
        PROVE  PhaseOK(proc'[p], id, file'[id], index'[id])
    <2>1. id \notin excused /\ id \notin T /\ id \in Ids
      BY <1>3, <1>4 DEF Touched
    <2>2. file'[id] = file[id] /\ index'[id] = index[id]
      BY <1>1, <2>1 DEF Elsewhere
    <2>3. PhaseOK(proc[p], id, file[id], index[id])
      BY <2>1 DEF DInv, PhaseInv
    <2>4. proc[p].id = id => proc'[p].lost = proc[p].lost
      BY <1>1, <2>1 DEF Elsewhere
    <2>5. proc[p].op \in {"create", "update", "delete"} => proc[p].id = id
      BY DEF Touched
    <2>. QED  BY <1>2, <2>2, <2>3, <2>4, <2>5 DEF PhaseOK, RecordOK, RebuildOK, Same
  <1>5. ASSUME NEW id \in Touched(p), id \notin excused', proc[p].op \in {"reset", "wipe"}
        PROVE  index'[id] = RowOf(file'[id])
    <2>1. id \notin excused /\ id \notin T /\ id \in Ids
      BY <1>3, <1>5 DEF Touched
    <2>2. file'[id] = file[id] /\ index'[id] = index[id]
      BY <1>1, <2>1 DEF Elsewhere
    <2>. QED  BY <1>5, <2>1, <2>2 DEF DInv, PhaseInv
  <1>6. ASSUME NEW id \in Touched(p), proc[p].op = "import"
        PROVE  id \in excused'
    <2>1. id \in excused
      BY <1>6 DEF DInv, PhaseInv
    <2>2. excused \subseteq excused'
      BY DEF Starts, GoesOn, DInv, AloneInv
    <2>. QED  BY <2>1, <2>2
  <1>. QED  BY <1>2, <1>4, <1>5, <1>6 DEF PhaseInv, Same

\* The invariant survives a step that keeps its hands off what others hold, if it
\* is right about what it holds itself.
LEMMA DStep ==
    ASSUME DInv, TypeInv, NEW q \in Procs, Starts(q) \/ GoesOn(q), Own(q)
    PROVE  DInv'
  <1> DEFINE T == IF Busy(q) THEN Touched(q) ELSE Touched(q)'
  <1>1. Elsewhere(q, T)
    BY DEF Starts, GoesOn
  <1>2. \A p \in Procs \ {q} : (Busy(p)' <=> Busy(p)) /\ Touched(p)' = Touched(p)
    BY <1>1, SameBusy
  <1>3. ASSUME NEW p \in Procs, Busy(p)', proc'[p].alone, NEW r \in Procs \ {p}
        PROVE  ~Busy(r)'
    <2>1. CASE p = q
      BY <1>2, <1>3, <2>1 DEF Starts, GoesOn, DInv, AloneInv
    <2>2. CASE p # q
      <3>1. Busy(p)
        BY <1>2, <1>3, <2>2
      <3>2. ~Starts(q)
        BY <1>3, <2>2, <3>1 DEF Starts
      <3>. QED  BY <1>3, <2>2, <3>1, <3>2 DEF GoesOn, DInv, AloneInv
    <2>. QED  BY <2>1, <2>2
  <1>4. ASSUME NEW id \in Ids \ excused', NEW p \in Procs, NEW r \in Procs,
               Busy(p)', id \in Touched(p)', Busy(r)', id \in Touched(r)', r # q
        PROVE  p = r
    <2>1. Busy(r) /\ id \in Touched(r)
      BY <1>2, <1>4
    <2>2. id \notin excused
      <3>1. CASE Starts(q)
        BY <1>4, <3>1 DEF Starts
      <3>2. CASE GoesOn(q)
        BY <1>4, <2>1, <3>2 DEF GoesOn, DInv, AloneInv
      <3>. QED  BY <3>1, <3>2
    <2>3. CASE p # q
      BY <1>2, <1>4, <2>1, <2>2, <2>3 DEF DInv, SoleInv
    <2>4. CASE p = q
      <3>1. ~Starts(q)
        BY <1>4, <2>1, <2>4 DEF Starts, Overlapped
      <3>2. Busy(q) /\ id \in Touched(q)
        BY <1>4, <2>4, <3>1 DEF GoesOn
      <3>. QED  BY <1>4, <2>1, <2>2, <2>4, <3>2 DEF DInv, SoleInv
    <2>. QED  BY <2>3, <2>4
  <1>5. SoleInv'
    <2> SUFFICES ASSUME NEW id \in Ids \ excused', NEW p \in Procs, NEW r \in Procs,
                        Busy(p)', id \in Touched(p)', Busy(r)', id \in Touched(r)'
                 PROVE  p = r
      BY DEF SoleInv
    <2>1. CASE r # q
      BY <1>4, <2>1
    <2>2. CASE p # q
      BY <1>4, <2>2
    <2>. QED  BY <2>1, <2>2
  <1>6. ASSUME NEW id \in Ids \ excused', \A p \in Procs : Busy(p)' => id \notin Touched(p)'
        PROVE  index'[id] = RowOf(file'[id])
    <2>1. CASE Busy(q) /\ id \in Touched(q)
      BY <1>6, <2>1 DEF Own
    <2>2. CASE ~(Busy(q) /\ id \in Touched(q))
      <3>1. id \notin T
        BY <1>6, <2>2 DEF Starts, GoesOn
      <3>2. file'[id] = file[id] /\ index'[id] = index[id]
        BY <1>1, <3>1 DEF Elsewhere
      <3>3. id \notin excused
        BY <1>6, <2>2 DEF Starts, GoesOn
      <3>4. \A p \in Procs : Busy(p) => id \notin Touched(p)
        BY <1>2, <1>6, <2>2
      <3>. QED  BY <3>2, <3>3, <3>4 DEF DInv, RestInv
    <2>. QED  BY <2>1, <2>2
  <1>7. ASSUME NEW p \in Procs, Busy(p)' PROVE PhaseInv(p)'
    <2>1. CASE p = q
      BY <1>7, <2>1 DEF Own
    <2>2. CASE p # q
      BY <1>2, <1>7, <2>2, OthersKeep
    <2>. QED  BY <2>1, <2>2
  <1>. QED  BY <1>3, <1>5, <1>6, <1>7 DEF DInv, AloneInv, RestInv

\* The files and rows outside T are left alone.
FilesElsewhere(T) ==
    \A id \in Ids \ T : file'[id] = file[id] /\ index'[id] = index[id]

\* What a step leaves of the processes, and of process p in particular.
ProcsBecome(p, k) ==
    /\ proc' \in [Procs -> Process]
    /\ \A q \in Procs : ProcOK(proc'[q])
    /\ Same(proc'[p], k)
    /\ (Busy(p)' <=> Working(k)) /\ Touched(p)' = TouchedBy(k)

\* A command starts; it may remove a file that is its own to touch.
LEMMA StartFrame ==
    ASSUME TypeInv, NEW p \in Procs, NEW k, ProcOK(k), Working(k), ~Busy(p),
           \/ proc' = Started(p, k)
           \/ \E phase \in Open, id \in TouchedBy(k) : proc' = Disown(Started(p, k), phase, id),
           FilesElsewhere(TouchedBy(k)),
           excused \cup Overlapped(p, TouchedBy(k)) \subseteq excused'
    PROVE  Starts(p) /\ ProcsBecome(p, k)
           /\ (proc' = Started(p, k) => proc'[p].lost = k.lost)
  <1> DEFINE s == Started(p, k)
  <1>1. k \in Process
    BY DEF ProcOK
  <1>2. /\ s \in [Procs -> Process]
        /\ Same(s[p], k) /\ s[p].lost = k.lost
        /\ s[p].alone => \A r \in Procs : ~Busy(r)
        /\ \A q \in Procs \ {p} : /\ Same(s[q], proc[q])
                                  /\ s[q].lost = proc[q].lost
                                  /\ Busy(q) => ~s[q].alone
    BY <1>1, StartedFields
  <1> HIDE DEF s
  <1>3. /\ proc' \in [Procs -> Process]
        /\ \A q \in Procs : /\ Same(proc'[q], s[q])
                            /\ proc'[q].alone = s[q].alone
                            /\ s[q].id \notin TouchedBy(k) => proc'[q].lost = s[q].lost
                            /\ proc'[q].lost => s[q].lost \/ s[q].pc \in Open
    <2>1. CASE proc' = s
      BY <1>2, <2>1 DEF Same
    <2>2. CASE \E phase \in Open, id \in TouchedBy(k) : proc' = Disown(s, phase, id)
      BY <1>2, <2>2, DisownFields
    <2>. QED  BY <2>1, <2>2 DEF s
  <1>4. Same(proc'[p], k)
    BY <1>2, <1>3 DEF Same
  <1>5. \A q \in Procs \ {p} : /\ Same(proc'[q], proc[q])
                               /\ proc[q].id \notin TouchedBy(k) => proc'[q].lost = proc[q].lost
                               /\ Busy(q) => ~proc'[q].alone
    BY <1>2, <1>3 DEF Same
  <1>6. \A q \in Procs : ProcOK(proc'[q])
    <2>1. \A q \in Procs : \E l : ProcOK(l) /\ Same(s[q], l) /\ s[q].lost = l.lost
      BY <1>1, <1>2 DEF TypeInv, Same
    <2>. QED  BY <1>3, <2>1, ProcOKSame DEF Same
  <1>7. Busy(p)' /\ Touched(p)' = TouchedBy(k)
    BY <1>4 DEF Same, Busy, Working, Touched, TouchedBy
  <1>8. Starts(p)
    BY <1>2, <1>3, <1>5, <1>7 DEF Starts, Elsewhere, FilesElsewhere
  <1>. QED  BY <1>2, <1>3, <1>4, <1>6, <1>7, <1>8 DEF ProcsBecome, s

\* A command goes on or ends; it may remove a file that is its own to touch.
LEMMA GoFrame ==
    ASSUME TypeInv, NEW p \in Procs, NEW k, ProcOK(k), Busy(p),
           \/ proc' = [proc EXCEPT ![p] = k]
           \/ \E phase \in Open, id \in Touched(p) :
                proc' = Disown([proc EXCEPT ![p] = k], phase, id),
           FilesElsewhere(Touched(p)),
           Working(k) => TouchedBy(k) \subseteq Touched(p) /\ k.alone = proc[p].alone,
           excused \ excused' \subseteq Touched(p),
           excused \subseteq excused' \/ (proc[p].alone /\ ~Working(k))
    PROVE  GoesOn(p) /\ ProcsBecome(p, k)
           /\ proc'[p].alone = k.alone
           /\ (proc' = [proc EXCEPT ![p] = k] => proc'[p] = k)
  <1> DEFINE s == [proc EXCEPT ![p] = k]
  <1>1. k \in Process /\ proc \in [Procs -> Process]
    BY DEF ProcOK, TypeInv, TypeOK
  <1>2. s \in [Procs -> Process] /\ s[p] = k /\ \A q \in Procs \ {p} : s[q] = proc[q]
    BY <1>1
  <1> HIDE DEF s
  <1>3. /\ proc' \in [Procs -> Process]
        /\ \A q \in Procs : /\ Same(proc'[q], s[q])
                            /\ proc'[q].alone = s[q].alone
                            /\ s[q].id \notin Touched(p) => proc'[q].lost = s[q].lost
                            /\ proc'[q].lost => s[q].lost \/ s[q].pc \in Open
    <2>1. CASE proc' = s
      BY <1>2, <2>1 DEF Same
    <2>2. CASE \E phase \in Open, id \in Touched(p) : proc' = Disown(s, phase, id)
      BY <1>2, <2>2, DisownFields
    <2>. QED  BY <2>1, <2>2 DEF s
  <1>4. Same(proc'[p], k) /\ proc'[p].alone = k.alone
    BY <1>2, <1>3
  <1>5. \A q \in Procs \ {p} : /\ Same(proc'[q], proc[q])
                               /\ proc[q].id \notin Touched(p) => proc'[q].lost = proc[q].lost
                               /\ proc'[q].alone = proc[q].alone
    BY <1>2, <1>3
  <1>6. \A q \in Procs : ProcOK(proc'[q])
    <2>1. \A q \in Procs : \E l : ProcOK(l) /\ Same(s[q], l) /\ s[q].lost = l.lost
      BY <1>1, <1>2 DEF TypeInv, Same
    <2>. QED  BY <1>3, <2>1, ProcOKSame DEF Same
  <1>7. (Busy(p)' <=> Working(k)) /\ Touched(p)' = TouchedBy(k)
    BY <1>4 DEF Same, Busy, Working, Touched, TouchedBy
  <1>8. GoesOn(p)
    BY <1>4, <1>5, <1>7 DEF GoesOn, Elsewhere, FilesElsewhere
  <1>. QED  BY <1>2, <1>3, <1>4, <1>6, <1>7, <1>8 DEF ProcsBecome, s

-----------------------------------------------------------------------------
(* Each action *)

Typed ==
    /\ file' \in [Ids -> Record \cup {None, Torn}]
    /\ index' \in [Ids -> Row \cup {None, Torn}]
    /\ excused' \subseteq Ids

\* A step of process p that leaves it with k.
LEMMA Kept ==
    ASSUME NInv, NEW p \in Procs, NEW k, ProcsBecome(p, k), Starts(p) \/ GoesOn(p), Typed,
           Working(k) => \A id \in TouchedBy(k) :
             /\ id \notin excused' \/ proc'[p].alone =>
                  PhaseOK(proc'[p], id, file'[id], index'[id])
             /\ k.op \in {"reset", "wipe"} /\ id \notin excused' =>
                  index'[id] = RowOf(file'[id])
             /\ k.op = "import" => id \in excused',
           Busy(p) => \A id \in Touched(p) :
             id \notin excused' /\ ~(Working(k) /\ id \in TouchedBy(k)) =>
               index'[id] = RowOf(file'[id])
    PROVE  NInv'
  <1>1. TypeInv'
    BY DEF Typed, ProcsBecome, TypeInv, TypeOK
  <1>2. Own(p)
    BY DEF Own, PhaseInv, ProcsBecome, Same
  <1>. QED  BY <1>1, <1>2, DStep DEF NInv

LEMMA IdleFields ==
    /\ Idle \in Process
    /\ Idle.id = None /\ Idle.value = None /\ Idle.todo = {} /\ Idle.lost = FALSE
  <1>1. Idle.id = None /\ Idle.value = None /\ Idle.todo = {} /\ Idle.lost = FALSE
    BY DEF Idle
  <1>. QED  BY <1>1, RestingOK DEF ProcOK

LEMMA CreateKeeps ==
    ASSUME NInv, NEW p \in Procs, NEW id \in Ids, NEW r \in Record, Create(p, id, r)
    PROVE  NInv'
  <1> DEFINE k == [Idle EXCEPT !.pc = "writing", !.op = "create", !.id = id, !.value = r]
  <1>1. /\ k \in Process
        /\ k.pc = "writing" /\ k.op = "create" /\ k.id = id /\ k.value = r
        /\ k.lost = FALSE
    BY IdleFields DEF Process, Phases, Ops
  <1>2. /\ ~Busy(p) /\ proc' = Started(p, k)
        /\ excused' = excused \cup Overlapped(p, {id})
        /\ file' = [file EXCEPT ![id] = Torn] /\ index' = index
    BY DEF Create, Start
  <1> HIDE DEF k
  <1>3. ProcOK(k) /\ Working(k) /\ TouchedBy(k) = {id}
    BY <1>1 DEF ProcOK, Working, TouchedBy
  <1>4. file \in [Ids -> Record \cup {None, Torn}] /\ index \in [Ids -> Row \cup {None, Torn}]
        /\ excused \subseteq Ids
    BY DEF NInv, TypeInv, TypeOK
  <1>5. FilesElsewhere(TouchedBy(k))
    BY <1>2, <1>3, <1>4 DEF FilesElsewhere
  <1>6. Starts(p) /\ ProcsBecome(p, k) /\ proc'[p].lost = FALSE
    BY <1>1, <1>2, <1>3, <1>5, StartFrame DEF NInv
  <1>7. Typed
    BY <1>2, <1>4 DEF Typed, Overlapped
  <1>8. PhaseOK(proc'[p], id, file'[id], index'[id])
    BY <1>1, <1>2, <1>4, <1>6 DEF PhaseOK, RecordOK, Same, ProcsBecome
  <1>. QED  BY <1>1, <1>2, <1>3, <1>6, <1>7, <1>8, Kept

LEMMA Types ==
    ASSUME NInv
    PROVE  /\ file \in [Ids -> Record \cup {None, Torn}]
           /\ index \in [Ids -> Row \cup {None, Torn}]
           /\ proc \in [Procs -> Process]
           /\ excused \subseteq Ids
           /\ \A p \in Procs : ProcOK(proc[p])
  BY DEF NInv, TypeInv, TypeOK

LEMMA ImportKeeps ==
    ASSUME NInv, NEW p \in Procs, NEW id \in Ids, NEW r \in Record, Import(p, id, r)
    PROVE  NInv'
  <1> DEFINE k == [Idle EXCEPT !.pc = "truncating", !.op = "import", !.id = id, !.value = r]
  <1>1. /\ k \in Process /\ k.pc = "truncating" /\ k.op = "import" /\ k.id = id /\ k.value = r
        /\ k.lost = FALSE
    BY IdleFields DEF Process, Phases, Ops
  <1>2. /\ ~Busy(p) /\ proc' = Started(p, k)
        /\ excused' = excused \cup {id} /\ file' = file /\ index' = index
    BY DEF Import, Start
  <1> HIDE DEF k
  <1>3. ProcOK(k) /\ Working(k) /\ TouchedBy(k) = {id}
    BY <1>1 DEF ProcOK, Working, TouchedBy
  <1>4. FilesElsewhere(TouchedBy(k)) /\ excused \cup Overlapped(p, TouchedBy(k)) \subseteq excused'
    BY <1>2, <1>3 DEF FilesElsewhere, Overlapped
  <1>5. Starts(p) /\ ProcsBecome(p, k)
    BY <1>2, <1>3, <1>4, StartFrame DEF NInv
  <1>6. Typed
    BY <1>2, Types DEF Typed
  <1>7. PhaseOK(proc'[p], id, file'[id], index'[id])
    BY <1>1, <1>5 DEF PhaseOK, Same, ProcsBecome
  <1>. QED  BY <1>1, <1>2, <1>3, <1>5, <1>6, <1>7, Kept

LEMMA UpdateKeeps ==
    ASSUME NInv, NEW p \in Procs, NEW id \in Ids, NEW t \in Titles,
           NEW b \in Bodies \cup {NoBody}, NEW c \in BOOLEAN, Update(p, id, t, b, c)
    PROVE  NInv'
  <1> DEFINE new == Edited(file[id], t, b, c)
             k == [Idle EXCEPT !.pc = "truncating", !.op = "update", !.id = id, !.value = new]
  <1>1. new \in Record
    BY DEF Update, Edited, Record
  <1>2. /\ ~Busy(p) /\ proc' = Started(p, k)
        /\ excused' = excused \cup Overlapped(p, {id}) /\ file' = file /\ index' = index
    BY DEF Update, Start
  <1> HIDE DEF new
  <1>3. /\ k \in Process /\ k.pc = "truncating" /\ k.op = "update" /\ k.id = id
        /\ k.value = new /\ k.lost = FALSE
    BY <1>1, IdleFields DEF Process, Phases, Ops
  <1> HIDE DEF k
  <1>4. ProcOK(k) /\ Working(k) /\ TouchedBy(k) = {id}
    BY <1>1, <1>3 DEF ProcOK, Working, TouchedBy
  <1>5. FilesElsewhere(TouchedBy(k))
    BY <1>2, <1>4 DEF FilesElsewhere
  <1>6. Starts(p) /\ ProcsBecome(p, k) /\ proc'[p].lost = FALSE
    BY <1>2, <1>3, <1>4, <1>5, StartFrame DEF NInv
  <1>7. Typed
    BY <1>2, Types DEF Typed, Overlapped
  <1>8. PhaseOK(proc'[p], id, file'[id], index'[id])
    BY <1>3, <1>6 DEF PhaseOK, RecordOK, Same, ProcsBecome
  <1>. QED  BY <1>2, <1>3, <1>4, <1>6, <1>7, <1>8, Kept

LEMMA DeleteKeeps ==
    ASSUME NInv, NEW p \in Procs, NEW id \in Ids, Delete(p, id)
    PROVE  NInv'
  <1> DEFINE k == [Idle EXCEPT !.pc = "unindexing", !.op = "delete", !.id = id]
  <1>1. /\ k \in Process /\ k.pc = "unindexing" /\ k.op = "delete" /\ k.id = id
        /\ k.value = None /\ k.lost = FALSE
    BY IdleFields DEF Process, Phases, Ops
  <1>2. /\ ~Busy(p) /\ proc' = Disown(Started(p, k), "writing", id)
        /\ excused' = excused \cup Overlapped(p, {id})
        /\ file' = [file EXCEPT ![id] = None] /\ index' = index
    BY DEF Delete
  <1> HIDE DEF k
  <1>3. ProcOK(k) /\ Working(k) /\ TouchedBy(k) = {id}
    BY <1>1 DEF ProcOK, Working, TouchedBy
  <1>4. FilesElsewhere(TouchedBy(k))
    BY <1>2, <1>3, Types DEF FilesElsewhere
  <1>5. Starts(p) /\ ProcsBecome(p, k)
    <2>1. \E phase \in Open, i \in TouchedBy(k) : proc' = Disown(Started(p, k), phase, i)
      BY <1>2, <1>3 DEF Open
    <2>. QED  BY <1>2, <1>3, <1>4, <2>1, StartFrame DEF NInv
  <1>6. Typed
    BY <1>2, Types DEF Typed, Overlapped
  <1>7. PhaseOK(proc'[p], id, file'[id], index'[id])
    BY <1>1, <1>2, <1>5, Types DEF PhaseOK, RecordOK, Open, Same, ProcsBecome
  <1>. QED  BY <1>1, <1>2, <1>3, <1>5, <1>6, <1>7, Kept

LEMMA RebuildKeeps ==
    ASSUME NInv, NEW p \in Procs, Rebuild(p)
    PROVE  NInv'
  <1> DEFINE k == [Idle EXCEPT !.pc = "clearing", !.op = "rebuild", !.todo = Present(index)]
  <1>1. Present(index) \in SUBSET Ids
    BY DEF Present
  <1>2. /\ k \in Process /\ k.pc = "clearing" /\ k.op = "rebuild" /\ k.id = None
        /\ k.value = None /\ k.todo = Present(index) /\ k.lost = FALSE
    BY <1>1, IdleFields DEF Process, Phases, Ops
  <1>3. /\ ~Busy(p) /\ proc' = Started(p, k)
        /\ excused' = excused \cup Overlapped(p, Ids) /\ file' = file /\ index' = index
    BY DEF Rebuild, Start
  <1> HIDE DEF k
  <1>4. ProcOK(k) /\ Working(k) /\ TouchedBy(k) = Ids
    BY <1>2 DEF ProcOK, Working, TouchedBy
  <1>5. FilesElsewhere(TouchedBy(k))
    BY <1>3, <1>4 DEF FilesElsewhere
  <1>6. Starts(p) /\ ProcsBecome(p, k)
    BY <1>3, <1>4, <1>5, StartFrame DEF NInv
  <1>7. Typed
    BY <1>3, Types DEF Typed, Overlapped
  <1>8. \A id \in Ids : PhaseOK(proc'[p], id, file'[id], index'[id])
    BY <1>2, <1>3, <1>6 DEF PhaseOK, RebuildOK, Same, ProcsBecome, Present
  <1>. QED  BY <1>2, <1>3, <1>4, <1>6, <1>7, <1>8, Kept

\* Whoever touches every id finds those that it need not excuse in order.
LEMMA RestFound ==
    ASSUME NInv, NEW p \in Procs, NEW id \in Ids, id \notin excused \cup Overlapped(p, Ids)
    PROVE  index[id] = RowOf(file[id])
  BY DEF NInv, DInv, RestInv, Overlapped

LEMMA ResetRecordsKeeps ==
    ASSUME NInv, NEW p \in Procs, NEW id \in Ids \cup {None}, NEW r \in Record \cup {None},
           id # None => r \in Record, ResetRecords(p, id, r)
    PROVE  NInv'
  <1> DEFINE k == [Idle EXCEPT !.pc = "removing", !.op = "reset", !.todo = Present(file),
                               !.id = id, !.value = r]
  <1>1. Present(file) \in SUBSET Ids
    BY DEF Present
  <1>2. /\ k \in Process /\ k.pc = "removing" /\ k.op = "reset" /\ k.id = id /\ k.value = r
        /\ k.lost = FALSE
    BY <1>1, IdleFields DEF Process, Phases, Ops
  <1>3. /\ ~Busy(p) /\ proc' = Started(p, k)
        /\ excused' = excused \cup Overlapped(p, Ids) /\ file' = file /\ index' = index
    BY DEF ResetRecords, Start
  <1> HIDE DEF k
  <1>4. ProcOK(k) /\ Working(k) /\ TouchedBy(k) = Ids
    BY <1>2 DEF ProcOK, Working, TouchedBy
  <1>5. FilesElsewhere(TouchedBy(k))
    BY <1>3, <1>4 DEF FilesElsewhere
  <1>6. Starts(p) /\ ProcsBecome(p, k)
    BY <1>3, <1>4, <1>5, StartFrame DEF NInv
  <1>7. Typed
    BY <1>3, Types DEF Typed, Overlapped
  <1>8. \A i \in Ids : PhaseOK(proc'[p], i, file'[i], index'[i])
    BY <1>2, <1>6 DEF PhaseOK, Same, ProcsBecome
  <1>9. \A i \in Ids : i \notin excused' => index'[i] = RowOf(file'[i])
    BY <1>3, RestFound
  <1>. QED  BY <1>2, <1>3, <1>4, <1>6, <1>7, <1>8, <1>9, Kept

LEMMA ResetRootKeeps ==
    ASSUME NInv, NEW p \in Procs, NEW id \in Ids \cup {None}, NEW r \in Record \cup {None},
           id # None => r \in Record, ResetRoot(p, id, r)
    PROVE  NInv'
  <1> DEFINE k == [Idle EXCEPT !.pc = "clearing", !.op = "wipe", !.todo = Present(index),
                               !.id = id, !.value = r]
  <1>1. Present(index) \in SUBSET Ids
    BY DEF Present
  <1>2. /\ k \in Process /\ k.pc = "clearing" /\ k.op = "wipe" /\ k.id = id /\ k.value = r
        /\ k.lost = FALSE
    BY <1>1, IdleFields DEF Process, Phases, Ops
  <1>3. /\ ~Busy(p) /\ proc' = Started(p, k)
        /\ excused' = excused \cup Overlapped(p, Ids) /\ file' = file /\ index' = index
    BY DEF ResetRoot, Start
  <1> HIDE DEF k
  <1>4. ProcOK(k) /\ Working(k) /\ TouchedBy(k) = Ids
    BY <1>2 DEF ProcOK, Working, TouchedBy
  <1>5. FilesElsewhere(TouchedBy(k))
    BY <1>3, <1>4 DEF FilesElsewhere
  <1>6. Starts(p) /\ ProcsBecome(p, k)
    BY <1>3, <1>4, <1>5, StartFrame DEF NInv
  <1>7. Typed
    BY <1>3, Types DEF Typed, Overlapped
  <1>8. \A i \in Ids : PhaseOK(proc'[p], i, file'[i], index'[i])
    BY <1>2, <1>6 DEF PhaseOK, Same, ProcsBecome
  <1>9. \A i \in Ids : i \notin excused' => index'[i] = RowOf(file'[i])
    BY <1>3, RestFound
  <1>. QED  BY <1>2, <1>3, <1>4, <1>6, <1>7, <1>8, <1>9, Kept

LEMMA AtWork ==
    ASSUME NInv, NEW p \in Procs, proc[p].pc \notin {"idle", "dead"}
    PROVE  /\ Busy(p) /\ ProcOK(proc[p]) /\ PhaseInv(p)
           /\ Touched(p) = TouchedBy(proc[p]) /\ Touched(p) \subseteq Ids
  BY DEF NInv, TypeInv, DInv, Busy, Touched, TouchedBy

LEMMA TruncateRecordKeeps ==
    ASSUME NInv, NEW p \in Procs, TruncateRecord(p)
    PROVE  NInv'
  <1> DEFINE i == proc[p].id
             k == [proc[p] EXCEPT !.pc = "writing"]
  <1>1. proc[p].pc = "truncating"
    BY DEF TruncateRecord
  <1>2. ProcOK(proc[p]) /\ PhaseInv(p) /\ Busy(p)
    BY <1>1, AtWork
  <1>3. /\ proc[p] \in Process /\ proc[p].op \in {"update", "import"}
        /\ i \in Ids /\ proc[p].value \in Record /\ proc[p].lost = FALSE
    BY <1>1, <1>2 DEF ProcOK, Process, Open
  <1>4. /\ k \in Process /\ k.pc = "writing" /\ k.op = proc[p].op /\ k.id = i
        /\ k.value = proc[p].value /\ k.lost = FALSE /\ k.alone = proc[p].alone
    BY <1>3 DEF Process, Phases
  <1>5. /\ proc' = [proc EXCEPT ![p] = k]
        /\ file' = [file EXCEPT ![i] = Torn] /\ index' = index /\ excused' = excused
    BY DEF TruncateRecord, Continue
  <1> HIDE DEF k
  <1>6. ProcOK(k) /\ TouchedBy(k) = {i} /\ Touched(p) = {i}
    BY <1>3, <1>4 DEF ProcOK, TouchedBy, Touched, Open
  <1>7. FilesElsewhere(Touched(p)) /\ Typed
    BY <1>3, <1>5, <1>6, Types DEF FilesElsewhere, Typed
  <1>8. GoesOn(p) /\ ProcsBecome(p, k) /\ proc'[p] = k
    BY <1>2, <1>4, <1>5, <1>6, <1>7, GoFrame DEF NInv
  <1>9. i \notin excused \/ proc[p].alone => PhaseOK(proc'[p], i, file'[i], index'[i])
    BY <1>3, <1>4, <1>5, <1>8, Types DEF PhaseOK, RecordOK
  <1>10. proc[p].op = "import" => i \in excused
    BY <1>2, <1>6 DEF PhaseInv
  <1>. QED  BY <1>3, <1>4, <1>5, <1>6, <1>7, <1>8, <1>9, <1>10, Kept DEF Working

LEMMA WriteRecordKeeps ==
    ASSUME NInv, NEW p \in Procs, WriteRecord(p)
    PROVE  NInv'
  <1> DEFINE i == proc[p].id
             v == proc[p].value
  <1>1. proc[p].pc = "writing"
    BY DEF WriteRecord
  <1>2. ProcOK(proc[p]) /\ PhaseInv(p) /\ Busy(p)
    BY <1>1, AtWork
  <1>3. /\ proc[p] \in Process /\ proc[p].op \in {"create", "update", "import"}
        /\ i \in Ids /\ v \in Record
    BY <1>1, <1>2 DEF ProcOK
  <1>4. Touched(p) = {i}
    BY <1>3 DEF Touched
  <1>5. PICK w \in Written(p, file[i], v) : file' = [file EXCEPT ![i] = w]
    BY DEF WriteRecord
  <1>6. w \in Record \cup {None, Torn} /\ (file[i] = Torn /\ ~proc[p].lost => w = v)
    BY <1>3, <1>5, Types DEF Written
  <1>7. file'[i] = w /\ index' = index /\ excused' = excused
    BY <1>3, <1>5, Types DEF WriteRecord
  <1>8. FilesElsewhere(Touched(p)) /\ Typed
    BY <1>3, <1>4, <1>5, <1>6, <1>7, Types DEF FilesElsewhere, Typed
  <1>9. CASE proc[p].op = "import"
    <2>1. proc' = [proc EXCEPT ![p] = Idle]
      BY <1>9 DEF WriteRecord, Return, Continue
    <2>2. GoesOn(p) /\ ProcsBecome(p, Idle)
      BY <1>2, <1>7, <1>8, <2>1, RestingOK, GoFrame DEF NInv, Working
    <2>3. i \in excused
      BY <1>2, <1>4, <1>9 DEF PhaseInv
    <2>. QED  BY <1>4, <1>7, <1>8, <2>2, <2>3, RestingOK, Kept DEF Working
  <1>10. CASE proc[p].op # "import"
    <2> DEFINE k == [proc[p] EXCEPT !.pc = "indexing", !.lost = FALSE]
    <2>1. proc' = [proc EXCEPT ![p] = k]
      BY <1>10 DEF WriteRecord, Continue
    <2>2. /\ k \in Process /\ k.pc = "indexing" /\ k.op = proc[p].op /\ k.id = i
          /\ k.value = v /\ k.lost = FALSE /\ k.alone = proc[p].alone
      BY <1>3 DEF Process, Phases
    <2> HIDE DEF k
    <2>3. ProcOK(k) /\ TouchedBy(k) = {i}
      BY <1>3, <1>10, <2>2 DEF ProcOK, TouchedBy
    <2>4. GoesOn(p) /\ ProcsBecome(p, k) /\ proc'[p] = k
      BY <1>2, <1>4, <1>7, <1>8, <2>1, <2>2, <2>3, GoFrame DEF NInv
    <2>5. ASSUME i \notin excused \/ proc[p].alone
          PROVE  PhaseOK(k, i, file'[i], index'[i])
      <3>1. RecordOK(proc[p], file[i], index[i])
        BY <1>2, <1>3, <1>4, <1>10, <2>5 DEF PhaseInv, PhaseOK
      <3>2. file'[i] = v
        BY <1>1, <1>6, <1>7, <3>1 DEF RecordOK, Open
      <3>. QED  BY <1>3, <1>10, <2>2, <3>2 DEF PhaseOK, RecordOK, Open
    <2>. QED  BY <1>3, <1>4, <1>7, <1>8, <1>10, <2>2, <2>3, <2>4, <2>5, Kept DEF Working
  <1>. QED  BY <1>9, <1>10

\* A command that returns having excused all that it touched.
LEMMA EndExcused ==
    ASSUME NInv, NEW p \in Procs, NEW k, Busy(p), ProcOK(k), ~Working(k),
           proc' = [proc EXCEPT ![p] = k], file' = file, index' = index,
           excused' \subseteq Ids, excused \cup Touched(p) \subseteq excused'
    PROVE  NInv'
  <1>1. Typed /\ FilesElsewhere(Touched(p))
    BY Types DEF Typed, FilesElsewhere
  <1>2. GoesOn(p) /\ ProcsBecome(p, k)
    BY <1>1, GoFrame DEF NInv
  <1>. QED  BY <1>1, <1>2, Kept

LEMMA CrashKeeps ==
    ASSUME NInv, NEW p \in Procs, Crash(p)
    PROVE  NInv'
  <1>1. Touched(p) \subseteq Ids /\ excused \subseteq Ids
    BY Types DEF Touched
  <1>. QED  BY <1>1, RestingOK, EndExcused DEF Crash, Continue, Working

LEMMA PutRowKeeps ==
    ASSUME NInv, NEW p \in Procs, PutRow(p)
    PROVE  NInv'
  <1> DEFINE i == proc[p].id
             v == proc[p].value
             k == [proc[p] EXCEPT !.pc = "projecting"]
  <1>1. proc[p].pc = "indexing"
    BY DEF PutRow
  <1>2. ProcOK(proc[p]) /\ PhaseInv(p) /\ Busy(p) /\ Touched(p) \subseteq Ids
        /\ Touched(p) = TouchedBy(proc[p])
    BY <1>1, AtWork
  <1>3. /\ proc[p] \in Process /\ proc[p].op \in {"create", "update", "rebuild"}
        /\ i \in Ids /\ v \in Record /\ proc[p].lost = FALSE
    BY <1>1, <1>2 DEF ProcOK, Process, Open
  <1>4. CASE i \in BadIds
    BY <1>2, <1>4, Types, RestingOK, EndExcused DEF PutRow, Return, Continue, Working
  <1>5. CASE i \notin BadIds
    <2>1. /\ proc' = [proc EXCEPT ![p] = k]
          /\ file' = file /\ index' = [index EXCEPT ![i] = Torn] /\ excused' = excused
      BY <1>5 DEF PutRow, Continue
    <2>2. /\ k \in Process /\ k.pc = "projecting" /\ k.op = proc[p].op /\ k.id = i
          /\ k.value = v /\ k.lost = FALSE /\ k.alone = proc[p].alone
          /\ k.todo = proc[p].todo
      BY <1>3 DEF Process, Phases
    <2> HIDE DEF k
    <2>3. ProcOK(k) /\ TouchedBy(k) = Touched(p) /\ i \in Touched(p)
      BY <1>2, <1>3, <2>2 DEF ProcOK, TouchedBy, Open
    <2>4. Typed /\ FilesElsewhere(Touched(p))
      BY <1>3, <2>1, <2>3, Types DEF Typed, FilesElsewhere
    <2>5. GoesOn(p) /\ ProcsBecome(p, k) /\ proc'[p] = k
      BY <1>2, <2>1, <2>2, <2>3, <2>4, GoFrame DEF NInv
    <2>6. ASSUME NEW id \in Touched(p), id \notin excused \/ proc[p].alone
          PROVE  PhaseOK(k, id, file'[id], index'[id])
      <3>1. PhaseOK(proc[p], id, file[id], index[id])
        BY <1>2, <2>6 DEF PhaseInv
      <3>2. id # i => index'[id] = index[id]
        BY <2>1
      <3>3. index'[i] = Torn /\ file'[id] = file[id]
        BY <1>3, <2>1, Types
      <3>4. id # i => proc[p].op = "rebuild"
        BY <1>2, <1>3, <2>6 DEF TouchedBy
      <3>. QED  BY <1>1, <1>3, <2>2, <3>1, <3>2, <3>3, <3>4
             DEF PhaseOK, RecordOK, RebuildOK, Open
    <2>. QED  BY <1>3, <2>1, <2>2, <2>3, <2>4, <2>5, <2>6, Kept DEF Working
  <1>. QED  BY <1>4, <1>5

\* A projection is whole, and no other than what the record is to have.
LEMMA RowOfRecord ==
    ASSUME NEW r \in Record
    PROVE  RowOf(r) = Project(r) /\ Project(r) \in Row
  BY DEF RowOf, Project, Row, Record

LEMMA WriteRowKeeps ==
    ASSUME NInv, NEW p \in Procs, WriteRow(p)
    PROVE  NInv'
  <1> DEFINE i == proc[p].id
             v == proc[p].value
  <1>1. proc[p].pc = "projecting"
    BY DEF WriteRow
  <1>2. ProcOK(proc[p]) /\ PhaseInv(p) /\ Busy(p) /\ Touched(p) \subseteq Ids
        /\ Touched(p) = TouchedBy(proc[p])
    BY <1>1, AtWork
  <1>3. /\ proc[p] \in Process /\ proc[p].op \in {"create", "update", "rebuild"}
        /\ i \in Ids /\ v \in Record /\ i \in Touched(p)
    BY <1>1, <1>2 DEF ProcOK, TouchedBy
  <1>4. PICK w \in Written(p, index[i], Project(v)) : index' = [index EXCEPT ![i] = w]
    BY DEF WriteRow
  <1>5. w \in Row \cup {None, Torn} /\ (index[i] = Torn /\ ~proc[p].lost => w = Project(v))
    BY <1>3, <1>4, Types, RowOfRecord DEF Written
  <1>6. index'[i] = w /\ file' = file /\ \A id \in Ids \ {i} : index'[id] = index[id]
    BY <1>3, <1>4, Types DEF WriteRow
  <1>7. FilesElsewhere(Touched(p)) /\ index' \in [Ids -> Row \cup {None, Torn}]
    BY <1>3, <1>4, <1>5, <1>6, Types DEF FilesElsewhere
  <1>8. ASSUME i \notin excused \/ proc[p].alone
        PROVE  file[i] = v /\ index'[i] = RowOf(v)
    <2>1. RecordOK(proc[p], file[i], index[i])
      BY <1>1, <1>2, <1>3, <1>8 DEF PhaseInv, PhaseOK, RebuildOK
    <2>2. file[i] = v /\ w = Project(v)
      BY <1>1, <1>5, <2>1 DEF RecordOK, Open
    <2>. QED  BY <1>3, <1>6, <2>2, RowOfRecord
  <1>9. CASE proc[p].op = "rebuild"
    <2> DEFINE k == [proc[p] EXCEPT !.pc = "scanning", !.lost = FALSE]
    <2>1. proc' = [proc EXCEPT ![p] = k] /\ excused' = excused
      BY <1>9 DEF WriteRow, Continue
    <2>2. /\ k \in Process /\ k.pc = "scanning" /\ k.op = "rebuild" /\ k.id = i
          /\ k.value = v /\ k.lost = FALSE /\ k.alone = proc[p].alone
          /\ k.todo = proc[p].todo
      BY <1>3, <1>9 DEF Process, Phases
    <2> HIDE DEF k
    <2>3. ProcOK(k) /\ TouchedBy(k) = Ids /\ Touched(p) = Ids
      BY <1>2, <1>9, <2>2 DEF ProcOK, TouchedBy
    <2>4. Typed
      BY <1>6, <1>7, <2>1, Types DEF Typed
    <2>5. GoesOn(p) /\ ProcsBecome(p, k) /\ proc'[p] = k
      BY <1>2, <1>7, <2>1, <2>2, <2>3, GoFrame DEF NInv
    <2>6. ASSUME NEW id \in Ids, id \notin excused \/ proc[p].alone
          PROVE  PhaseOK(k, id, file'[id], index'[id])
      <3>1. CASE id = i
        BY <1>3, <1>6, <1>8, <2>2, <2>6, <3>1 DEF PhaseOK, RebuildOK
      <3>2. CASE id # i
        <4>1. RebuildOK(proc[p], id, file[id], index[id])
          BY <1>2, <1>9, <2>3, <2>6 DEF PhaseInv, PhaseOK
        <4>. QED  BY <1>1, <1>6, <2>2, <3>2, <4>1 DEF PhaseOK, RebuildOK
      <3>. QED  BY <3>1, <3>2
    <2>. QED  BY <2>1, <2>2, <2>3, <2>4, <2>5, <2>6, Kept DEF Working
  <1>10. CASE proc[p].op # "rebuild"
    <2>1. /\ proc' = [proc EXCEPT ![p] = Idle]
          /\ excused' = IF proc[p].alone THEN excused \ {i} ELSE excused
      BY <1>10 DEF WriteRow, Return, Continue, Settle
    <2>2. Touched(p) = {i}
      BY <1>2, <1>3, <1>10 DEF TouchedBy
    <2>3. Typed
      BY <1>6, <1>7, <2>1, Types DEF Typed
    <2>4. GoesOn(p) /\ ProcsBecome(p, Idle)
      BY <1>2, <1>3, <1>7, <2>1, <2>2, RestingOK, GoFrame DEF NInv, Working
    <2>5. i \notin excused' => index'[i] = RowOf(file'[i])
      BY <1>6, <1>8, <2>1
    <2>. QED  BY <2>2, <2>3, <2>4, <2>5, RestingOK, Kept DEF Working
  <1>. QED  BY <1>9, <1>10

LEMMA UnindexKeeps ==
    ASSUME NInv, NEW p \in Procs, Unindex(p)
    PROVE  NInv'
  <1> DEFINE i == proc[p].id
  <1>1. proc[p].pc = "unindexing"
    BY DEF Unindex
  <1>2. ProcOK(proc[p]) /\ PhaseInv(p) /\ Busy(p)
    BY <1>1, AtWork
  <1>3. proc[p].op = "delete" /\ i \in Ids /\ Touched(p) = {i}
    BY <1>1, <1>2 DEF ProcOK, Touched
  <1>4. /\ proc' = Disown([proc EXCEPT ![p] = Idle], "projecting", i)
        /\ index' = [index EXCEPT ![i] = None] /\ file' = file
        /\ excused' = IF proc[p].alone THEN excused \ {i} ELSE excused
    BY DEF Unindex, ContinueWithout, Settle
  <1>5. Typed /\ FilesElsewhere(Touched(p))
    BY <1>3, <1>4, Types DEF Typed, FilesElsewhere
  <1>6. GoesOn(p) /\ ProcsBecome(p, Idle)
    <2>1. \E phase \in Open, id \in Touched(p) :
            proc' = Disown([proc EXCEPT ![p] = Idle], phase, id)
      BY <1>3, <1>4 DEF Open
    <2>. QED  BY <1>2, <1>3, <1>4, <1>5, <2>1, RestingOK, GoFrame DEF NInv, Working
  <1>7. i \notin excused' => index'[i] = RowOf(file'[i])
    <2>1. i \notin excused \/ proc[p].alone => file[i] = None
      BY <1>1, <1>2, <1>3 DEF PhaseInv, PhaseOK, RecordOK
    <2>. QED  BY <1>3, <1>4, <2>1, Types DEF RowOf
  <1>. QED  BY <1>3, <1>5, <1>6, <1>7, RestingOK, Kept DEF Working

LEMMA ClearRowKeeps ==
    ASSUME NInv, NEW p \in Procs, NEW i \in Ids, ClearRow(p, i)
    PROVE  NInv'
  <1>1. proc[p].pc = "clearing" /\ i \in proc[p].todo
    BY DEF ClearRow
  <1>2. /\ ProcOK(proc[p]) /\ PhaseInv(p) /\ Busy(p)
        /\ Touched(p) = TouchedBy(proc[p])
    BY <1>1, AtWork
  <1>3. /\ proc[p] \in Process /\ proc[p].op \in {"rebuild", "wipe"}
        /\ Touched(p) = Ids /\ proc[p].lost = FALSE
    BY <1>1, <1>2 DEF ProcOK, TouchedBy, Process, Open
  <1>4. /\ index' = [index EXCEPT ![i] = None] /\ file' = file
        /\ excused' = IF proc[p].op = "wipe" THEN excused \cup {i} ELSE excused
    BY DEF ClearRow
  <1>5. Typed /\ FilesElsewhere(Touched(p))
    BY <1>3, <1>4, Types DEF Typed, FilesElsewhere
  <1>6. \A id \in Ids : proc[p].op = "wipe" /\ id \notin excused' => index'[id] = RowOf(file'[id])
    BY <1>2, <1>3, <1>4 DEF PhaseInv
  <1>7. CASE proc[p].op = "wipe" /\ index[i] = None
    <2>1. proc' = [proc EXCEPT ![p] = Idle]
      BY <1>7 DEF ClearRow, Return, Continue
    <2>2. GoesOn(p) /\ ProcsBecome(p, Idle)
      BY <1>2, <1>4, <1>5, <2>1, RestingOK, GoFrame DEF NInv, Working
    <2>. QED  BY <1>3, <1>5, <1>6, <1>7, <2>2, RestingOK, Kept DEF Working
  <1>8. CASE ~(proc[p].op = "wipe" /\ index[i] = None)
    <2> DEFINE k == [proc[p] EXCEPT !.todo = @ \ {i}]
    <2>1. proc' = Disown([proc EXCEPT ![p] = k], "projecting", i)
      BY <1>8 DEF ClearRow, ContinueWithout
    <2>2. /\ k \in Process /\ k.pc = "clearing" /\ k.op = proc[p].op /\ k.id = proc[p].id
          /\ k.value = proc[p].value /\ k.lost = FALSE /\ k.alone = proc[p].alone
          /\ k.todo = proc[p].todo \ {i}
      BY <1>1, <1>3 DEF Process
    <2> HIDE DEF k
    <2>3. ProcOK(k) /\ TouchedBy(k) = Ids
      BY <1>2, <1>3, <2>2 DEF ProcOK, TouchedBy
    <2>4. GoesOn(p) /\ ProcsBecome(p, k) /\ proc'[p].alone = proc[p].alone
      <3>1. \E phase \in Open, id \in Touched(p) :
              proc' = Disown([proc EXCEPT ![p] = k], phase, id)
        BY <1>3, <2>1 DEF Open
      <3>. QED  BY <1>2, <1>3, <1>4, <1>5, <2>2, <2>3, <3>1, GoFrame DEF NInv
    <2>5. ASSUME NEW id \in Ids, id \notin excused' \/ proc[p].alone, proc[p].op = "rebuild"
          PROVE  RebuildOK(proc'[p], id, file'[id], index'[id])
      <3>1. RebuildOK(proc[p], id, file[id], index[id])
        BY <1>2, <1>3, <1>4, <2>5 DEF PhaseInv, PhaseOK
      <3>2. proc'[p].pc = "clearing" /\ proc'[p].todo = proc[p].todo \ {i}
        BY <2>2, <2>4 DEF ProcsBecome, Same
      <3>. QED  BY <1>1, <1>4, <3>1, <3>2, Types DEF RebuildOK
    <2>6. ASSUME NEW id \in Ids, id \notin excused' \/ proc[p].alone
          PROVE  PhaseOK(proc'[p], id, file'[id], index'[id])
      BY <1>3, <2>2, <2>4, <2>5, <2>6 DEF PhaseOK, ProcsBecome, Same
    <2>. QED  BY <1>3, <1>5, <1>6, <2>2, <2>3, <2>4, <2>6, Kept DEF Working
  <1>. QED  BY <1>7, <1>8

LEMMA ListRecordFilesKeeps ==
    ASSUME NInv, NEW p \in Procs, ListRecordFiles(p)
    PROVE  NInv'
  <1>1. proc[p].pc = "clearing" /\ proc[p].todo = {}
    BY DEF ListRecordFiles
  <1>2. /\ ProcOK(proc[p]) /\ PhaseInv(p) /\ Busy(p)
        /\ Touched(p) = TouchedBy(proc[p])
    BY <1>1, AtWork
  <1>3. /\ proc[p] \in Process /\ proc[p].op \in {"rebuild", "wipe"}
        /\ Touched(p) = Ids /\ proc[p].lost = FALSE
    BY <1>1, <1>2 DEF ProcOK, TouchedBy, Process, Open
  <1>4. index' = index /\ file' = file /\ excused' = excused
    BY DEF ListRecordFiles
  <1>5. Typed /\ FilesElsewhere(Touched(p))
    BY <1>4, Types DEF Typed, FilesElsewhere
  <1>6. \A id \in Ids : proc[p].op = "wipe" /\ id \notin excused' => index'[id] = RowOf(file'[id])
    BY <1>2, <1>3, <1>4 DEF PhaseInv
  <1>7. CASE proc[p].op = "wipe" /\ Present(index) # {}
    <2>1. proc' = [proc EXCEPT ![p] = Idle]
      BY <1>7 DEF ListRecordFiles, Return, Continue
    <2>2. GoesOn(p) /\ ProcsBecome(p, Idle)
      BY <1>2, <1>4, <1>5, <2>1, RestingOK, GoFrame DEF NInv, Working
    <2>. QED  BY <1>3, <1>5, <1>6, <1>7, <2>2, RestingOK, Kept DEF Working
  <1>8. CASE ~(proc[p].op = "wipe" /\ Present(index) # {})
    <2> DEFINE pc == IF proc[p].op = "wipe" THEN "removing" ELSE "scanning"
               k == [proc[p] EXCEPT !.todo = Present(file), !.pc = pc]
    <2>1. proc' = [proc EXCEPT ![p] = k]
      BY <1>8 DEF ListRecordFiles, Continue
    <2>2. pc \in Phases /\ Present(file) \in SUBSET Ids
      BY DEF Phases, Present
    <2>3. /\ k \in Process /\ k.pc = pc /\ k.op = proc[p].op /\ k.id = proc[p].id
          /\ k.value = proc[p].value /\ k.lost = FALSE /\ k.alone = proc[p].alone
          /\ k.todo = Present(file)
      BY <1>1, <1>3, <2>2 DEF Process
    <2> HIDE DEF k
    <2>4. ProcOK(k) /\ TouchedBy(k) = Ids /\ Working(k) /\ k.alone = proc[p].alone
      BY <1>2, <1>3, <2>3 DEF ProcOK, TouchedBy, Working
    <2>5. GoesOn(p) /\ ProcsBecome(p, k) /\ proc'[p] = k
      <3>1. TypeInv /\ ProcOK(k) /\ Busy(p) /\ FilesElsewhere(Touched(p))
        BY <1>2, <1>5, <2>4 DEF NInv
      <3>2. TouchedBy(k) \subseteq Touched(p) /\ excused \ excused' \subseteq Touched(p)
            /\ excused \subseteq excused'
        BY <1>3, <1>4, <2>4
      <3>. QED  BY <2>1, <2>4, <3>1, <3>2, GoFrame
    <2>6. ASSUME NEW id \in Ids, id \notin excused \/ proc[p].alone, proc[p].op = "rebuild"
          PROVE  RebuildOK(k, id, file'[id], index'[id])
      <3>1. index[id] = None
        BY <1>1, <1>2, <1>3, <2>6 DEF PhaseInv, PhaseOK, RebuildOK
      <3>. QED  BY <1>4, <2>3, <2>6, <3>1 DEF RebuildOK, RowOf, Present
    <2>7. ASSUME NEW id \in Ids, id \notin excused \/ proc[p].alone
          PROVE  PhaseOK(k, id, file'[id], index'[id])
      BY <1>3, <2>3, <2>6, <2>7 DEF PhaseOK
    <2>. QED  BY <1>3, <1>4, <1>5, <1>6, <2>3, <2>4, <2>5, <2>7, Kept
  <1>. QED  BY <1>7, <1>8

LEMMA ScanRecordKeeps ==
    ASSUME NInv, NEW p \in Procs, NEW i \in Ids, ScanRecord(p, i)
    PROVE  NInv'
  <1>1. proc[p].pc = "scanning" /\ i \in proc[p].todo
    BY DEF ScanRecord
  <1>2. /\ ProcOK(proc[p]) /\ PhaseInv(p) /\ Busy(p)
        /\ Touched(p) = TouchedBy(proc[p])
    BY <1>1, AtWork
  <1>3. /\ proc[p] \in Process /\ proc[p].op = "rebuild"
        /\ Touched(p) = Ids /\ proc[p].lost = FALSE
    BY <1>1, <1>2 DEF ProcOK, TouchedBy, Process, Open
  <1>4. index' = index /\ file' = file
    BY DEF ScanRecord
  <1>5. CASE file[i] \notin Record
    BY <1>2, <1>3, <1>4, <1>5, Types, RestingOK, EndExcused
       DEF ScanRecord, Return, Continue, Working
  <1>6. CASE file[i] \in Record
    <2> DEFINE v == file[i]
               k == [proc[p] EXCEPT !.pc = "indexing", !.id = i, !.value = v,
                                    !.todo = @ \ {i}]
    <2>1. proc' = [proc EXCEPT ![p] = k] /\ excused' = excused
      BY <1>6 DEF ScanRecord, Continue
    <2>2. /\ k \in Process /\ k.pc = "indexing" /\ k.op = "rebuild" /\ k.id = i
          /\ k.value = v /\ k.lost = FALSE /\ k.alone = proc[p].alone
          /\ k.todo = proc[p].todo \ {i}
      BY <1>3, <1>6 DEF Process, Phases
    <2> HIDE DEF k
    <2>3. ProcOK(k) /\ TouchedBy(k) = Ids /\ Working(k)
      BY <1>6, <2>2 DEF ProcOK, TouchedBy, Working
    <2>4. Typed /\ FilesElsewhere(Touched(p))
      BY <1>4, <2>1, Types DEF Typed, FilesElsewhere
    <2>5. GoesOn(p) /\ ProcsBecome(p, k) /\ proc'[p] = k
      <3>1. TypeInv /\ k.alone = proc[p].alone
        BY <2>2 DEF NInv
      <3>2. TouchedBy(k) \subseteq Touched(p) /\ excused \ excused' \subseteq Touched(p)
            /\ excused \subseteq excused'
        BY <1>3, <2>1, <2>3
      <3>. QED  BY <1>2, <2>1, <2>3, <2>4, <3>1, <3>2, GoFrame
    <2>6. ASSUME NEW id \in Ids, id \notin excused \/ proc[p].alone
          PROVE  PhaseOK(k, id, file'[id], index'[id])
      <3>1. RebuildOK(proc[p], id, file[id], index[id])
        BY <1>2, <1>3, <2>6 DEF PhaseInv, PhaseOK
      <3>. QED  BY <1>1, <1>4, <2>2, <3>1 DEF PhaseOK, RebuildOK, RecordOK, Open
    <2>. QED  BY <1>3, <2>1, <2>2, <2>3, <2>4, <2>5, <2>6, Kept
  <1>. QED  BY <1>5, <1>6

LEMMA FinishRebuildKeeps ==
    ASSUME NInv, NEW p \in Procs, FinishRebuild(p)
    PROVE  NInv' /\ (proc[p].alone => \A id \in Ids : index'[id] = RowOf(file'[id]))
  <1>1. proc[p].pc = "scanning" /\ proc[p].todo = {}
    BY DEF FinishRebuild
  <1>2. /\ ProcOK(proc[p]) /\ PhaseInv(p) /\ Busy(p)
        /\ Touched(p) = TouchedBy(proc[p])
    BY <1>1, AtWork
  <1>3. proc[p].op = "rebuild" /\ Touched(p) = Ids
    BY <1>1, <1>2 DEF ProcOK, TouchedBy
  <1>4. /\ index' = index /\ file' = file /\ proc' = [proc EXCEPT ![p] = Idle]
        /\ excused' = IF proc[p].alone THEN {} ELSE excused
    BY DEF FinishRebuild, Return, Continue
  <1>5. Typed /\ FilesElsewhere(Touched(p))
    BY <1>4, Types DEF Typed, FilesElsewhere
  <1>6. GoesOn(p) /\ ProcsBecome(p, Idle)
    <2>1. excused \ excused' \subseteq Touched(p)
          /\ (excused \subseteq excused' \/ proc[p].alone)
      BY <1>3, <1>4, Types
    <2>. QED  BY <1>2, <1>4, <1>5, <2>1, RestingOK, GoFrame DEF NInv, Working
  <1>7. ASSUME NEW id \in Ids, id \notin excused \/ proc[p].alone
        PROVE  index'[id] = RowOf(file'[id])
    BY <1>1, <1>2, <1>3, <1>4, <1>7 DEF PhaseInv, PhaseOK, RebuildOK
  <1>8. \A id \in Ids : id \notin excused' => index'[id] = RowOf(file'[id])
    BY <1>4, <1>7
  <1>9. NInv'
    BY <1>3, <1>5, <1>6, <1>8, RestingOK, Kept DEF Working
  <1>. QED  BY <1>7, <1>9

LEMMA RemoveRecordKeeps ==
    ASSUME NInv, NEW p \in Procs, NEW i \in Ids, RemoveRecord(p, i)
    PROVE  NInv'
  <1>1. proc[p].pc = "removing" /\ i \in proc[p].todo
    BY DEF RemoveRecord
  <1>2. /\ ProcOK(proc[p]) /\ PhaseInv(p) /\ Busy(p)
        /\ Touched(p) = TouchedBy(proc[p])
    BY <1>1, AtWork
  <1>3. /\ proc[p] \in Process /\ proc[p].op \in {"reset", "wipe"}
        /\ Touched(p) = Ids /\ proc[p].lost = FALSE
    BY <1>1, <1>2 DEF ProcOK, TouchedBy, Process, Open
  <1>4. /\ file' = [file EXCEPT ![i] = None] /\ index' = index
        /\ excused' = excused \cup {i}
    BY DEF RemoveRecord
  <1>5. Typed /\ FilesElsewhere(Touched(p))
    BY <1>3, <1>4, Types DEF Typed, FilesElsewhere
  <1>6. \A id \in Ids : id \notin excused' => index'[id] = RowOf(file'[id])
    BY <1>2, <1>3, <1>4 DEF PhaseInv
  <1>7. CASE file[i] = None
    <2>1. proc' = [proc EXCEPT ![p] = Idle]
      BY <1>7 DEF RemoveRecord, Return, Continue
    <2>2. GoesOn(p) /\ ProcsBecome(p, Idle)
      BY <1>2, <1>4, <1>5, <2>1, RestingOK, GoFrame DEF NInv, Working
    <2>. QED  BY <1>3, <1>5, <1>6, <2>2, RestingOK, Kept DEF Working
  <1>8. CASE file[i] # None
    <2> DEFINE k == [proc[p] EXCEPT !.todo = @ \ {i}]
    <2>1. proc' = Disown([proc EXCEPT ![p] = k], "writing", i)
      BY <1>8 DEF RemoveRecord, ContinueWithout
    <2>2. /\ k \in Process /\ k.pc = "removing" /\ k.op = proc[p].op /\ k.id = proc[p].id
          /\ k.value = proc[p].value /\ k.lost = FALSE /\ k.alone = proc[p].alone
      BY <1>1, <1>3 DEF Process
    <2> HIDE DEF k
    <2>3. ProcOK(k) /\ TouchedBy(k) = Ids /\ Working(k)
      BY <1>2, <1>3, <2>2 DEF ProcOK, TouchedBy, Working
    <2>4. GoesOn(p) /\ ProcsBecome(p, k)
      <3>1. \E phase \in Open, id \in Touched(p) :
              proc' = Disown([proc EXCEPT ![p] = k], phase, id)
        BY <1>3, <2>1 DEF Open
      <3>2. TouchedBy(k) \subseteq Touched(p) /\ excused \subseteq excused'
        BY <1>3, <1>4, <2>3
      <3>. QED  BY <1>2, <1>5, <2>2, <2>3, <3>1, <3>2, GoFrame DEF NInv
    <2>5. \A id \in Ids : PhaseOK(proc'[p], id, file'[id], index'[id])
      BY <1>3, <2>2, <2>4 DEF PhaseOK, ProcsBecome, Same
    <2>. QED  BY <1>3, <1>5, <1>6, <2>2, <2>3, <2>4, <2>5, Kept
  <1>. QED  BY <1>7, <1>8

LEMMA FinishRemovingKeeps ==
    ASSUME NInv, NEW p \in Procs, FinishRemoving(p)
    PROVE  NInv'
  <1> DEFINE i == proc[p].id
             k == [proc[p] EXCEPT !.pc = "truncating", !.op = "import"]
             ends == i = None \/ (proc[p].op = "wipe" /\ Present(file) # {})
  <1>1. proc[p].pc = "removing"
    BY DEF FinishRemoving
  <1>2. /\ ProcOK(proc[p]) /\ PhaseInv(p) /\ Busy(p)
        /\ Touched(p) = TouchedBy(proc[p])
    BY <1>1, AtWork
  <1>3. /\ proc[p] \in Process /\ proc[p].op \in {"reset", "wipe"} /\ i \in Ids \cup {None}
        /\ Touched(p) = Ids /\ proc[p].lost = FALSE
        /\ (i # None => proc[p].value \in Record)
    BY <1>1, <1>2 DEF ProcOK, TouchedBy, Process, Open
  <1>4. file' = file /\ index' = index /\ excused' = excused \cup ({i} \cap Ids)
    BY DEF FinishRemoving
  <1>5. Typed /\ FilesElsewhere(Touched(p))
    BY <1>3, <1>4, Types DEF Typed, FilesElsewhere
  <1>6. \A id \in Ids : id \notin excused' => index'[id] = RowOf(file'[id])
    BY <1>2, <1>3, <1>4 DEF PhaseInv
  <1>7. CASE ends
    <2>1. proc' = [proc EXCEPT ![p] = Idle]
      BY <1>7 DEF FinishRemoving, Return, Continue
    <2>2. GoesOn(p) /\ ProcsBecome(p, Idle)
      BY <1>2, <1>4, <1>5, <2>1, RestingOK, GoFrame DEF NInv, Working
    <2>. QED  BY <1>3, <1>5, <1>6, <2>2, RestingOK, Kept DEF Working
  <1>8. CASE ~ends
    <2>1. proc' = [proc EXCEPT ![p] = k]
      BY <1>8 DEF FinishRemoving, Continue
    <2>2. /\ k \in Process /\ k.pc = "truncating" /\ k.op = "import" /\ k.id = i
          /\ k.value = proc[p].value /\ k.lost = FALSE /\ k.alone = proc[p].alone
      BY <1>3 DEF Process, Phases, Ops
    <2> HIDE DEF k
    <2>3. ProcOK(k) /\ TouchedBy(k) = {i} /\ Working(k) /\ i \in Ids
      BY <1>3, <1>8, <2>2 DEF ProcOK, TouchedBy, Working
    <2>4. GoesOn(p) /\ ProcsBecome(p, k)
      BY <1>2, <1>3, <1>4, <1>5, <2>1, <2>2, <2>3, GoFrame DEF NInv
    <2>5. PhaseOK(proc'[p], i, file'[i], index'[i]) /\ i \in excused'
      BY <1>4, <2>2, <2>3, <2>4 DEF PhaseOK, ProcsBecome, Same
    <2>. QED  BY <1>3, <1>5, <1>6, <2>2, <2>3, <2>4, <2>5, Kept
  <1>. QED  BY <1>7, <1>8

-----------------------------------------------------------------------------
(* The theorems *)

LEMMA NInvInit ==
    Init => NInv
  <1> SUFFICES ASSUME Init PROVE NInv
    OBVIOUS
  <1>1. \A p \in Procs : proc[p] = Idle /\ ~Busy(p)
    BY RestingOK DEF Init, Busy
  <1>2. TypeInv
    BY <1>1, RestingOK DEF Init, TypeInv, TypeOK, ProcOK
  <1>3. DInv
    BY <1>1 DEF Init, DInv, AloneInv, SoleInv, RestInv, RowOf
  <1>. QED  BY <1>2, <1>3 DEF NInv

LEMMA NInvStep ==
    NInv /\ [Next]_vars => NInv'
  <1> SUFFICES ASSUME NInv, [Next]_vars PROVE NInv'
    OBVIOUS
  <1>1. ASSUME NEW p \in Procs, NEW id \in Ids, NEW r \in Record,
               Create(p, id, r) \/ Import(p, id, r)
        PROVE  NInv'
    BY <1>1, CreateKeeps, ImportKeeps
  <1>2. ASSUME NEW p \in Procs, NEW id \in Ids, NEW t \in Titles,
               NEW b \in Bodies \cup {NoBody}, NEW c \in BOOLEAN, Update(p, id, t, b, c)
        PROVE  NInv'
    BY <1>2, UpdateKeeps
  <1>3. ASSUME NEW p \in Procs, NEW id \in Ids,
               Delete(p, id) \/ ClearRow(p, id) \/ ScanRecord(p, id) \/ RemoveRecord(p, id)
        PROVE  NInv'
    BY <1>3, DeleteKeeps, ClearRowKeeps, ScanRecordKeeps, RemoveRecordKeeps
  <1>4. ASSUME NEW p \in Procs,
               \/ TruncateRecord(p) \/ WriteRecord(p) \/ PutRow(p) \/ WriteRow(p) \/ Unindex(p)
               \/ Rebuild(p) \/ ListRecordFiles(p) \/ FinishRebuild(p) \/ FinishRemoving(p)
               \/ Crash(p)
        PROVE  NInv'
    BY <1>4, TruncateRecordKeeps, WriteRecordKeeps, PutRowKeeps, WriteRowKeeps, UnindexKeeps,
       RebuildKeeps, ListRecordFilesKeeps, FinishRebuildKeeps, FinishRemovingKeeps, CrashKeeps
  <1>5. ASSUME NEW p \in Procs,
               Reset(p, None, None) \/ \E id \in Ids, r \in Record : Reset(p, id, r)
        PROVE  NInv'
    <2>1. PICK id \in Ids \cup {None}, r \in Record \cup {None} :
            (id # None => r \in Record) /\ Reset(p, id, r)
      BY <1>5
    <2>. QED  BY <2>1, ResetRecordsKeeps, ResetRootKeeps DEF Reset
  <1>6. CASE UNCHANGED vars
    BY <1>6 DEF vars, NInv, TypeInv, TypeOK, DInv, AloneInv, SoleInv, RestInv, PhaseInv,
       Busy, Touched
  <1>. QED  BY <1>1, <1>2, <1>3, <1>4, <1>5, <1>6 DEF Next

LEMMA NInvAlways == Spec => []NInv
  BY NInvInit, NInvStep, PTL DEF Spec

\* Every process runs one of the app's commands, at a phase and over an id and a
\* value of that command's, and a file or a row holds a whole record or projection,
\* a torn one, or is not there.
THEOREM TypeCorrect == Spec => []TypeOK
  <1>1. NInv => TypeOK
    BY DEF NInv, TypeInv
  <1>. QED  BY <1>1, NInvAlways, PTL

\* Whatever number of processes create, update, delete, import, reset and rebuild
\* over one root, and die at it: an id that nobody has in hand agrees with its row,
\* unless a death, overlapping commands, a refused key, an import or a reset has
\* excused it.
THEOREM DriftIsExcused == Spec => []DriftHasACause
  <1>1. NInv => DriftHasACause
    BY DEF NInv, DInv, RestInv, DriftHasACause, Agrees, Wanted, RowOf
  <1>. QED  BY <1>1, NInvAlways, PTL

\* A command that starts leaves the phases of the others as they were.
LEMMA OthersPhase ==
    ASSUME NInv, NEW q \in Procs, NEW p \in Procs \ {q}, NEW k \in Process,
           \/ proc' = Started(q, k)
           \/ \E phase \in Open, i \in Ids : proc' = Disown(Started(q, k), phase, i)
    PROVE  proc'[p].pc = proc[p].pc
  <1> DEFINE s == Started(q, k)
  <1>1. s \in [Procs -> Process] /\ s[p].pc = proc[p].pc
    BY StartedFields DEF NInv, Same
  <1> HIDE DEF s
  <1>2. CASE proc' = s
    BY <1>1, <1>2
  <1>3. CASE \E phase \in Open, i \in Ids : proc' = Disown(s, phase, i)
    BY <1>1, <1>3, DisownFields DEF Same
  <1>. QED  BY <1>2, <1>3 DEF s

\* A command that has met no other returns by a step of its own.
LEMMA ReturnsItself ==
    ASSUME NInv, Next, NEW p \in Procs, Busy(p), proc[p].alone,
           proc'[p].pc = "idle"
    PROVE  \/ \E id \in Ids : ClearRow(p, id) \/ ScanRecord(p, id) \/ RemoveRecord(p, id)
           \/ TruncateRecord(p) \/ WriteRecord(p) \/ PutRow(p) \/ WriteRow(p) \/ Unindex(p)
           \/ ListRecordFiles(p) \/ FinishRebuild(p) \/ FinishRemoving(p) \/ Crash(p)
  <1>1. \A q \in Procs \ {p} : ~Busy(q)
    BY DEF NInv, DInv, AloneInv
  <1>2. proc[p].pc \notin {"idle", "dead"}
    BY DEF Busy
  <1>3. ASSUME NEW q \in Procs, NEW k \in Process, ~Busy(q),
               \/ proc' = Started(q, k)
               \/ \E phase \in Open, i \in Ids : proc' = Disown(Started(q, k), phase, i)
        PROVE  FALSE
    <2>1. q # p
      BY <1>3
    <2>. QED  BY <1>2, <1>3, <2>1, OthersPhase
  <1>4. ASSUME NEW q \in Procs, NEW id \in Ids, NEW r \in Record,
               Create(q, id, r) \/ Import(q, id, r)
        PROVE  FALSE
    <2>1. \A pc \in Phases, op \in Ops :
            [Idle EXCEPT !.pc = pc, !.op = op, !.id = id, !.value = r] \in Process
      BY IdleFields DEF Process
    <2>. QED  BY <1>3, <1>4, <2>1 DEF Create, Import, Start, Phases, Ops
  <1>5. ASSUME NEW q \in Procs, NEW id \in Ids, NEW t \in Titles,
               NEW b \in Bodies \cup {NoBody}, NEW c \in BOOLEAN, Update(q, id, t, b, c)
        PROVE  FALSE
    <2> DEFINE new == Edited(file[id], t, b, c)
    <2>1. new \in Record
      BY <1>5 DEF Update, Edited, Record
    <2> HIDE DEF new
    <2>2. [Idle EXCEPT !.pc = "truncating", !.op = "update", !.id = id, !.value = new]
            \in Process
      BY <2>1, IdleFields DEF Process, Phases, Ops
    <2>. QED  BY <1>3, <1>5, <2>2 DEF Update, Start, new
  <1>6. ASSUME NEW q \in Procs, NEW id \in Ids, Delete(q, id)
        PROVE  FALSE
    <2>1. [Idle EXCEPT !.pc = "unindexing", !.op = "delete", !.id = id] \in Process
      BY IdleFields DEF Process, Phases, Ops
    <2>. QED  BY <1>3, <1>6, <2>1 DEF Delete, Open
  <1>7. ASSUME NEW q \in Procs, Rebuild(q)
        PROVE  FALSE
    <2>1. [Idle EXCEPT !.pc = "clearing", !.op = "rebuild", !.todo = Present(index)] \in Process
      BY IdleFields DEF Process, Phases, Ops, Present
    <2>. QED  BY <1>3, <1>7, <2>1 DEF Rebuild, Start
  <1>8. ASSUME NEW q \in Procs, NEW id \in Ids \cup {None}, NEW r \in Record \cup {None},
               Reset(q, id, r)
        PROVE  FALSE
    <2>1. \A pc \in Phases, op \in Ops, todo \in SUBSET Ids :
            [Idle EXCEPT !.pc = pc, !.op = op, !.todo = todo, !.id = id, !.value = r] \in Process
      BY IdleFields DEF Process
    <2>2. Present(file) \in SUBSET Ids /\ Present(index) \in SUBSET Ids
      BY DEF Present
    <2>. QED  BY <1>3, <1>8, <2>1, <2>2 DEF Reset, ResetRecords, ResetRoot, Start, Phases, Ops
  <1>9. ASSUME NEW q \in Procs \ {p}
        PROVE  /\ ~TruncateRecord(q) /\ ~WriteRecord(q) /\ ~PutRow(q) /\ ~WriteRow(q)
               /\ ~Unindex(q) /\ ~ListRecordFiles(q) /\ ~FinishRebuild(q) /\ ~FinishRemoving(q)
               /\ ~Crash(q)
               /\ \A id \in Ids : ~ClearRow(q, id) /\ ~ScanRecord(q, id) /\ ~RemoveRecord(q, id)
    BY <1>1 DEF Busy, TruncateRecord, WriteRecord, PutRow, WriteRow, Unindex, ListRecordFiles,
       FinishRebuild, FinishRemoving, Crash, ClearRow, ScanRecord, RemoveRecord
  <1>. QED  BY <1>4, <1>5, <1>6, <1>7, <1>8, <1>9 DEF Next

\* Such a rebuild returns only where it is through.
LEMMA RebuildReturnsWhole ==
    ASSUME BadIds = {}, NInv, Next, NEW p \in Procs, RebuildReturns(p)
    PROVE  FinishRebuild(p)
  <1>1. Busy(p) /\ proc[p].op = "rebuild" /\ proc[p].alone /\ proc'[p].pc = "idle"
        /\ \A id \in Ids : file[id] # Torn
    BY DEF RebuildReturns
  <1>2. proc \in [Procs -> Process] /\ ProcOK(proc[p]) /\ PhaseInv(p) /\ Touched(p) = Ids
    BY <1>1, Types DEF NInv, DInv, Touched
  <1>3. \A k : proc' = [proc EXCEPT ![p] = k] => proc'[p] = k
    BY <1>2
  <1>4. ~TruncateRecord(p) /\ ~WriteRecord(p) /\ ~Unindex(p) /\ ~FinishRemoving(p)
        /\ \A id \in Ids : ~RemoveRecord(p, id)
    BY <1>1, <1>2 DEF ProcOK, TruncateRecord, WriteRecord, Unindex, FinishRemoving, RemoveRecord
  <1>5. \A pc : [proc[p] EXCEPT !.pc = pc].pc = pc
    BY <1>2 DEF Process
  <1>6. ~PutRow(p)
    <2>1. ASSUME PutRow(p) PROVE proc'[p].pc = "projecting"
      BY <1>2, <1>3, <1>5, <2>1 DEF PutRow, Continue
    <2>. QED  BY <1>1, <2>1
  <1>7. ~WriteRow(p)
    <2>1. ASSUME WriteRow(p) PROVE proc'[p] = [proc[p] EXCEPT !.pc = "scanning", !.lost = FALSE]
      BY <1>1, <1>3, <2>1 DEF WriteRow, Continue
    <2>. QED  BY <1>1, <1>2, <2>1 DEF Process
  <1>8. ~ListRecordFiles(p)
    <2>1. ASSUME ListRecordFiles(p)
          PROVE  proc'[p] = [proc[p] EXCEPT !.todo = Present(file), !.pc = "scanning"]
      BY <1>1, <1>3, <2>1 DEF ListRecordFiles, Continue
    <2>. QED  BY <1>1, <1>2, <2>1 DEF Process
  <1>9. ~Crash(p)
    BY <1>1, <1>3, RestingOK DEF Crash, Continue
  <1>10. ASSUME NEW id \in Ids PROVE ~ClearRow(p, id)
    <2> DEFINE k == [proc[p] EXCEPT !.todo = @ \ {id}]
               procs == [proc EXCEPT ![p] = k]
    <2>1. SUFFICES ASSUME ClearRow(p, id) PROVE FALSE
      OBVIOUS
    <2>2. proc' = Disown(procs, "projecting", id)
      BY <1>1, <2>1 DEF ClearRow, ContinueWithout
    <2>3. k \in Process /\ k.pc = "clearing"
      BY <1>2, <2>1 DEF ClearRow, Process
    <2> HIDE DEF k
    <2>4. procs \in [Procs -> Process] /\ procs[p] = k
      BY <1>2, <2>3
    <2> HIDE DEF procs
    <2>5. \A phase : Same(Disown(procs, phase, id)[p], procs[p])
      BY <2>4, DisownFields
    <2>6. proc'[p].pc = "clearing"
      BY <2>2, <2>3, <2>4, <2>5 DEF Same
    <2>. QED  BY <1>1, <2>6
  <1>11. ASSUME NEW id \in Ids PROVE ~ScanRecord(p, id)
    <2>1. SUFFICES ASSUME ScanRecord(p, id) PROVE FALSE
      OBVIOUS
    <2>2. proc[p].pc = "scanning" /\ id \in proc[p].todo
      BY <2>1 DEF ScanRecord
    <2>3. file[id] # None
      BY <1>1, <1>2, <2>2 DEF PhaseInv, PhaseOK, RebuildOK
    <2>4. file[id] \in Record
      BY <1>1, <2>3, Types
    <2>5. proc'[p] = [proc[p] EXCEPT !.pc = "indexing", !.id = id, !.value = file[id],
                                     !.todo = @ \ {id}]
      BY <1>3, <2>1, <2>4 DEF ScanRecord, Continue
    <2>. QED  BY <1>1, <1>2, <2>5 DEF Process
  <1>. QED  BY <1>1, <1>4, <1>6, <1>7, <1>8, <1>9, <1>10, <1>11, ReturnsItself

\* Where every id is a key, a rebuild that met no other command and no torn record
\* has every row agree with its record, whatever had drifted and from whatever cause.
THEOREM RebuildRepairsAll == BadIds = {} /\ Spec => RebuildRepairs
  <1> SUFFICES ASSUME BadIds = {} PROVE Spec => RebuildRepairs
    OBVIOUS
  <1>1. NInv /\ [Next]_vars =>
          [\A p \in Procs : RebuildReturns(p) => \A id \in Ids : Agrees(id)']_vars
    <2> SUFFICES ASSUME NInv, Next, NEW p \in Procs, RebuildReturns(p), NEW id \in Ids
                 PROVE  Agrees(id)'
      OBVIOUS
    <2>1. FinishRebuild(p) /\ proc[p].alone
      BY RebuildReturnsWhole DEF RebuildReturns
    <2>2. index'[id] = RowOf(file'[id])
      BY <2>1, FinishRebuildKeeps
    <2>. QED  BY <2>2 DEF Agrees, Wanted, RowOf
  <1>. QED  BY <1>1, NInvAlways, PTL DEF Spec, RebuildRepairs
=============================================================================
