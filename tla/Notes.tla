-------------------------------- MODULE Notes --------------------------------
(***************************************************************************)
(* The notes app's collection: one file per record, which is the truth,    *)
(* and the derived index beside it, one file per key                       *)
(* (example-apps/notes/engine/commands.go, dlc-platform/index).  Several   *)
(* native processes may each be running one command over the same root,    *)
(* and any of them may die.  Every file system call is a step; os.WriteFile *)
(* is two, since it truncates and then writes through the handle it has:   *)
(* what the name holds by then may be another process's, or nothing.       *)
(*                                                                         *)
(* A record is named by its id, which is the name of its file.  Ids are    *)
(* lower-case slugs, so two of them never differ by case only.             *)
(***************************************************************************)
CONSTANTS Procs,          \* native processes of the app
          Ids,            \* record ids
          BadIds,         \* ids that are no key: device names (validateKey)
          Titles, Bodies, \* what a record says; Bodies leaves the empty one out
          NoBody,         \* the empty body, and an update's "unchanged"
          Preview(_),     \* the first line of a body, capped
          None,           \* no such file
          Torn,           \* a file truncated and not yet written, or overwritten in part
          Crashes         \* TRUE: a process may die between two steps

ASSUME NotesAssumption ==
    /\ BadIds \subseteq Ids
    /\ NoBody \notin Bodies
    /\ Crashes \in BOOLEAN
    /\ Preview(NoBody) = NoBody

VARIABLES file,   \* file[id]: what records/<id>.json holds
          index,  \* index[id]: what .dlc-index/records/<id> holds
          proc    \* proc[p]: the command process p is running

\* Auxiliary: the ids whose projection may have drifted, for a cause the design
\* knows: a death, overlapping commands, a failed rebuild, or an import or a reset
\* that does not go through the app.  No code reads it.
VARIABLE excused

vars == <<file, index, proc, excused>>

Record == [title : Titles, body : Bodies \cup {NoBody}]

\* project(): what a list renders, and nothing more.
WholeRecord(r) == r
Project(r) == [title |-> r.title, preview |-> Preview(r.body)]
Row == [title : Titles, preview : {Preview(b) : b \in Bodies \cup {NoBody}}]

\* A file that is not there, or is torn, holds neither a record nor a row.
ASSUME NothingAssumption ==
    /\ {None, Torn} \cap (Record \cup Row) = {}
    /\ None \notin Ids \cup {Torn}

Present(dir) == {id \in Ids : dir[id] # None}

\* What the record's file says the index should hold of it.
Wanted(id) == IF file[id] = None THEN None
              ELSE IF file[id] = Torn THEN Torn ELSE Project(file[id])
Agrees(id) == index[id] = Wanted(id)

Ops == {"none", "create", "update", "delete", "rebuild", "import", "reset", "wipe"}
Phases == {"idle", "dead", "truncating", "writing", "indexing", "projecting", "unindexing",
           "clearing", "scanning", "removing"}

\* todo: what the loop at hand has left.  lost: the file that was opened has been
\* removed since.  alone: nobody else has run meanwhile.
Process == [pc : Phases, op : Ops, id : Ids \cup {None}, value : Record \cup {None},
            todo : SUBSET Ids, lost : BOOLEAN, alone : BOOLEAN]
Idle == [pc |-> "idle", op |-> "none", id |-> None, value |-> None,
         todo |-> {}, lost |-> FALSE, alone |-> TRUE]
Dead == [Idle EXCEPT !.pc = "dead"]

TypeOK ==
    /\ file \in [Ids -> Record \cup {None, Torn}]
    /\ index \in [Ids -> Row \cup {None, Torn}]
    /\ proc \in [Procs -> Process]
    /\ excused \subseteq Ids

Init ==
    /\ file = [id \in Ids |-> None]
    /\ index = [id \in Ids |-> None]
    /\ proc = [p \in Procs |-> Idle]
    /\ excused = {}

-----------------------------------------------------------------------------
(* Starting and ending a command *)

Busy(p) == proc[p].pc \notin {"idle", "dead"}
Touched(p) == IF proc[p].op \in {"rebuild", "reset", "wipe"} THEN Ids
              ELSE {proc[p].id} \cap Ids

\* Where two commands on one id overlap, the last writes of the two decide.
Overlapped(p, ids) == {id \in ids : \E q \in Procs : Busy(q) /\ id \in Touched(q)}

\* Removing a file leaves a process that has it open with a file of no name.
Disown(procs, phase, id) ==
    [q \in Procs |-> [procs[q] EXCEPT !.lost = @ \/ (procs[q].pc = phase /\ procs[q].id = id)]]

\* Process p, or a new one in its place, starts the command k.
Started(p, k) ==
    [q \in Procs |-> IF q = p THEN [k EXCEPT !.alone = \A r \in Procs : ~Busy(r)]
                     ELSE [proc[q] EXCEPT !.alone = ~Busy(q)]]
Start(p, k) == ~Busy(p) /\ proc' = Started(p, k)

\* Process p has removed a record or a row, and goes on with k.
ContinueWithout(p, k, phase, id) == proc' = Disown([proc EXCEPT ![p] = k], phase, id)
Continue(p, k) == proc' = [proc EXCEPT ![p] = k]

\* The bytes v are written through the handle of process p into a file that by now
\* holds old: over another's bytes they may leave its tail standing.
Written(p, old, v) ==
    IF proc[p].lost THEN {old} ELSE IF old = Torn THEN {v} ELSE {v, Torn}

\* The command returns, well or not.
Return(p) == Continue(p, Idle)

\* A command on one record that met no other has put that record's row right.
Settle(p) == excused' = IF proc[p].alone THEN excused \ {proc[p].id} ELSE excused

-----------------------------------------------------------------------------
(* create, update, delete: file first, index second, event last *)

\* handleCreateRecord(): the file is created, or truncated where there is one.
Create(p, id, r) ==
    /\ Start(p, [Idle EXCEPT !.pc = "writing", !.op = "create", !.id = id, !.value = r])
    /\ excused' = excused \cup Overlapped(p, {id})
    /\ file' = [file EXCEPT ![id] = Torn]
    /\ UNCHANGED index

\* Absent means unchanged; a body is emptied only on request.
Edited(r, title, body, clearBody) ==
    [title |-> title,
     body |-> IF clearBody THEN NoBody ELSE IF body = NoBody THEN r.body ELSE body]

\* handleUpdateRecord() reads the record.  One it cannot read is an error and one
\* it would not change is left alone: neither writes anything.
Update(p, id, title, body, clearBody) ==
    LET new == Edited(file[id], title, body, clearBody)
    IN  /\ file[id] \in Record
        /\ new # file[id]
        /\ Start(p, [Idle EXCEPT !.pc = "truncating", !.op = "update", !.id = id,
                                 !.value = new])
        /\ excused' = excused \cup Overlapped(p, {id})
        /\ UNCHANGED <<file, index>>

TruncateRecord(p) ==
    /\ proc[p].pc = "truncating"
    /\ file' = [file EXCEPT ![proc[p].id] = Torn]
    /\ Continue(p, [proc[p] EXCEPT !.pc = "writing"])
    /\ UNCHANGED <<index, excused>>

\* writeRecord() ends.  The app's own commands go on to the index; an import is
\* the platform's and knows of none.
WriteRecord(p) ==
    /\ proc[p].pc = "writing"
    /\ \E v \in Written(p, file[proc[p].id], proc[p].value) :
         file' = [file EXCEPT ![proc[p].id] = v]
    /\ IF proc[p].op = "import"
       THEN Return(p)
       ELSE Continue(p, [proc[p] EXCEPT !.pc = "indexing", !.lost = FALSE])
    /\ UNCHANGED <<index, excused>>

\* records.Put(): a bad key is refused.  The command fails with its record already
\* written; a rebuild stops with the index half built.
PutRow(p) ==
    LET k == proc[p]
    IN  /\ k.pc = "indexing"
        /\ IF k.id \in BadIds
           THEN /\ Return(p)
                /\ excused' = excused \cup Touched(p)
                /\ UNCHANGED index
           ELSE /\ index' = [index EXCEPT ![k.id] = Torn]
                /\ Continue(p, [k EXCEPT !.pc = "projecting"])
                /\ UNCHANGED excused
        /\ UNCHANGED file

\* The projection is written.  A create or an update announces itself and is done.
WriteRow(p) ==
    LET k == proc[p]
    IN  /\ k.pc = "projecting"
        /\ \E v \in Written(p, index[k.id], Project(k.value)) :
             index' = [index EXCEPT ![k.id] = v]
        /\ IF k.op = "rebuild"
           THEN Continue(p, [k EXCEPT !.pc = "scanning", !.lost = FALSE]) /\ UNCHANGED excused
           ELSE Return(p) /\ Settle(p)
        /\ UNCHANGED file

\* handleDeleteRecord(): the file goes, if there is one.
Delete(p, id) ==
    /\ ~Busy(p)
    /\ proc' = Disown(Started(p, [Idle EXCEPT !.pc = "unindexing", !.op = "delete",
                                              !.id = id]), "writing", id)
    /\ excused' = excused \cup Overlapped(p, {id})
    /\ file' = [file EXCEPT ![id] = None]
    /\ UNCHANGED index

\* records.Delete(), whether there was a file or not.
LeaveRow(p) ==
    /\ proc[p].pc = "unindexing"
    /\ Return(p)
    /\ Settle(p)
    /\ UNCHANGED <<file, index>>
Unindex(p) ==
    /\ proc[p].pc = "unindexing"
    /\ index' = [index EXCEPT ![proc[p].id] = None]
    /\ ContinueWithout(p, Idle, "projecting", proc[p].id)
    /\ Settle(p)
    /\ UNCHANGED file

-----------------------------------------------------------------------------
(* rebuild-index, import-fs and reset-fs *)

\* Rebuild(): Clear() lists the rows first.
MergeRebuild(p) ==
    /\ Start(p, [Idle EXCEPT !.pc = "clearing", !.op = "rebuild"])
    /\ excused' = excused \cup Overlapped(p, Ids)
    /\ UNCHANGED <<file, index>>
Rebuild(p) ==
    /\ Start(p, [Idle EXCEPT !.pc = "clearing", !.op = "rebuild", !.todo = Present(index)])
    /\ excused' = excused \cup Overlapped(p, Ids)
    /\ UNCHANGED <<file, index>>

\* The next row goes.  Clear() does not mind one that is gone; removeRecursive() does.
ClearRow(p, id) ==
    /\ proc[p].pc = "clearing"
    /\ id \in proc[p].todo
    /\ index' = [index EXCEPT ![id] = None]
    /\ IF proc[p].op = "wipe" /\ index[id] = None
       THEN Return(p)
       ELSE ContinueWithout(p, [proc[p] EXCEPT !.todo = @ \ {id}], "projecting", id)
    /\ excused' = IF proc[p].op = "wipe" THEN excused \cup {id} ELSE excused
    /\ UNCHANGED file

\* The rows are gone; the records are listed, to be scanned or to be removed.  A
\* wipe removes the index directory too, and fails where a row is back in it.
ListRecordFiles(p) ==
    /\ proc[p].pc = "clearing"
    /\ proc[p].todo = {}
    /\ IF proc[p].op = "wipe" /\ Present(index) # {}
       THEN Return(p)
       ELSE Continue(p, [proc[p] EXCEPT !.todo = Present(file),
                           !.pc = IF proc[p].op = "wipe" THEN "removing" ELSE "scanning"])
    /\ UNCHANGED <<file, index, excused>>

\* rebuildIndex() reads the next record.  One that cannot be read ends it.
ScanRecord(p, id) ==
    /\ proc[p].pc = "scanning"
    /\ id \in proc[p].todo
    /\ IF file[id] \in Record
       THEN /\ Continue(p, [proc[p] EXCEPT !.pc = "indexing", !.id = id,
                                           !.value = file[id], !.todo = @ \ {id}])
            /\ UNCHANGED excused
       ELSE /\ Return(p)
            /\ excused' = Ids
    /\ UNCHANGED <<file, index>>

\* With nobody else about, a finished rebuild has put right what had drifted.
FinishRebuild(p) ==
    /\ proc[p].pc = "scanning"
    /\ proc[p].todo = {}
    /\ Return(p)
    /\ excused' = IF proc[p].alone THEN {} ELSE excused
    /\ UNCHANGED <<file, index>>

\* import-fs of a bundle with one record, in MERGE mode.
Import(p, id, r) ==
    /\ Start(p, [Idle EXCEPT !.pc = "truncating", !.op = "import", !.id = id, !.value = r])
    /\ excused' = excused \cup {id}
    /\ UNCHANGED <<file, index>>

\* reset-fs, or the first half of import-fs in REPLACE mode, which goes on to write
\* its record: of the directory records, or of the root, whose index goes first.
ResetRecords(p, id, r) ==
    /\ Start(p, [Idle EXCEPT !.pc = "removing", !.op = "reset", !.todo = Present(file),
                             !.id = id, !.value = r])
    /\ excused' = excused \cup Overlapped(p, Ids)
    /\ UNCHANGED <<file, index>>

ResetRoot(p, id, r) ==
    /\ Start(p, [Idle EXCEPT !.pc = "clearing", !.op = "wipe", !.todo = Present(index),
                             !.id = id, !.value = r])
    /\ excused' = excused \cup Overlapped(p, Ids)
    /\ UNCHANGED <<file, index>>

Reset(p, id, r) == ResetRecords(p, id, r) \/ ResetRoot(p, id, r)

\* removeRecursive() fails on a file that another process has removed meanwhile.
RemoveRecord(p, id) ==
    /\ proc[p].pc = "removing"
    /\ id \in proc[p].todo
    /\ file' = [file EXCEPT ![id] = None]
    /\ IF file[id] = None THEN Return(p)
       ELSE ContinueWithout(p, [proc[p] EXCEPT !.todo = @ \ {id}], "writing", id)
    /\ excused' = excused \cup {id}
    /\ UNCHANGED index

\* All is removed: an import goes on to write.  A wipe removes the directory too,
\* and fails where a record is back in it.
FinishRemoving(p) ==
    LET k == proc[p]
    IN  /\ k.pc = "removing"
        /\ k.todo = {}
        /\ IF k.id = None \/ (k.op = "wipe" /\ Present(file) # {})
           THEN Return(p)
           ELSE Continue(p, [k EXCEPT !.pc = "truncating", !.op = "import"])
        /\ excused' = excused \cup ({k.id} \cap Ids)
        /\ UNCHANGED <<file, index>>

-----------------------------------------------------------------------------

\* The process dies where it stands.
Crash(p) ==
    /\ Crashes
    /\ Busy(p)
    /\ excused' = excused \cup Touched(p)
    /\ Continue(p, Dead)
    /\ UNCHANGED <<file, index>>

Next ==
    \E p \in Procs :
        \/ \E id \in Ids : \/ \E r \in Record : Create(p, id, r) \/ Import(p, id, r)
                           \/ \E t \in Titles, b \in Bodies \cup {NoBody}, c \in BOOLEAN :
                                 Update(p, id, t, b, c)
                           \/ Delete(p, id)
                           \/ ClearRow(p, id)
                           \/ ScanRecord(p, id)
                           \/ RemoveRecord(p, id)
        \/ TruncateRecord(p)
        \/ WriteRecord(p)
        \/ PutRow(p)
        \/ WriteRow(p)
        \/ Unindex(p)
        \/ Rebuild(p)
        \/ ListRecordFiles(p)
        \/ FinishRebuild(p)
        \/ Reset(p, None, None)
        \/ \E id \in Ids, r \in Record : Reset(p, id, r)
        \/ FinishRemoving(p)
        \/ Crash(p)

Spec == Init /\ [][Next]_vars

-----------------------------------------------------------------------------
(* Properties *)

\* "The maintained index equals the rebuilt index" (INDEX-PLAN.md D4), and two
\* processes with different ids cannot conflict (fileStore, store.go): an id that
\* no command has in hand, and that has met none of the causes of drift, has in
\* the index just what its record projects to.
DriftHasACause ==
    \A id \in Ids \ excused :
        (\A p \in Procs : Busy(p) => id \notin Touched(p)) => Agrees(id)

\* The rebuild of process p returns, having met no other command and no record that
\* cannot be read.
RebuildReturns(p) ==
    /\ Busy(p)
    /\ proc[p].op = "rebuild"
    /\ proc[p].alone
    /\ proc'[p].pc = "idle"
    /\ \A id \in Ids : file[id] # Torn

\* Whatever has drifted, and from whatever cause, a rebuild with nobody else about
\* puts it right: "if this dies in between, the truth is on disk with only the
\* derived thing behind - which is exactly what `rebuild-index` repairs"
\* (handleCreateRecord).
RebuildRepairs == [][\A p \in Procs : RebuildReturns(p) => \A id \in Ids : Agrees(id)']_vars
=============================================================================
