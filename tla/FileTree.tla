------------------------------ MODULE FileTree ------------------------------
(***************************************************************************)
(* A tree of files as the platform's helpers see it (dlc-platform/fs.go,   *)
(* and what commands.go removes): where a path leads, what stands in the   *)
(* way of a write, and what a tree becomes when files are written into it  *)
(* or a directory is emptied.                                              *)
(***************************************************************************)
EXTENDS Naturals, Sequences, SequencesExt

CONSTANTS IndexPath,   \* .dlc-index
          Segments     \* how a name that holds a slash splits up

\* Names that hold no slash; of these, the ones that name an entry.  Paths are
\* sequences of them, the root is <<>>.
Segment == STRING \ DOMAIN Segments
CleanSegment == Segment \ {"", ".", ".."}

Folder == "folder"
IsDirectory(t, p) == p \in DOMAIN t /\ t[p] = Folder
IsFile(t, p) == p \in DOMAIN t /\ t[p] # Folder
FilesUnder(t, p) == {q \in DOMAIN t : IsFile(t, q) /\ IsStrictPrefix(p, q)}
Suffix(p, q) == SubSeq(q, Len(p) + 1, Len(q))
Parent(p) == SubSeq(p, 1, Len(p) - 1)
Ancestors(p) == {SubSeq(p, 1, i) : i \in 0..(Len(p) - 1)}

-----------------------------------------------------------------------------
(* Paths *)

\* filepath.Clean(), on segments: ".." takes back what came before it.
CleanStep(acc, s) ==
    IF s \in {"", "."} THEN acc
    ELSE IF s # ".." THEN [path |-> Append(acc.path, s), escapes |-> acc.escapes]
    ELSE IF acc.path # <<>> THEN [path |-> Parent(acc.path), escapes |-> acc.escapes]
    ELSE [path |-> <<>>, escapes |-> TRUE]
Clean(segments) ==
    LET acc[i \in 0..Len(segments)] ==
            IF i = 0 THEN [path |-> <<>>, escapes |-> FALSE]
            ELSE CleanStep(acc[i - 1], segments[i])
    IN  acc[Len(segments)]

Split(name) == IF name \in DOMAIN Segments THEN Segments[name] ELSE <<name>>
SplitAll(names) ==
    LET acc[i \in 0..Len(names)] ==
            IF i = 0 THEN <<>> ELSE acc[i - 1] \o Split(names[i])
    IN  acc[Len(names)]

\* SafeJoin(): what it refuses, and where it leads otherwise.
Allowed(segments) == segments # <<>> /\ segments[1] # "" /\ ~Clean(segments).escapes
SafeJoin(root, segments) == root \o Clean(segments).path

\* ResolveUnder(): no prefix is the whole root.
Resolves(prefix) == prefix = <<>> \/ Allowed(prefix)
Resolved(prefix) == Clean(prefix).path

-----------------------------------------------------------------------------
(* Writing a tree, and removing one *)

\* os.MkdirAll() and os.WriteFile(): no file stands where a directory is needed,
\* nor a directory where the file goes.
CanWrite(t, p) == /\ \A q \in Ancestors(p) : ~IsFile(t, q)
                  /\ ~IsDirectory(t, p)
WriteFileOnly(t, p, c) == [q \in DOMAIN t \cup {p} |-> IF q = p THEN c ELSE t[q]]
WriteAt(t, p, c) ==
    LET dirs == Ancestors(p) \ DOMAIN t
    IN  [q \in DOMAIN t \cup dirs \cup {p} |->
            IF q = p THEN c ELSE IF q \in dirs THEN Folder ELSE t[q]]

\* writeBFTTree(): file by file, up to the first that cannot be written.
JoinedFile(dest, acc, file) ==
    LET p == Clean(dest \o SplitAll(file[1])).path
    IN  IF ~acc.ok \/ ~CanWrite(acc.tree, p) THEN [ok |-> FALSE, tree |-> acc.tree]
        ELSE [ok |-> TRUE, tree |-> WriteAt(acc.tree, p, file[2])]
WriteFile(dest, acc, file) ==
    LET segments == SplitAll(file[1])
        p == SafeJoin(dest, segments)
    IN  IF ~acc.ok THEN acc
        ELSE IF ~Allowed(segments) \/ ~CanWrite(acc.tree, p)
        THEN [ok |-> FALSE, tree |-> acc.tree]
        ELSE [ok |-> TRUE, tree |-> WriteAt(acc.tree, p, file[2])]
WriteTree(t, dest, files) ==
    LET acc[i \in 0..Len(files)] ==
            IF i = 0 THEN [ok |-> TRUE, tree |-> t]
            ELSE WriteFile(dest, acc[i - 1], files[i])
    IN  acc[Len(files)]

\* removeTree(): everything below a directory, and nothing if it is none.
RemoveFilesIn(t, p) ==
    [q \in {r \in DOMAIN t : ~(IsFile(t, r) /\ Parent(r) = p)} |-> t[q]]
RemoveTree(t, p) ==
    IF ~IsDirectory(t, p) THEN t
    ELSE [q \in {r \in DOMAIN t : ~IsStrictPrefix(p, r)} |-> t[q]]
=============================================================================
