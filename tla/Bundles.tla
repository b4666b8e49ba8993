------------------------------- MODULE Bundles -------------------------------
(***************************************************************************)
(* The filesystem verbs every app inherits, export-fs, import-fs and       *)
(* reset-fs (dlc-platform/commands.go, fs.go), on a small tree the app     *)
(* also writes to.  A bundle travels as text: on the way somebody may      *)
(* annotate it or write one by hand, and a transfer may cut it short.      *)
(* What the text looks like is left to BundleText, by way of the last four *)
(* constants.                                                              *)
(***************************************************************************)
EXTENDS FileTree

CONSTANTS AppFiles,     \* what the app may write: pairs of a path and a content
          Places,       \* the paths a command may name, as written
          HandMade,     \* bundles nobody exported, as nodes
          Annotations,  \* fields an editor may add to every node of a bundle
          MaxDepth,     \* bound: how deep imports may nest
          TextOf(_, _), \* a node and the fields to add, as text: encodeBFT()
          NodeIn(_),    \* whether a text is read, and the node: decodeBFT()
          FilesIn(_, _),\* the files of a node, each below a path: walk()
          NodeAt(_, _)  \* the node of a place in a tree: ReadTree()

\* A segment holds no slash; what the app writes has been through SafeJoin().
ASSUME BundlesAssumption ==
    /\ \A name \in DOMAIN Segments : Segments[name] \in Seq(Segment)
    /\ Places \subseteq Seq(Segment)
    /\ \A file \in AppFiles : /\ file[1] \in Seq(CleanSegment) \ {<<>>}
                              /\ file[2] # Folder

VARIABLES
    tree,         \* path -> content, or Folder; the root is <<>>
    bundle,       \* the text of the bundle at hand, or <<>>
    dataChanged   \* the last command ended with an ilc.data-changed event

\* Auxiliary: the files that were exported into the bundle, by relative path; no
\* claim is made of a hand-made one.
VARIABLE exported

bundlesVars == <<tree, bundle, dataChanged, exported>>

-----------------------------------------------------------------------------
(* The commands *)

\* The index stays at home, unless a directory inside it is asked for.
Exportable(t, p) ==
    {q \in FilesUnder(t, p) : IsPrefix(IndexPath, q) => IsStrictPrefix(IndexPath, p)}

Export(prefix) ==
    LET p == Resolved(prefix)
        node == NodeAt(tree, p)
    IN  /\ Resolves(prefix)
        /\ p = IndexPath \/ IsDirectory(tree, p)
        /\ bundle' = TextOf(node, <<>>)
        /\ exported' = {<<Suffix(p, q), tree[q]>> : q \in Exportable(tree, p)}
        /\ dataChanged' = FALSE
        /\ UNCHANGED tree

\* Somebody writes a bundle of their own.
WriteByHand(node) ==
    /\ bundle' = TextOf(node, <<>>)
    /\ exported' = {<<"by_hand">>}
    /\ UNCHANGED <<tree, dataChanged>>

\* handleImportFs().  Received is what arrives of the bundle.
ImportOf(received, prefix, mode) ==
    LET parsed == NodeIn(received)
        dest == Resolved(prefix)
        before == IF mode = "replace" THEN RemoveTree(tree, dest) ELSE tree
        written == WriteTree(before, dest, FilesIn(parsed.value, <<>>))
        accepted == parsed.ok /\ Resolves(prefix)
    IN  /\ bundle # <<>>
        /\ tree' = IF accepted THEN written.tree ELSE tree
        /\ dataChanged' = (accepted /\ written.ok)
        /\ UNCHANGED <<bundle, exported>>

Import(prefix, mode) ==
    /\ ImportOf(bundle, prefix, mode)
    /\ \A p \in DOMAIN tree' : Len(p) <= MaxDepth
ImportCutShort(prefix, mode) ==
    bundle # <<>> /\ ImportOf(Front(bundle), prefix, mode)

\* handleResetFs()
Reset(prefix) ==
    /\ Resolves(prefix)
    /\ tree' = RemoveTree(tree, Resolved(prefix))
    /\ dataChanged' = TRUE
    /\ UNCHANGED <<bundle, exported>>

\* The app's own WriteFile() and RemoveFile().
AppWrites(p, c) ==
    /\ CanWrite(tree, p)
    /\ tree' = WriteAt(tree, p, c)
    /\ dataChanged' = FALSE
    /\ UNCHANGED <<bundle, exported>>

\* os.Remove() takes a file or an empty directory.
AppRemoves(p) ==
    /\ p \in DOMAIN tree
    /\ \A q \in DOMAIN tree : ~IsStrictPrefix(p, q)
    /\ tree' = [q \in DOMAIN tree \ {p} |-> tree[q]]
    /\ dataChanged' = FALSE
    /\ UNCHANGED <<bundle, exported>>

BundlesInit ==
    /\ tree = [p \in {<<>>} |-> Folder]
    /\ bundle = <<>>
    /\ dataChanged = FALSE
    /\ exported = {}

Modes == {"merge", "replace"}
BundlesNext ==
    \/ \E prefix \in Places : Export(prefix) \/ Reset(prefix)
    \/ \E node \in HandMade : WriteByHand(node)
    \/ \E prefix \in Places, mode \in Modes :
          Import(prefix, mode) \/ ImportCutShort(prefix, mode)
    \/ \E file \in AppFiles : AppWrites(file[1], file[2]) \/ AppRemoves(file[1])

BundlesSpec == BundlesInit /\ [][BundlesNext]_bundlesVars

-----------------------------------------------------------------------------
(* Properties *)

\* Every file and directory stands in a directory.
BundlesTypeOK ==
    /\ \A p \in DOMAIN tree : p = <<>> \/ IsDirectory(tree, Parent(p))
    /\ IsDirectory(tree, <<>>)
    /\ dataChanged \in BOOLEAN

\* Importing an exported bundle with REPLACE leaves, below the prefix, exactly the
\* files that were exported, contents included, whatever was written, removed or
\* imported there since (handleExportFs(), handleImportFs()).
ReplaceRestores ==
    [][\A prefix \in Places :
          dataChanged' /\ exported # {<<"by_hand">>} /\ Import(prefix, "replace") =>
              LET p == Resolved(prefix)
              IN  exported = {<<Suffix(p, q), tree'[q]>> : q \in FilesUnder(tree', p)}
      ]_bundlesVars

\* No import or reset, completed or broken off, of an exported or a hand-made
\* bundle, touches anything outside its prefix but for making the directories
\* that lead to it (SafeJoin(), ResolveUnder()).
StaysUnderPrefix ==
    [][\A prefix \in Places :
          /\ tree' # tree
          /\ Reset(prefix) \/ \E mode \in Modes : Import(prefix, mode)
          =>
              LET p == Resolved(prefix)
              IN  \A q \in DOMAIN tree \cup DOMAIN tree' :
                      \/ IsPrefix(p, q)
                      \/ q \notin DOMAIN tree /\ IsStrictPrefix(q, p) /\ IsDirectory(tree', q)
                      \/ q \in DOMAIN tree \cap DOMAIN tree' /\ tree'[q] = tree[q]
      ]_bundlesVars

\* A bundle reads back as the files that were exported into it; it says the same
\* when it is annotated, and nothing when it was cut short anywhere: it is then
\* refused before anything is removed and cannot empty or half fill the place it was
\* meant for (decodeBFT()).
ReadWholeOrNotAtAll ==
    LET parsed == NodeIn(bundle)
        files == FilesIn(parsed.value, <<>>)
    IN  bundle # <<>> =>
            /\ parsed.ok
            /\ files \in Seq(Seq(STRING) \X (STRING \ {Folder}))
            /\ exported # {<<"by_hand">>} => ToSet(files) = exported
            /\ \A n \in 0..(Len(bundle) - 1) : ~NodeIn(SubSeq(bundle, 1, n)).ok
            /\ \A extra \in Annotations :
                   NodeIn(TextOf(parsed.value, extra)).value = parsed.value

\* The index does not travel: a bundle exported from anywhere but inside the index
\* holds no file of it (ReadTree(), INDEX-PLAN D5).
IndexStaysHome ==
    [][\A prefix \in Places :
          /\ bundle' # <<>> /\ exported' # {<<"by_hand">>}
          /\ Export(prefix) /\ ~IsStrictPrefix(IndexPath, Resolved(prefix))
          =>
              \A file \in ToSet(FilesIn(NodeIn(bundle').value, <<>>)) :
                  ~IsPrefix(IndexPath, Resolved(prefix) \o file[1])]_bundlesVars
=============================================================================
