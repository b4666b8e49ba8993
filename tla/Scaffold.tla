------------------------------ MODULE Scaffold ------------------------------
(***************************************************************************)
(* `dlc new` (engine/commands.go, engine/scaffold.go, engine/tiers.go):    *)
(* it looks whether the directory is occupied, renders the templates of    *)
(* the tiers asked for, and writes them file by file with WriteTree()      *)
(* (dlc-platform/fs.go).  Native runs are processes: several may be at     *)
(* work on one disk beside the user, and any of them may die.  A request   *)
(* that is refused changes nothing and is not an action; what a file says  *)
(* is left out, except for the tiers its dlc.toml declares.                *)
(***************************************************************************)
EXTENDS Naturals, Sequences, SequencesExt

CONSTANTS Runs,       \* the processes that run `dlc new`
          Apps,       \* where projects may be asked for, as paths; <<>> is "."
          Landscape,  \* TierLandscape: the declared tiers, those available
          Templates,  \* the paths of the embedded templates, sorted
          UserFiles   \* what the user may write meanwhile

\* A path has no two templates, and no tier is nameless.
ASSUME ScaffoldAssumption ==
    /\ Apps \subseteq Seq(STRING) /\ UserFiles \subseteq Seq(STRING)
    /\ Templates \in Seq(Seq(STRING) \ {<<>>})
    /\ \A i, j \in DOMAIN Templates : Templates[i] = Templates[j] => i = j
    /\ <<"dlc.toml">> \in ToSet(Templates)
    /\ \E p \in ToSet(Templates) : IsStrictPrefix(<<"cmd", "engine-component">>, p)
    /\ Landscape \subseteq STRING \ {""}

VARIABLES
    disk,     \* path -> what is there; the root is <<>>
    run,      \* run[r]: what run r is doing
    meddled   \* auxiliary: somebody else wrote below the project of run r
              \* since it looked

scaffoldVars == <<disk, run, meddled>>

Directory == <<"directory">>
Truncated == <<"truncated">>
Torn      == <<"torn">>
Rendered  == <<"rendered">>
ByUser    == <<"by the user">>
ManifestOf(tiers) == <<"manifest", tiers>>

IsDir(p)      == p \in DOMAIN disk /\ disk[p] = Directory
HasFile(p)    == p \in DOMAIN disk /\ disk[p] # Directory
Above(p)      == {SubSeq(p, 1, i) : i \in 0..(Len(p) - 1)}
Below(p)      == {q \in DOMAIN disk : IsStrictPrefix(p, q)}
WithParent(p) == [q \in DOMAIN disk \cup {Front(p)} |->
                     IF q \in DOMAIN disk THEN disk[q] ELSE Directory]
WithDirs(p)   == [q \in DOMAIN disk \cup Above(p) |->
                     IF q \in DOMAIN disk THEN disk[q] ELSE Directory]
WithFile(p, content) == [q \in DOMAIN disk \cup {p} |->
                            IF q = p THEN content ELSE disk[q]]

-----------------------------------------------------------------------------
(* Tiers and templates *)

\* tierOf(): the tier a template belongs to, or none.
IsSlotFile(p) == Len(p) > 2 /\ p[1] = "hosts"
SlotTierOf(p) == IF IsSlotFile(p) THEN p[2] ELSE ""
TierOf(p) == IF IsSlotFile(p) THEN p[2]
             ELSE IF IsStrictPrefix(<<"cmd", "engine-component">>, p) THEN "web"
             ELSE ""

\* templateSlots(), supportedTiers()
TemplateSlots  == {p[2] : p \in {q \in ToSet(Templates) : IsSlotFile(q)}}
SupportedTiers == Landscape \cap TemplateSlots

\* checkScaffoldOptions(): there is no default, and nothing that cannot be built.
OptionsAccepted(tiers) == tiers # {} /\ tiers \subseteq SupportedTiers

\* scaffoldFiles(): the templates of the tiers asked for and those of none.
Emitted(p, tiers) == TierOf(p) \in tiers \cup {""}
ScaffoldFiles(tiers) ==
    LET files[i \in 0..Len(Templates)] ==
            IF i = 0 THEN <<>>
            ELSE IF Emitted(Templates[i], tiers) THEN Append(files[i - 1], Templates[i])
            ELSE files[i - 1]
    IN  files[Len(Templates)]

\* tierSections(): what dlc.toml declares.
ContentOf(p, tiers) == IF p = <<"dlc.toml">> THEN ManifestOf(tiers) ELSE Rendered

-----------------------------------------------------------------------------
(* One run *)

\* todo: the files not yet written; open: the first of them has been truncated.
Resting == [app |-> <<>>, tiers |-> {}, todo |-> <<>>, open |-> FALSE]
AtWork(r) == run[r].tiers # {}
Target(r) == run[r].app \o Head(run[r].todo)

\* Somebody other than r wrote at p.
MeddledBy(r, p) ==
    [s \in Runs |-> meddled[s] \/ (s # r /\ AtWork(s) /\ IsPrefix(run[s].app, p))]

\* DirIsOccupied(): what cannot be listed, a file for one, counts as free.
HasManifest(p) == HasFile(p \o <<"dlc.toml">>)
Occupied(p) == IsDir(p) /\ Below(p) # {}

\* handleNew() and scaffold() up to WriteTree().
New(r, app, tiers) ==
    /\ ~AtWork(r)
    /\ OptionsAccepted(tiers)
    /\ ~Occupied(app)
    /\ run' = [run EXCEPT ![r] = [app |-> app, tiers |-> tiers,
                                  todo |-> ScaffoldFiles(tiers), open |-> FALSE]]
    /\ meddled' = [meddled EXCEPT ![r] = FALSE]
    /\ UNCHANGED disk

Writing(r) == AtWork(r) /\ run[r].todo # <<>>
Blocked(r) == IsDir(Target(r)) \/ \E q \in Above(Target(r)) : HasFile(q)

\* os.MkdirAll()
MakeDirs(r) ==
    /\ Writing(r) /\ ~run[r].open
    /\ ~Blocked(r)
    /\ ~(Above(Target(r)) \subseteq DOMAIN disk)
    /\ disk' = WithDirs(Target(r))
    /\ meddled' = MeddledBy(r, Target(r))
    /\ UNCHANGED run

\* os.WriteFile() truncates the file,
Open(r) ==
    /\ Writing(r) /\ ~run[r].open
    /\ ~Blocked(r)
    /\ Above(Target(r)) \subseteq DOMAIN disk
    /\ disk' = WithFile(Target(r), Truncated)
    /\ run' = [run EXCEPT ![r].open = TRUE]
    /\ meddled' = MeddledBy(r, Target(r))

\* and then writes it.  Of two writes that overlap, the shorter may leave the tail
\* of the longer standing.
Write(r) ==
    LET content == ContentOf(Head(run[r].todo), run[r].tiers)
    IN  /\ Writing(r) /\ run[r].open
        /\ \/ disk' = WithFile(Target(r), content)
           \/ /\ disk[Target(r)] \notin {Truncated, content}
              /\ disk' = WithFile(Target(r), Torn)
        /\ run' = [run EXCEPT ![r].todo = Tail(@), ![r].open = FALSE]
        /\ meddled' = MeddledBy(r, Target(r))

\* Every file is written: the run reports the project.
Report(r) ==
    /\ AtWork(r) /\ run[r].todo = <<>>
    /\ run' = [run EXCEPT ![r] = Resting]
    /\ UNCHANGED <<disk, meddled>>

\* The run dies, or a write fails and WriteTree() gives up: what was written stays.
GiveUp(r) ==
    /\ Writing(r)
    /\ run' = [run EXCEPT ![r] = Resting]
    /\ UNCHANGED <<disk, meddled>>

-----------------------------------------------------------------------------
(* The user *)

UserWrites(p) ==
    /\ ~IsDir(p) /\ \A q \in Above(p) : ~HasFile(q)
    /\ disk' = [q \in DOMAIN disk \cup Above(p) \cup {p} |->
                   IF q = p THEN ByUser ELSE IF q \in DOMAIN disk THEN disk[q] ELSE Directory]
    /\ meddled' = [s \in Runs |-> meddled[s] \/ (AtWork(s) /\ IsPrefix(run[s].app, p))]
    /\ UNCHANGED run

\* A project is thrown away, but not while runs are at work.
UserRemoves(app) ==
    /\ \A r \in Runs : ~AtWork(r)
    /\ Below(app) # {}
    /\ disk' = [q \in DOMAIN disk \ Below(app) |-> disk[q]]
    /\ UNCHANGED <<run, meddled>>

ScaffoldInit ==
    /\ disk = [p \in {<<>>} |-> Directory]
    /\ run = [r \in Runs |-> Resting]
    /\ meddled = [r \in Runs |-> FALSE]

ScaffoldNext ==
    \/ \E r \in Runs :
          \/ \E app \in Apps, tiers \in SUBSET Landscape : New(r, app, tiers)
          \/ MakeDirs(r) \/ Open(r) \/ Write(r) \/ Report(r) \/ GiveUp(r)
    \/ \E p \in UserFiles : UserWrites(p)
    \/ \E app \in Apps : UserRemoves(app)

ScaffoldSpec == ScaffoldInit /\ [][ScaffoldNext]_scaffoldVars

-----------------------------------------------------------------------------
(* Properties *)

ScaffoldTypeOK ==
    /\ \A p \in DOMAIN disk : \A q \in Above(p) : IsDir(q)
    /\ \A r \in Runs : AtWork(r) =>
          /\ run[r].app \in Apps /\ OptionsAccepted(run[r].tiers)
          /\ ToSet(run[r].todo) \subseteq ToSet(Templates)
          /\ run[r].open => HasFile(Target(r))
    /\ meddled \in [Runs -> BOOLEAN]

\* `new` never overwrites work it could have seen (DirIsOccupied(): "must never
\* silently overwrite a user's work"): a file that a run truncates appeared after
\* the run had looked, whatever dead runs, other projects and nested ones left there.
NewSparesWork ==
    [][\A r \in Runs : Open(r) /\ HasFile(Target(r)) => meddled[r]]_scaffoldVars

\* A project that is reported, and that nobody meddled with, is what was asked for:
\* dlc.toml declares those tiers, a slot is there for each declared tier and for no
\* other, the component shim is there for the web, and no file is half written
\* (scaffoldFiles(), tierOf(), tierSections()).
ProjectAsAsked ==
    [][\A r \in Runs : Report(r) /\ ~meddled[r] =>
          LET app == run[r].app
              tiers == run[r].tiers
          IN  /\ disk[app \o <<"dlc.toml">>] = ManifestOf(tiers)
              /\ \A t \in Landscape : t \in tiers <=> IsDir(app \o <<"hosts", t>>)
              /\ "web" \in tiers <=> IsDir(app \o <<"cmd", "engine-component">>)
              /\ \A p \in Below(app) : disk[p] \notin {Truncated, Torn, ByUser}
      ]_scaffoldVars
=============================================================================
