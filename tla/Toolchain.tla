----------------------------- MODULE Toolchain -----------------------------
(***************************************************************************)
(* The toolchain verbs of the dlc host (hosts/native/build.go, run.go and  *)
(* gen.go): each loads dlc.toml, then runs external tools one after the    *)
(* other, and stops at the first that fails.  A tool reads when it starts  *)
(* and has written when it ends.  Several commands may run at once, in one *)
(* project or in several, while the user goes on editing; all of them      *)
(* share one directory for temporary files.  A command that is refused     *)
(* before its first tool changes nothing and is not an action.  What is    *)
(* kept of a file is which edits went into it: its content is a set of     *)
(* stamps.                                                                 *)
(***************************************************************************)
EXTENDS Naturals, Sequences, SequencesExt

CONSTANTS Callers,      \* the shells that run dlc
          Projects,     \* directories with a dlc.toml
          ProjectName,  \* project -> the name in its [project] section
          PlatformOf,   \* project -> its [platform] path, where it has one
          InheritedTS,  \* the projects that hold dlc-platform/gen/ts
          Declared,     \* project -> tier -> the paths of its [tiers] section,
                        \* "" where the section does not give one
          TargetOf,     \* tier -> its target: the engine's TierLandscape
          OutFlags,     \* what --out and --web-out may say, "" if not given
          MaxEdits,     \* bound: project -> its edits
          MaxAsked      \* bound: the commands given

\* A [platform] path may lead anywhere; where there is something to copy, it is
\* a project that is edited too.
ASSUME ToolchainAssumption == InheritedTS \subseteq Projects

VARIABLES
    edits,   \* project -> how often a file of it has been edited
    made,    \* place -> what a tool has put there
    job,     \* job[c]: the command caller c is running
    asked,   \* how many commands have been given
    met      \* auxiliary: job[c] ran beside another that uses one of its places

toolchainVars == <<edits, made, job, asked, met>>

-----------------------------------------------------------------------------
(* What a command reads and writes *)

FirstNonEmpty(values) == SelectSeq(values, LAMBDA v : v # "")[1]

Section(r) == Declared[r.project][r.tier]
SourcesOf(p)   == <<"sources", p>>
SchemaOf(p)    == <<"schema", p>>
InheritedOf(p) == <<"inherited", p>>
SettingsOf(p)  == <<"dlc.toml", p>>
GeneratedOf(r) == <<"generated", r.project>>
ConfigOf(r)    == <<"config", r.project>>

ComponentOf(r) ==
    <<"component", r.project,
      FirstNonEmpty(<<r.flags.out, Section(r).component, "build/engine.component.wasm">>)>>
AssetsOf(r) ==
    <<"assets", r.project,
      FirstNonEmpty(<<r.flags.webOut, Section(r).assets, Section(r).root \o "/src/wasm">>)>>
CwasmOf(r) ==
    <<"cwasm", r.project, FirstNonEmpty(<<Section(r).cwasm, TargetOf[r.tier]>>)>>
\* In os.TempDir(), by the project's name and not its place.
BinaryOf(r)  == <<"binary", ProjectName[r.project]>>
ProgramOf(r) == <<"program", r.project>>

\* A tool that reads the places in from and leaves its result at to.
Step(from, to) == [from |-> from, to |-> to]

\* What tinygo and go compile: the handlers with the packages that only gen writes.
Compiled(r) == {SourcesOf(r.project), GeneratedOf(r), ConfigOf(r)}

BuildComponent(r) == << Step(Compiled(r), ComponentOf(r)) >>
\* os.RemoveAll(webOut), then jco.
BuildWeb(r) ==
    BuildComponent(r) \o << Step({}, AssetsOf(r)), Step({ComponentOf(r)}, AssetsOf(r)) >>
PrecompileOnly(r) == << Step({ComponentOf(r)}, CwasmOf(r)) >>
BuildEmbedded(r) == BuildComponent(r) \o << Step({ComponentOf(r)}, CwasmOf(r)) >>
RunNative(r) ==
    << Step(Compiled(r), BinaryOf(r)), Step({BinaryOf(r)}, ProgramOf(r)) >>
\* Of what the dev server serves, the engine.
RunWeb(r) == BuildWeb(r) \o << Step({AssetsOf(r)}, ProgramOf(r)) >>

\* No platform, or one without generated TypeScript: nothing is copied, what is
\* there stays, and gen goes on.
CopyPlatformTS(r) ==
    IF r.project \in DOMAIN PlatformOf /\ PlatformOf[r.project] \in InheritedTS
    THEN << Step({InheritedOf(PlatformOf[r.project])}, <<"platform_ts", r.project>>) >>
    ELSE <<>>
Gen(r) == << Step({SchemaOf(r.project)}, GeneratedOf(r)) >>
              \o CopyPlatformTS(r) \o << Step({SettingsOf(r.project)}, ConfigOf(r)) >>

\* runBuild(), runRun(), runGen(): refused is a plan of no steps.
HasSection(r) == r.tier \in DOMAIN Declared[r.project]
BuildsFor(r, targets) ==
    r.verb = "build" /\ HasSection(r) /\ r.tier \in DOMAIN TargetOf
        /\ TargetOf[r.tier] \in targets
Plan(r) ==
    CASE r.verb = "gen" -> Gen(r)
      [] r.verb = "run" /\ HasSection(r) /\ r.tier = "native" -> RunNative(r)
      [] r.verb = "run" /\ HasSection(r) /\ r.tier = "web" -> RunWeb(r)
      [] BuildsFor(r, {"wasip2"}) -> BuildWeb(r)
      [] BuildsFor(r, {"pulley32", "pulley64"}) -> BuildEmbedded(r)
      [] OTHER -> <<>>

Outputs(r) == {Plan(r)[i].to : i \in DOMAIN Plan(r)}
Uses(r) == Outputs(r) \cup UNION {Plan(r)[i].from : i \in DOMAIN Plan(r)}

NoFlags == [out |-> "", webOut |-> ""]
Requests ==
    [verb : {"build"}, project : Projects, tier : DOMAIN TargetOf, flags : OutFlags]
        \cup [verb : {"run"}, project : Projects, tier : {"native", "web"}, flags : {NoFlags}]
        \cup [verb : {"gen"}, project : Projects, tier : {""}, flags : {NoFlags}]

-----------------------------------------------------------------------------
Nothing == {}
Partial == {<<"partial">>}

Found(place) == IF place \in DOMAIN made THEN made[place] ELSE Nothing
Putting(place, content) ==
    [q \in DOMAIN made \cup {place} |-> IF q = place THEN content ELSE made[q]]

Off == [todo |-> <<>>]
Running(c) == job[c].todo # <<>>
Now(c) == Head(job[c].todo)

\* What a tool of job c that starts now finds at a place: files somebody edits as
\* they are, dlc.toml as the command read it, the rest as it was made.
Content(c, place) ==
    CASE place[1] \in {"sources", "schema", "inherited"} ->
             {<<place, edits[place[2]]>>}
      [] place[1] = "dlc.toml" -> job[c].manifest
      [] OTHER -> Found(place)
Reads(c) == UNION {Content(c, place) : place \in Now(c).from}

ToolchainInit ==
    /\ edits = [p \in Projects |-> 0]
    /\ made = <<>>
    /\ job = [c \in Callers |-> Off]
    /\ asked = 0
    /\ met = [c \in Callers |-> FALSE]

\* runBuild(), runRun(), runGen() up to the first tool.
Command(c, r) ==
    LET running == {d \in Callers : Running(d)}
        others(d) == Outputs(job[d].request) \cap Uses(r) # {}
        ours(d)   == Outputs(r) \cap Uses(job[d].request) # {}
    IN  /\ ~Running(c) /\ asked < MaxAsked
        /\ Plan(r) # <<>>
        /\ job' = [job EXCEPT ![c] =
               [request |-> r, todo |-> Plan(r), busy |-> FALSE, read |-> Nothing,
                manifest |-> {<<SettingsOf(r.project), edits[r.project]>>},
                since |-> edits]]
        /\ asked' = asked + 1
        /\ met' = [d \in Callers |-> IF d = c THEN \E b \in running : others(b)
                                     ELSE met[d] \/ (d \in running /\ ours(d))]
        /\ UNCHANGED <<edits, made>>

\* A compiler does not start on packages that are not there.
StartTool(c) ==
    /\ Running(c) /\ ~job[c].busy
    /\ \A place \in Now(c).from : Content(c, place) # Nothing
    /\ job' = [job EXCEPT ![c].busy = TRUE, ![c].read = Reads(c)]
    /\ UNCHANGED <<edits, made, asked, met>>

EndTool(c) ==
    /\ Running(c) /\ job[c].busy
    /\ made' = Putting(Now(c).to, job[c].read)
    /\ job' = [job EXCEPT ![c] =
                  IF Len(job[c].todo) = 1 THEN Off
                  ELSE [job[c] EXCEPT !.todo = Tail(job[c].todo), !.busy = FALSE]]
    /\ UNCHANGED <<edits, asked, met>>

\* A tool fails, or is not there, or dlc is stopped: the steps after it are not
\* taken.
StopTool(c) ==
    /\ Running(c)
    /\ made' \in {made} \cup (IF job[c].busy THEN {Putting(Now(c).to, Partial)} ELSE {})
    /\ job' = [job EXCEPT ![c] = Off]
    /\ UNCHANGED <<edits, asked, met>>

\* The user edits the sources, the schema or dlc.toml of p.
EditSources(p) ==
    /\ edits[p] < MaxEdits[p]
    /\ edits' = [edits EXCEPT ![p] = @ + 1]
    /\ UNCHANGED <<made, job, asked, met>>

\* Bound: once the commands are spent, clean checkouts and a clean temporary
\* directory, with the counters at zero.
StartOver ==
    /\ asked = MaxAsked /\ \A c \in Callers : ~Running(c)
    /\ edits' = [p \in Projects |-> 0]
    /\ made' = <<>>
    /\ asked' = 0
    /\ met' = [c \in Callers |-> FALSE]
    /\ UNCHANGED job

ToolchainNext ==
    \/ \E c \in Callers :
          \/ \E r \in Requests : Command(c, r)
          \/ StartTool(c) \/ EndTool(c) \/ StopTool(c)
    \/ \E p \in Projects : EditSources(p)
    \/ StartOver

ToolchainSpec == ToolchainInit /\ [][ToolchainNext]_toolchainVars

-----------------------------------------------------------------------------
\* Whose edits an artefact of request r is to be fresh in, and what gen left that
\* goes into it.
Origin(r, place) ==
    CASE place[1] = "generated"   -> SchemaOf(r.project)
      [] place[1] = "config"      -> SettingsOf(r.project)
      [] place[1] = "platform_ts" -> InheritedOf(PlatformOf[r.project])
      [] OTHER                    -> SourcesOf(r.project)
Besides(r, place) ==
    IF place[1] \in {"generated", "config", "platform_ts"} THEN {}
    ELSE {GeneratedOf(r), ConfigOf(r)}

(***************************************************************************)
(* A build, a gen or a run that gets to its end, and met no other that     *)
(* writes where it reads or writes, leaves every artefact of its own whole *)
(* and made from this project (gen's copy: from the platform) as it was    *)
(* when the command was given or has become since - whatever earlier       *)
(* commands left half-done there, other projects of its name included -    *)
(* and what run launches is one of these: the edit, not yesterday's        *)
(* binary.  Of gen's packages build and run compile what gen has left: an  *)
(* edit of the schema or of dlc.toml is in the artefact only when a gen    *)
(* that got to its end saw it ("editing dlc.toml and re-running dlc gen"). *)
(***************************************************************************)
DoneMeansFresh ==
    [][\A c \in Callers :
          EndTool(c) /\ ~Running(c)' /\ ~met[c] =>
              LET r == job[c].request
              IN  \A place \in Outputs(r) :
                      LET o == Origin(r, place)
                      IN  \E v \in job[c].since[o[2]]..edits[o[2]] :
                             Found(place)' = {<<o, v>>}
                                 \cup UNION {Found(q) : q \in Besides(r, place)}
      ]_toolchainVars
=============================================================================
