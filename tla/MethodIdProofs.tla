--------------------------- MODULE MethodIdProofs ---------------------------
(***************************************************************************)
(* Proofs about who answers for a method id.  Of Registry, at run time:    *)
(* its type invariant, that the surface is in line with the facts in every *)
(* reachable state, that a listener hears the surface its manifest calls   *)
(* for, and three step properties.  Of Generator, over a project's life:   *)
(* its type invariant, that promised ids and topics are kept, that no      *)
(* promised id is ambiguous and that the locks guard every promise through *)
(* any failed run.                                                         *)
(***************************************************************************)
EXTENDS Registry, Generator, TLAPS

-----------------------------------------------------------------------------
(* The registry *)

USE RegistryAssumption

\* What the block operators do to a registry: they keep its type, one fills the
\* block in and touches nothing else, the other empties it.
LEMMA BlockTypes ==
    ASSUME NEW reg \in [Methods -> Owners], NEW block
    PROVE  /\ WithBlock(reg, block) \in [Methods -> Owners]
           /\ WithoutBlock(reg, block) \in [Methods -> Owners]
  BY DEF WithBlock, WithoutBlock, Owners

\* Syncing keeps the type, leaves the core block and the app's ids alone, and for
\* a discovering app fills the filesystem block or empties it, by the manifest.
LEMMA SyncFilesystemEffect ==
    ASSUME NEW reg \in [Methods -> Owners], NEW discovering \in BOOLEAN, NEW e
    PROVE  LET new == SyncFilesystem(reg, discovering, e)
           IN  /\ new \in [Methods -> Owners]
               /\ \A m \in Methods \ Fs : new[m] = reg[m]
               /\ ~discovering => new = reg
               /\ discovering =>
                     \A m \in Fs : IF HasFilesystem(e) THEN new[m] # "none"
                                                       ELSE new[m] = "none"
  <1>1. WithBlock(reg, Fs) \in [Methods -> Owners]
        /\ WithoutBlock(reg, Fs) \in [Methods -> Owners]
    BY BlockTypes
  <1>2. CASE ~discovering
    BY <1>2 DEF SyncFilesystem
  <1>3. CASE discovering /\ HasFilesystem(e)
    <2>1. SyncFilesystem(reg, discovering, e) = WithBlock(reg, Fs)
      BY <1>3 DEF SyncFilesystem
    <2>2. \A m \in Methods \ Fs : WithBlock(reg, Fs)[m] = reg[m]
      BY DEF WithBlock
    <2>3. \A m \in Fs : WithBlock(reg, Fs)[m] # "none"
      BY DEF WithBlock, Methods, Platform
    <2>. QED  BY <1>1, <1>3, <2>1, <2>2, <2>3
  <1>4. CASE discovering /\ ~HasFilesystem(e)
    <2>1. SyncFilesystem(reg, discovering, e) = WithoutBlock(reg, Fs)
      BY <1>4 DEF SyncFilesystem
    <2>2. \A m \in Methods \ Fs : WithoutBlock(reg, Fs)[m] = reg[m]
      BY DEF WithoutBlock
    <2>3. \A m \in Fs : WithoutBlock(reg, Fs)[m] = "none"
      BY DEF WithoutBlock, Methods, Platform
    <2>. QED  BY <1>1, <1>4, <2>1, <2>2, <2>3
  <1>. QED  BY <1>2, <1>3, <1>4

\* What syncing the index block makes of a registry.
IndexSynced(new, reg, wanted) ==
    /\ new \in [Methods -> Owners]
    /\ \A m \in Methods \ Index : new[m] = reg[m]
    /\ \A m \in Index : IF wanted THEN new[m] # "none" ELSE new[m] = "none"

\* The same of the index block, which every app's sync fills or empties.
LEMMA SyncIndexEffect ==
    ASSUME NEW reg \in [Methods -> Owners], NEW discovering \in BOOLEAN,
           NEW rebuilds \in BOOLEAN, NEW e
    PROVE  IndexSynced(SyncIndex(reg, discovering, rebuilds, e), reg,
                       IndexWanted(discovering, rebuilds, e))
  <1>1. WithBlock(reg, Index) \in [Methods -> Owners]
        /\ WithoutBlock(reg, Index) \in [Methods -> Owners]
    BY BlockTypes
  <1>2. CASE IndexWanted(discovering, rebuilds, e)
    <2>1. SyncIndex(reg, discovering, rebuilds, e) = WithBlock(reg, Index)
      BY <1>2 DEF SyncIndex
    <2>2. \A m \in Methods \ Index : WithBlock(reg, Index)[m] = reg[m]
      BY DEF WithBlock
    <2>3. \A m \in Index : WithBlock(reg, Index)[m] # "none"
      BY DEF WithBlock, Methods, Platform
    <2>. QED  BY <1>1, <1>2, <2>1, <2>2, <2>3 DEF IndexSynced
  <1>3. CASE ~IndexWanted(discovering, rebuilds, e)
    <2>1. SyncIndex(reg, discovering, rebuilds, e) = WithoutBlock(reg, Index)
      BY <1>3 DEF SyncIndex
    <2>2. \A m \in Methods \ Index : WithoutBlock(reg, Index)[m] = reg[m]
      BY DEF WithoutBlock
    <2>3. \A m \in Index : WithoutBlock(reg, Index)[m] = "none"
      BY DEF WithoutBlock, Methods, Platform
    <2>. QED  BY <1>1, <1>3, <2>1, <2>2, <2>3 DEF IndexSynced
  <1>. QED  BY <1>2, <1>3

\* What a sync of both blocks makes of a registry.
Synced(new, reg, discovering, has, wanted) ==
    /\ IndexSynced(new, new, wanted)
    /\ \A m \in Methods \ (Fs \cup Index) : new[m] = reg[m]
    /\ ~discovering => \A m \in Fs : new[m] = reg[m]
    /\ discovering => \A m \in Fs : IF has THEN new[m] # "none" ELSE new[m] = "none"

\* After a sync both blocks are as the facts call for, and nothing else has moved.
LEMMA SyncEffect ==
    ASSUME NEW reg \in [Methods -> Owners], NEW discovering \in BOOLEAN,
           NEW rebuilds \in BOOLEAN, NEW e
    PROVE  Synced(SyncCapabilities(reg, discovering, rebuilds, e), reg, discovering,
                  HasFilesystem(e), IndexWanted(discovering, rebuilds, e))
  <1> DEFINE mid == SyncFilesystem(reg, discovering, e)
             new == SyncIndex(mid, discovering, rebuilds, e)
  <1>1. /\ mid \in [Methods -> Owners]
        /\ \A m \in Methods \ Fs : mid[m] = reg[m]
        /\ ~discovering => mid = reg
        /\ discovering => \A m \in Fs : IF HasFilesystem(e) THEN mid[m] # "none"
                                                            ELSE mid[m] = "none"
    BY SyncFilesystemEffect
  <1> HIDE DEF mid
  <1>2. IndexSynced(new, mid, IndexWanted(discovering, rebuilds, e))
    BY <1>1, SyncIndexEffect
  <1>3. SyncCapabilities(reg, discovering, rebuilds, e) = new
    BY DEF SyncCapabilities, mid
  <1> HIDE DEF new
  <1>4. Fs \subseteq Methods \ Index
    BY DEF Methods, Platform
  <1>. QED  BY <1>1, <1>2, <1>3, <1>4 DEF Synced, IndexSynced

-----------------------------------------------------------------------------
(* Type correctness *)

\* Init establishes the types, and every step of the app and of the host keeps them.
LEMMA TypeInit == Init => TypeOK
  <1> SUFFICES ASSUME Init PROVE TypeOK
    OBVIOUS
  <1>1. NoManifest \in Manifest
    BY DEF NoManifest, Manifest, Availability
  <1>2. heard \in Report
    <2>1. {} \in SUBSET Methods
      OBVIOUS
    <2>. QED  BY <1>1, <2>1 DEF Init, Report
  <1>3. registry \in [Methods -> Owners]
    BY DEF Init, Owners
  <1>. QED  BY <1>1, <1>2, <1>3 DEF Init, TypeOK, Choices

\* A manifest that Boot builds is one a host may send.
LEMMA BootManifestType ==
    ASSUME NEW o
    PROVE  BootManifest(o) \in Manifest
  BY DEF BootManifest, Manifest, Availability

\* Execute(MethodSetEnvironment), from the host or from Boot, keeps the types of
\* what it writes.
LEMMA HandleTypes ==
    ASSUME TypeOK, NEW e \in Manifest, NEW listening \in BOOLEAN,
           HandleSetEnvironment(e, listening)
    PROVE  /\ registry' \in [Methods -> Owners]
           /\ env' \in Manifest
           /\ heard' \in Report
           /\ dropped' \subseteq Methods
  <1>1. CASE registry[SetEnv] = "platform" /\ Applies(e)
    <2> DEFINE new == SyncCapabilities(registry, Discovering, rebuilder, e)
    <2>1. registry' = new /\ dropped' = {m \in dropped : new[m] = "none"} /\ env' = e
      BY <1>1 DEF HandleSetEnvironment, Install
    <2>2. new \in [Methods -> Owners]
      BY SyncEffect DEF TypeOK, Discovering, Synced, IndexSynced
    <2>3. Surface(registry') \in SUBSET Methods /\ Discovering \in BOOLEAN
      BY DEF Surface, Discovering
    <2>4. [env |-> e, surface |-> Surface(registry'),
           discovering |-> Discovering, rebuilder |-> rebuilder] \in Report
      BY <2>3 DEF Report, TypeOK
    <2>5. heard' \in Report
      BY <1>1, <2>4 DEF HandleSetEnvironment, TypeOK
    <2>. QED  BY <2>1, <2>2, <2>5 DEF TypeOK
  <1>2. CASE ~(registry[SetEnv] = "platform" /\ Applies(e))
    BY <1>2 DEF HandleSetEnvironment, TypeOK
  <1>. QED  BY <1>1, <1>2

\* Each action's next registry and its next facts have their types.
LEMMA TypeStep == TypeOK /\ [Next]_vars => TypeOK'
  <1> SUFFICES ASSUME TypeOK, [Next]_vars PROVE TypeOK'
    OBVIOUS
  <1>1. ASSUME NEW reg \in [Methods -> Owners], Install(reg)
        PROVE  registry' \in [Methods -> Owners] /\ dropped' \subseteq Methods
    BY <1>1 DEF Install, TypeOK
  <1>2. CASE RegisterCore
    <2>1. WithBlock(registry, Core) \in [Methods -> Owners]
      BY BlockTypes DEF TypeOK
    <2>. QED  BY <1>1, <1>2, <2>1 DEF RegisterCore, TypeOK
  <1>3. CASE RegisterAll
    <2>1. WithBlock(WithBlock(registry, Core), Fs) \in [Methods -> Owners]
      BY BlockTypes DEF TypeOK
    <2>. QED  BY <1>1, <1>3, <2>1 DEF RegisterAll, TypeOK, Choices
  <1>4. CASE RegisterDiscovered
    <2>1. WithBlock(registry, Core) \in [Methods -> Owners]
      BY BlockTypes DEF TypeOK
    <2>2. SyncCapabilities(WithBlock(registry, Core), TRUE, rebuilder, env)
            \in [Methods -> Owners]
      BY <2>1, SyncEffect DEF TypeOK, Synced, IndexSynced
    <2>. QED  BY <1>1, <1>4, <2>2 DEF RegisterDiscovered, TypeOK, Choices
  <1>5. ASSUME NEW given \in BOOLEAN, SetIndexRebuilder(given) PROVE TypeOK'
    <2>1. SyncIndex(registry, Discovering, given, env) \in [Methods -> Owners]
      BY SyncIndexEffect DEF TypeOK, Discovering, IndexSynced
    <2>. QED  BY <1>1, <1>5, <2>1 DEF SetIndexRebuilder, TypeOK
  <1>6. ASSUME NEW m \in Methods, Register(m) PROVE TypeOK'
    <2>1. [registry EXCEPT ![m] = "app"] \in [Methods -> Owners]
      BY DEF TypeOK, Owners
    <2>. QED  BY <1>1, <1>6, <2>1 DEF Register, TypeOK
  <1>7. ASSUME NEW m \in Methods, Unregister(m) PROVE TypeOK'
    BY <1>7 DEF Unregister, TypeOK, Owners
  <1>8. ASSUME NEW e \in Manifest, SetEnvironment(e) PROVE TypeOK'
    <2>1. sink \in BOOLEAN
      BY DEF TypeOK
    <2>. QED  BY <1>8, <2>1, HandleTypes DEF SetEnvironment, TypeOK
  <1>9. ASSUME NEW o \in BootOptions, Boot(o) PROVE TypeOK'
    <2>1. sink' \in BOOLEAN
      BY <1>9 DEF Boot, TypeOK, BootOptions
    <2>2. HandleSetEnvironment(BootManifest(o), sink')
      BY <1>9 DEF Boot
    <2>. QED  BY <1>9, <2>1, <2>2, BootManifestType, HandleTypes DEF Boot, TypeOK
  <1>10. CASE UNCHANGED vars
    BY <1>10 DEF vars, TypeOK
  <1>. QED
    BY <1>2, <1>3, <1>4, <1>5, <1>6, <1>7, <1>8, <1>9, <1>10 DEF Next, AppStep, HostStep

\* The types hold in every reachable state, for any blocks of methods and any
\* revisions the host may send.
THEOREM TypeCorrect == Spec => []TypeOK
  BY TypeInit, TypeStep, PTL DEF Spec

-----------------------------------------------------------------------------
(* The surface is in line with the facts *)

\* What SurfaceInLine asks of the registry reg, the dropped ids gone and the facts.
\* (Primed operators cannot be applied to a next state value by value, so the step
\* lemmas below work on this form.)
InLine(reg, gone, choice, rebuilds, e) ==
    /\ choice # "nothing" => \A m \in Core : reg[m] # "none" \/ m \in gone
    /\ choice = "all" => \A m \in Fs : reg[m] # "none" \/ m \in gone
    /\ choice = "discovered" =>
          IF HasFilesystem(e) THEN \A m \in Fs : reg[m] # "none" \/ m \in gone
                              ELSE \A m \in Fs : reg[m] # "platform"
    /\ IF IndexWanted(choice = "discovered", rebuilds, e)
       THEN \A m \in Index : reg[m] # "none" \/ m \in gone
       ELSE \A m \in Index : reg[m] # "platform"

\* The two forms are one, in this state and in the next.
LEMMA InLineIsSurface ==
    /\ SurfaceInLine <=> InLine(registry, dropped, chosen, rebuilder, env)
    /\ SurfaceInLine' <=> InLine(registry', dropped', chosen', rebuilder', env')
  BY DEF SurfaceInLine, InLine, Offered, Withheld, Discovering

\* No step takes the surface out of line: one case per action, and SetEnvironment
\* and Boot share the handler's.
LEMMA SurfaceStep ==
    ASSUME TypeOK, SurfaceInLine, [Next]_vars
    PROVE  SurfaceInLine'
  <1>1. InLine(registry, dropped, chosen, rebuilder, env)
    BY InLineIsSurface
  <1> SUFFICES InLine(registry', dropped', chosen', rebuilder', env')
    BY InLineIsSurface
  <1>2. Core \subseteq Methods /\ Fs \subseteq Methods /\ Index \subseteq Methods
    BY DEF Methods, Platform
  <1>3. /\ registry \in [Methods -> Owners] /\ rebuilder \in BOOLEAN
        /\ chosen \in Choices /\ Discovering \in BOOLEAN /\ TRUE \in BOOLEAN
    BY DEF TypeOK, Discovering
  <1>4. CASE RegisterCore
    BY <1>1, <1>2, <1>3, <1>4 DEF RegisterCore, Install, WithBlock, InLine
  <1>5. CASE RegisterAll
    BY <1>1, <1>2, <1>3, <1>5 DEF RegisterAll, Install, WithBlock, InLine, IndexWanted
  <1>6. CASE RegisterDiscovered
    <2> DEFINE reg == WithBlock(registry, Core)
               new == SyncCapabilities(reg, TRUE, rebuilder, env)
    <2>1. reg \in [Methods -> Owners] /\ \A m \in Core : reg[m] # "none"
      BY <1>3, <1>2, BlockTypes DEF WithBlock
    <2> HIDE DEF reg
    <2>2. Synced(new, reg, TRUE, HasFilesystem(env), IndexWanted(TRUE, rebuilder, env))
      BY <2>1, <1>3, SyncEffect
    <2>3. registry' = new /\ chosen' = "discovered" /\ UNCHANGED <<rebuilder, env>>
      BY <1>6 DEF RegisterDiscovered, Install, reg
    <2> HIDE DEF new
    <2>. QED  BY <2>1, <2>2, <2>3, <1>2 DEF InLine, Synced, IndexSynced
  <1>7. ASSUME NEW given \in BOOLEAN, SetIndexRebuilder(given)
        PROVE  InLine(registry', dropped', chosen', rebuilder', env')
    <2> DEFINE new == SyncIndex(registry, Discovering, given, env)
    <2>1. IndexSynced(new, registry, IndexWanted(Discovering, given, env))
      BY <1>3, SyncIndexEffect
    <2>2. /\ registry' = new /\ dropped' = {m \in dropped : new[m] = "none"}
          /\ rebuilder' = given /\ UNCHANGED <<chosen, env>>
      BY <1>7 DEF SetIndexRebuilder, Install
    <2> HIDE DEF new
    <2>. QED  BY <1>1, <1>2, <2>1, <2>2 DEF InLine, Discovering, IndexSynced
  <1>8. ASSUME NEW m \in Methods, Register(m)
        PROVE  InLine(registry', dropped', chosen', rebuilder', env')
    BY <1>1, <1>2, <1>3, <1>8 DEF Register, Install, InLine, Owners
  <1>9. ASSUME NEW m \in Methods, Unregister(m)
        PROVE  InLine(registry', dropped', chosen', rebuilder', env')
    BY <1>1, <1>2, <1>3, <1>9 DEF Unregister, InLine, Owners
  <1>10. ASSUME NEW e \in Manifest, NEW listening \in BOOLEAN,
               HandleSetEnvironment(e, listening), UNCHANGED <<chosen, rebuilder>>
        PROVE  InLine(registry', dropped', chosen', rebuilder', env')
    <2>1. CASE registry[SetEnv] = "platform" /\ Applies(e)
      <3> DEFINE new == SyncCapabilities(registry, Discovering, rebuilder, e)
      <3>1. Synced(new, registry, Discovering, HasFilesystem(e),
                   IndexWanted(Discovering, rebuilder, e))
        BY <1>3, SyncEffect
      <3>2. registry' = new /\ dropped' = {m \in dropped : new[m] = "none"} /\ env' = e
        BY <1>10, <2>1 DEF HandleSetEnvironment, Install
      <3> HIDE DEF new
      <3>. QED  BY <1>1, <1>2, <1>10, <3>1, <3>2 DEF InLine, Discovering, Synced, IndexSynced
    <2>2. CASE ~(registry[SetEnv] = "platform" /\ Applies(e))
      BY <1>1, <1>10, <2>2 DEF HandleSetEnvironment
    <2>. QED  BY <2>1, <2>2
  <1>11. ASSUME NEW e \in Manifest, SetEnvironment(e)
        PROVE  InLine(registry', dropped', chosen', rebuilder', env')
    BY <1>10, <1>11 DEF SetEnvironment, TypeOK
  <1>12. ASSUME NEW o \in BootOptions, Boot(o)
         PROVE  InLine(registry', dropped', chosen', rebuilder', env')
    <2>1. sink' \in BOOLEAN
      BY <1>12 DEF Boot, TypeOK, BootOptions
    <2>2. HandleSetEnvironment(BootManifest(o), sink') /\ UNCHANGED <<chosen, rebuilder>>
      BY <1>12 DEF Boot
    <2>. QED  BY <1>10, <2>1, <2>2, BootManifestType
  <1>13. CASE UNCHANGED vars
    BY <1>1, <1>13 DEF vars
  <1>. QED
    BY <1>4, <1>5, <1>6, <1>7, <1>8, <1>9, <1>11, <1>12, <1>13 DEF Next, AppStep, HostStep

\* In every reachable state the verbs offered are those the facts in force call
\* for, whatever the order of the app's init, the boot and the manifests.
THEOREM SurfaceFollowsFacts == Spec => []SurfaceInLine
  <1>1. Init => SurfaceInLine
    BY DEF Init, SurfaceInLine, Withheld, Offered, Discovering, IndexWanted, Methods, Platform
  <1>2. TypeOK /\ SurfaceInLine /\ [Next]_vars => SurfaceInLine'
    BY SurfaceStep
  <1>. QED  BY <1>1, <1>2, TypeCorrect, PTL DEF Spec

-----------------------------------------------------------------------------
(* What a listener hears *)

\* HeardSurfaceInLine, of any report.
ReportInLine(r) ==
    r.env.revision # 0 =>
        /\ r.discovering => IF HasFilesystem(r.env) THEN Fs \subseteq r.surface
                                                    ELSE Fs \cap r.surface = {}
        /\ IF IndexWanted(r.discovering, r.rebuilder, r.env)
           THEN Index \subseteq r.surface
           ELSE Index \cap r.surface = {}

\* The handler reports a surface that is in line with the manifest it announces,
\* because the sync comes first.
LEMMA HandleReports ==
    ASSUME TypeOK, ReportInLine(heard), NEW e \in Manifest, NEW listening \in BOOLEAN,
           HandleSetEnvironment(e, listening)
    PROVE  ReportInLine(heard')
  <1>1. CASE registry[SetEnv] = "platform" /\ Applies(e) /\ listening
    <2> DEFINE new == SyncCapabilities(registry, Discovering, rebuilder, e)
    <2>1. registry \in [Methods -> Owners] /\ rebuilder \in BOOLEAN /\ Discovering \in BOOLEAN
      BY DEF TypeOK, Discovering
    <2>2. Synced(new, registry, Discovering, HasFilesystem(e),
                 IndexWanted(Discovering, rebuilder, e))
      BY <2>1, SyncEffect
    <2>3. registry' = new
      BY <1>1 DEF HandleSetEnvironment, Install
    <2>4. heard' = [env |-> e, surface |-> Surface(registry'),
                    discovering |-> Discovering, rebuilder |-> rebuilder]
      BY <1>1 DEF HandleSetEnvironment
    <2> HIDE DEF new
    <2>5. Fs \subseteq Methods /\ Index \subseteq Methods
      BY DEF Methods, Platform
    <2>6. Discovering => IF HasFilesystem(e) THEN Fs \subseteq Surface(new)
                                             ELSE Fs \cap Surface(new) = {}
      BY <2>2, <2>5 DEF Synced, Surface
    <2>7. IF IndexWanted(Discovering, rebuilder, e) THEN Index \subseteq Surface(new)
                                                    ELSE Index \cap Surface(new) = {}
      BY <2>2, <2>5 DEF Synced, IndexSynced, Surface
    <2>8. /\ heard'.env = e /\ heard'.surface = Surface(new)
          /\ heard'.discovering = Discovering /\ heard'.rebuilder = rebuilder
      BY <2>3, <2>4
    <2>. QED  BY <2>6, <2>7, <2>8 DEF ReportInLine
  <1>2. CASE ~(registry[SetEnv] = "platform" /\ Applies(e) /\ listening)
    BY <1>2 DEF HandleSetEnvironment
  <1>. QED  BY <1>1, <1>2

\* A listener that asks for the surface when it is told of a manifest gets the
\* surface that manifest calls for.
THEOREM ListenersHearTheTruth == Spec => []HeardSurfaceInLine
  <1>1. /\ HeardSurfaceInLine <=> ReportInLine(heard)
        /\ HeardSurfaceInLine' <=> ReportInLine(heard')
    BY DEF HeardSurfaceInLine, ReportInLine
  <1>2. Init => HeardSurfaceInLine
    BY DEF Init, HeardSurfaceInLine, NoManifest
  <1>3. ASSUME TypeOK, ReportInLine(heard), [Next]_vars PROVE ReportInLine(heard')
    <2>1. CASE AppStep \/ UNCHANGED vars
      BY <1>3, <2>1 DEF AppStep, RegisterCore, RegisterAll, RegisterDiscovered,
                        SetIndexRebuilder, Register, Unregister, vars
    <2>2. ASSUME NEW e \in Manifest, SetEnvironment(e) PROVE ReportInLine(heard')
      BY <1>3, <2>2, HandleReports DEF SetEnvironment, TypeOK
    <2>3. ASSUME NEW o \in BootOptions, Boot(o) PROVE ReportInLine(heard')
      <3>1. sink' \in BOOLEAN
        BY <1>3, <2>3 DEF Boot, TypeOK, BootOptions
      <3>2. HandleSetEnvironment(BootManifest(o), sink')
        BY <2>3 DEF Boot
      <3>. QED  BY <1>3, <3>1, <3>2, BootManifestType, HandleReports
    <2>. QED  BY <1>3, <2>1, <2>2, <2>3 DEF Next, HostStep
  <1>4. TypeOK /\ HeardSurfaceInLine /\ [Next]_vars => HeardSurfaceInLine'
    BY <1>1, <1>3
  <1>. QED  BY <1>2, <1>4, TypeCorrect, PTL DEF Spec

\* No manifest takes effect unheard on a host that has a sink by the end of the
\* step, the boot's own manifest included.
THEOREM NoManifestUnheard == Spec => AppliedManifestIsHeard
  <1> DEFINE Heard == env' # env /\ sink' => heard'.env = env'
  <1>1. ASSUME NEW e, NEW listening \in BOOLEAN,
               HandleSetEnvironment(e, listening), sink' => listening
        PROVE  Heard
    BY <1>1 DEF HandleSetEnvironment
  <1>2. TypeOK /\ [Next]_vars => [Heard]_vars
    <2> SUFFICES ASSUME TypeOK, Next PROVE Heard
      OBVIOUS
    <2>1. CASE AppStep
      BY <2>1 DEF AppStep, RegisterCore, RegisterAll, RegisterDiscovered,
                  SetIndexRebuilder, Register, Unregister
    <2>2. ASSUME NEW e \in Manifest, SetEnvironment(e) PROVE Heard
      BY <1>1, <2>2 DEF SetEnvironment, TypeOK
    <2>3. ASSUME NEW o \in BootOptions, Boot(o) PROVE Heard
      <3>1. sink' \in BOOLEAN
        BY <2>3 DEF Boot, TypeOK, BootOptions
      <3>. QED  BY <1>1, <2>3, <3>1 DEF Boot
    <2>. QED  BY <2>1, <2>2, <2>3 DEF Next, HostStep
  <1>. QED  BY <1>2, TypeCorrect, PTL DEF Spec, AppliedManifestIsHeard

-----------------------------------------------------------------------------
(* Overrides *)

\* From reg to new, no id goes from the app's handler straight to the platform's.
Spares(new, reg) == \A m \in Methods : reg[m] = "app" => new[m] # "platform"

\* Neither sync does that, nor do the two one after the other: the first empties
\* filesystem ids only, and the second fills index ids only.
LEMMA SyncSpares ==
    ASSUME NEW reg \in [Methods -> Owners], NEW discovering \in BOOLEAN,
           NEW rebuilds \in BOOLEAN, NEW e
    PROVE  /\ Spares(SyncIndex(reg, discovering, rebuilds, e), reg)
           /\ Spares(SyncCapabilities(reg, discovering, rebuilds, e), reg)
  <1>1. ASSUME NEW any \in [Methods -> Owners]
        PROVE  \A m \in Methods :
                  /\ any[m] = "app" => SyncIndex(any, discovering, rebuilds, e)[m] # "platform"
                  /\ m \notin Index => SyncIndex(any, discovering, rebuilds, e)[m] = any[m]
    BY DEF SyncIndex, WithBlock, WithoutBlock
  <1>2. \A m \in Methods :
           /\ reg[m] = "app" => SyncFilesystem(reg, discovering, e)[m] # "platform"
           /\ m \notin Fs => SyncFilesystem(reg, discovering, e)[m] = reg[m]
    BY DEF SyncFilesystem, WithBlock, WithoutBlock
  <1>3. SyncFilesystem(reg, discovering, e) \in [Methods -> Owners]
    BY SyncFilesystemEffect
  <1>. QED  BY <1>1, <1>2, <1>3 DEF Spares, SyncCapabilities

\* registerBlock never puts the platform's handler over the app's: what took an
\* override away was the app's own call or a capability that was withdrawn.
THEOREM OverridesAreSpared == Spec => OverrideIsNotOverwritten
  <1> DEFINE Spared == \A m \in Methods : registry[m] = "app" => registry'[m] # "platform"
  <1>1. ASSUME TypeOK, Next PROVE Spared
    <2>1. /\ registry \in [Methods -> Owners] /\ rebuilder \in BOOLEAN
          /\ Discovering \in BOOLEAN /\ TRUE \in BOOLEAN
      BY <1>1 DEF TypeOK, Discovering
    <2>2. CASE RegisterCore \/ RegisterAll
      BY <2>2 DEF RegisterCore, RegisterAll, Install, WithBlock
    <2>3. CASE RegisterDiscovered
      <3> DEFINE reg == WithBlock(registry, Core)
      <3>1. reg \in [Methods -> Owners]
            /\ \A m \in Methods : registry[m] = "app" => reg[m] = "app"
        BY <2>1, BlockTypes DEF WithBlock
      <3> HIDE DEF reg
      <3>2. Spares(SyncCapabilities(reg, TRUE, rebuilder, env), reg)
        BY <2>1, <3>1, SyncSpares
      <3>3. registry' = SyncCapabilities(reg, TRUE, rebuilder, env)
        BY <2>3 DEF RegisterDiscovered, Install, reg
      <3>. QED  BY <3>1, <3>2, <3>3 DEF Spares
    <2>4. ASSUME NEW given \in BOOLEAN, SetIndexRebuilder(given) PROVE Spared
      <3>1. Spares(SyncIndex(registry, Discovering, given, env), registry)
        BY <2>1, SyncSpares
      <3>. QED  BY <2>4, <3>1 DEF SetIndexRebuilder, Install, Spares
    <2>5. ASSUME NEW m \in Methods, Register(m) \/ Unregister(m) PROVE Spared
      BY <2>1, <2>5 DEF Register, Unregister, Install
    <2>6. ASSUME NEW e, NEW listening, HandleSetEnvironment(e, listening) PROVE Spared
      <3>1. Spares(SyncCapabilities(registry, Discovering, rebuilder, e), registry)
        BY <2>1, SyncSpares
      <3>. QED  BY <2>6, <3>1 DEF HandleSetEnvironment, Install, Spares
    <2>7. CASE HostStep
      BY <2>6, <2>7 DEF HostStep, SetEnvironment, Boot
    <2>. QED  BY <1>1, <2>2, <2>3, <2>4, <2>5, <2>7 DEF Next, AppStep
  <1>2. TypeOK /\ [Next]_vars => [Spared]_vars
    BY <1>1
  <1>. QED  BY <1>2, TypeCorrect, PTL DEF Spec, OverrideIsNotOverwritten

\* Outside the app's own calls the surface moves only when the manifest does.
THEOREM RepeatsAreSilent == Spec => RepeatChangesNothing
  <1> DEFINE Silent == HostStep /\ env' = env => registry' = registry
  <1>1. TypeOK /\ [Next]_vars => [Silent]_vars
    <2>1. ASSUME NEW e, NEW listening, HandleSetEnvironment(e, listening), env' = env
          PROVE  registry' = registry
      BY <2>1 DEF HandleSetEnvironment, Applies
    <2>2. HostStep /\ env' = env => registry' = registry
      BY <2>1 DEF HostStep, SetEnvironment, Boot
    <2>. QED  BY <2>2
  <1>. QED  BY <1>1, TypeCorrect, PTL DEF Spec, RepeatChangesNothing

-----------------------------------------------------------------------------
(* The generator *)

USE GeneratorAssumption

\* The rows of a schema name each thing once.
OneIdPerName(rows) == \A p, q \in rows : p[1] = q[1] => p = q

LEMMA IdRowsTyped ==
    ASSUME NEW s \in Schema
    PROVE  IdRows(s) \subseteq IdRow /\ OneIdPerName(IdRows(s))
  <1>1. \A p \in IdRows(s) :
            \/ p[1] \in Method /\ p = <<p[1], s.ids[p[1]]>> /\ p[2] \in MethodId
            \/ p[2] \in MethodId /\ p = <<Reserved(p[2]), p[2]>>
    BY DEF IdRows, Schema
  <1>2. IdRows(s) \subseteq IdRow
    BY <1>1 DEF IdRow
  <1>3. ASSUME NEW p \in IdRows(s), NEW q \in IdRows(s), p[1] = q[1]
        PROVE  p = q
    <2>1. CASE p[1] \in Method
      <3>1. \A i \in MethodId : q # <<Reserved(i), i>>
        BY <1>3, <2>1
      <3>. QED  BY <1>1, <1>3, <2>1, <3>1
    <2>2. CASE p[1] \notin Method
      <3>1. p = <<Reserved(p[2]), p[2]>> /\ q = <<Reserved(q[2]), q[2]>>
        BY <1>1, <1>3, <2>2
      <3>2. p[2] = q[2]
        BY <1>3, <3>1 DEF Reserved
      <3>. QED  BY <3>1, <3>2
    <2>. QED  BY <2>1, <2>2
  <1>. QED  BY <1>2, <1>3 DEF OneIdPerName

LEMMA TopicRowsTyped ==
    ASSUME NEW s \in Schema
    PROVE  TopicRows(s) \subseteq TopicRow
  BY DEF TopicRows, TopicRow, Schema

\* What the generated code speaks is unambiguous.
Unambiguous == OneIdPerName(generated.ids) /\ DistinctIds(generated.ids)

\* The inductive invariant.  That promises are kept by the next successful run
\* needs the locks to hold them after any run, and that no id is ambiguous needs
\* it of what is generated.
GenIInv == GenTypeOK /\ PromisesKept /\ LocksGuardPromises /\ Unambiguous

LEMMA InitEstablishes == GenInit => GenIInv
  BY DEF GenInit, GenIInv, GenTypeOK, PromisesKept, LocksGuardPromises, Unambiguous,
         OneIdPerName, DistinctIds, Held, Rows

\* What is promised during a run: less than before, and all of it in the rows
\* whose lock has accepted them.
LEMMA AcceptedRowsKeepPromises ==
    ASSUME GenIInv, NEW s \in Schema, NEW blessing \in Blessing, IdLockAccepts(s, blessing)
    PROVE  /\ StillPromised(s, blessing) \in Rows
           /\ StillPromised(s, blessing).ids \subseteq promised.ids \cap IdRows(s)
           /\ StillPromised(s, blessing).topics = promised.topics
  <1>1. promised.ids \subseteq Held(idLock)
        /\ promised.ids \subseteq IdRow /\ promised.topics \subseteq TopicRow
    BY DEF GenIInv, LocksGuardPromises, GenTypeOK, Rows
  <1>2. blessing = "1" \/ promised.ids \subseteq IdRows(s)
    BY <1>1 DEF IdLockAccepts, Keeps
  <1>. QED  BY <1>1, <1>2 DEF StillPromised, Rows

LEMMA AcceptedTopicsKeepPromises ==
    ASSUME GenIInv, NEW s \in Schema, NEW blessing \in Blessing,
           IdLockAccepts(s, blessing), TopicLockAccepts(s, blessing)
    PROVE  /\ BothPromised(s, blessing) \in Rows
           /\ BothPromised(s, blessing).ids \subseteq promised.ids \cap IdRows(s)
           /\ BothPromised(s, blessing).topics \subseteq promised.topics \cap TopicRows(s)
  <1>1. promised.topics \subseteq Held(topicLock)
    BY DEF GenIInv, LocksGuardPromises
  <1>2. blessing # "" \/ promised.topics \subseteq TopicRows(s)
    BY <1>1 DEF TopicLockAccepts, Keeps
  <1>3. /\ StillPromised(s, blessing).ids \subseteq IdRow
        /\ StillPromised(s, blessing).ids \subseteq promised.ids \cap IdRows(s)
    BY AcceptedRowsKeepPromises DEF Rows
  <1>4. promised.topics \subseteq TopicRow
    BY DEF GenIInv, GenTypeOK, Rows
  <1>5. CASE blessing # ""
    BY <1>3, <1>4, <1>5 DEF BothPromised, Rows
  <1>6. CASE blessing = ""
    BY <1>2, <1>3, <1>4, <1>6 DEF BothPromised, Rows
  <1>. QED  BY <1>5, <1>6

\* A lock written with a schema's rows holds them.
LEMMA WrittenLocksHold ==
    ASSUME NEW s \in Schema
    PROVE  /\ Held(IdRows(s)) = IdRows(s)
           /\ Held(TopicLockAfter(TopicRows(s))) = TopicRows(s)
  <1>1. IdRows(s) # Missing
    BY IdRowsTyped
  <1>2. TopicRows(s) # Missing
    BY TopicRowsTyped
  <1>3. Held(TopicLockAfter(TopicRows(s))) = TopicRows(s)
    <2>1. CASE topicLock = Missing /\ TopicRows(s) = {}
      BY <2>1 DEF Held, TopicLockAfter
    <2>2. CASE ~(topicLock = Missing /\ TopicRows(s) = {})
      BY <1>2, <2>2 DEF Held, TopicLockAfter
    <2>. QED  BY <2>1, <2>2
  <1>. QED  BY <1>1, <1>3 DEF Held

LEMMA EmptiedLockHolds == Held({}) = {}
  BY DEF Held

LEMMA StepPreserves == GenIInv /\ [GenNext]_genVars => GenIInv'
  <1> SUFFICES ASSUME GenIInv, [GenNext]_genVars
               PROVE  GenIInv'
    OBVIOUS
  <1> USE DEF GenIInv
  <1>1. ASSUME NEW s \in Schema, NEW blessing \in Blessing, TopicLockRefuses(s, blessing)
        PROVE  GenIInv'
    <2>1. Held(idLock') = IdRows(s) /\ IdRows(s) \subseteq IdRow
      BY <1>1, WrittenLocksHold, IdRowsTyped DEF TopicLockRefuses
    <2>2. /\ promised' \in Rows
          /\ promised'.ids \subseteq promised.ids \cap IdRows(s)
          /\ promised'.topics = promised.topics
      BY <1>1, AcceptedRowsKeepPromises DEF TopicLockRefuses
    <2>3. topicLock' = topicLock /\ generated' = generated
      BY <1>1 DEF TopicLockRefuses
    <2>4. GenTypeOK'
      BY <2>1, <2>2, <2>3 DEF GenTypeOK, Held
    <2>5. PromisesKept' /\ Unambiguous'
      BY <2>2, <2>3 DEF PromisesKept, Unambiguous
    <2>6. LocksGuardPromises'
      BY <2>1, <2>2, <2>3 DEF LocksGuardPromises, Held
    <2>. QED  BY <2>4, <2>5, <2>6
  <1>2. ASSUME NEW s \in Schema, NEW blessing \in Blessing, NothingGenerated(s, blessing)
        PROVE  GenIInv'
    <2>1. /\ Held(idLock') = IdRows(s) /\ IdRows(s) \subseteq IdRow
          /\ Held(topicLock') = TopicRows(s) /\ TopicRows(s) \subseteq TopicRow
      BY <1>2, WrittenLocksHold, IdRowsTyped, TopicRowsTyped DEF NothingGenerated
    <2>2. /\ promised' \in Rows
          /\ promised'.ids \subseteq promised.ids \cap IdRows(s)
          /\ promised'.topics \subseteq promised.topics \cap TopicRows(s)
      BY <1>2, AcceptedTopicsKeepPromises DEF NothingGenerated
    <2>3. generated' = generated
      BY <1>2 DEF NothingGenerated
    <2>4. GenTypeOK'
      BY <2>1, <2>2, <2>3 DEF GenTypeOK, Held
    <2>5. PromisesKept' /\ Unambiguous'
      BY <2>2, <2>3 DEF PromisesKept, Unambiguous
    <2>6. LocksGuardPromises'
      BY <2>1, <2>2 DEF LocksGuardPromises, Held
    <2>. QED  BY <2>4, <2>5, <2>6
  <1>3. ASSUME NEW s \in Schema, NEW blessing \in Blessing, Succeed(s, blessing)
        PROVE  GenIInv'
    <2>1. /\ Held(idLock') = IdRows(s) /\ IdRows(s) \subseteq IdRow
          /\ Held(topicLock') = TopicRows(s) /\ TopicRows(s) \subseteq TopicRow
      BY <1>3, WrittenLocksHold, IdRowsTyped, TopicRowsTyped DEF Succeed
    <2>2. /\ BothPromised(s, blessing).ids \subseteq IdRows(s)
          /\ BothPromised(s, blessing).topics \subseteq TopicRows(s)
      BY <1>3, AcceptedTopicsKeepPromises DEF Succeed
    <2>3. promised' = [ids |-> IdRows(s), topics |-> TopicRows(s)]
      BY <1>3, <2>2 DEF Succeed
    <2>4. generated' = [ids |-> IdRows(s), topics |-> TopicRows(s)]
      BY <1>3 DEF Succeed, SchemaRows
    <2>5. GenTypeOK'
      BY <2>1, <2>3, <2>4 DEF GenTypeOK, Held, Rows
    <2>6. PromisesKept'
      BY <2>3, <2>4 DEF PromisesKept
    <2>7. Unambiguous'
      BY <1>3, <2>4, IdRowsTyped DEF Unambiguous, Succeed, IdLockAccepts,
                                     OneIdPerName, DistinctIds
    <2>8. LocksGuardPromises'
      BY <2>1, <2>3 DEF LocksGuardPromises, Held
    <2>. QED  BY <2>5, <2>6, <2>7, <2>8
  <1>4. ASSUME NEW s \in Schema, NEW blessing \in Blessing, KilledInIdLock(s, blessing)
        PROVE  GenIInv'
    <2>1. /\ Held(idLock') = {}
          /\ promised' = [promised EXCEPT !.ids = {}]
          /\ topicLock' = topicLock /\ generated' = generated
      BY <1>4, EmptiedLockHolds DEF KilledInIdLock, Held
    <2>2. promised' \in Rows /\ promised'.ids = {} /\ promised'.topics = promised.topics
      BY <2>1 DEF GenTypeOK, Rows
    <2>. QED  BY <2>1, <2>2 DEF GenTypeOK, PromisesKept, LocksGuardPromises, Unambiguous, Held
  <1>5. ASSUME NEW s \in Schema, NEW blessing \in Blessing, KilledInTopicLock(s, blessing)
        PROVE  GenIInv'
    <2>1. /\ Held(idLock') = IdRows(s) /\ IdRows(s) \subseteq IdRow
          /\ Held(topicLock') = {}
          /\ generated' = generated
      BY <1>5, WrittenLocksHold, IdRowsTyped, EmptiedLockHolds DEF KilledInTopicLock, Held
    <2>2. /\ promised' = [StillPromised(s, blessing) EXCEPT !.topics = {}]
          /\ StillPromised(s, blessing) \in Rows
          /\ StillPromised(s, blessing).ids \subseteq promised.ids \cap IdRows(s)
      BY <1>5, AcceptedRowsKeepPromises DEF KilledInTopicLock
    <2>3. /\ promised' \in Rows /\ promised'.topics = {}
          /\ promised'.ids \subseteq promised.ids \cap IdRows(s)
      BY <2>2 DEF Rows
    <2>4. GenTypeOK'
      BY <2>1, <2>3 DEF GenTypeOK, Held
    <2>5. PromisesKept' /\ Unambiguous'
      BY <2>1, <2>3 DEF PromisesKept, Unambiguous
    <2>6. LocksGuardPromises'
      BY <2>1, <2>3 DEF LocksGuardPromises, Held
    <2>. QED  BY <2>4, <2>5, <2>6
  <1>6. CASE UNCHANGED genVars
    BY <1>6 DEF genVars, GenTypeOK, PromisesKept, LocksGuardPromises, Unambiguous, Held
  <1>. QED  BY <1>1, <1>2, <1>3, <1>4, <1>5, <1>6 DEF GenNext

LEMMA GenAlwaysIInv == GenSpec => []GenIInv
  BY InitEstablishes, StepPreserves, PTL DEF GenSpec

\* The state of a generation stays well typed (main.go, events.go).
THEOREM GenTypeCorrect == GenSpec => []GenTypeOK
  <1>1. GenIInv => GenTypeOK
    BY DEF GenIInv
  <1>. QED  BY <1>1, GenAlwaysIInv, PTL

\* Ids and topics that were generated stay generated under their names until the
\* developer blesses a change (checkLock(), checkTopicLock()).
THEOREM PromisesAlwaysKept == GenSpec => []PromisesKept
  <1>1. GenIInv => PromisesKept
    BY DEF GenIInv
  <1>. QED  BY <1>1, GenAlwaysIInv, PTL

\* The locks hold every promise, however the runs before ended.
THEOREM LocksAlwaysGuard == GenSpec => []LocksGuardPromises
  <1>1. GenIInv => LocksGuardPromises
    BY DEF GenIInv
  <1>. QED  BY <1>1, GenAlwaysIInv, PTL

\* No promised id is ambiguous: from the checks of one schema's rows and the
\* promises being among them.
THEOREM PromisedIdsNeverAmbiguous == GenSpec => []PromisedIdsUnambiguous
  <1>1. GenIInv => PromisedIdsUnambiguous
    <2> SUFFICES ASSUME GenIInv PROVE PromisedIdsUnambiguous
      OBVIOUS
    <2>1. promised.ids \cup generated.ids = generated.ids
      BY DEF GenIInv, PromisesKept
    <2>. QED  BY <2>1 DEF GenIInv, Unambiguous, OneIdPerName, DistinctIds,
                          PromisedIdsUnambiguous
  <1>. QED  BY <1>1, GenAlwaysIInv, PTL
=============================================================================
