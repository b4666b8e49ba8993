------------------------------ MODULE Registry ------------------------------
(***************************************************************************)
(* The engine's command registry and the manifest that decides what is in  *)
(* it (dlc-platform: registry.go, commands.go, environment.go, boot.go).   *)
(* The app's init and the host's boot meet here in any order: the app      *)
(* chooses how platform verbs are registered, may take verbs over and may  *)
(* bring an index; the host says, now and again later, what it can do.     *)
(***************************************************************************)
EXTENDS Naturals

CONSTANTS Core, Fs, Index,  \* the method ids of the three platform blocks
          AppIds,           \* the ids from AppMethodBase on
          SetEnv,           \* MethodSetEnvironment, one of Core
          Revisions         \* the manifest revisions a host may send, besides 0

Platform == Core \cup Fs \cup Index
Methods == Platform \cup AppIds

ASSUME RegistryAssumption ==
    /\ SetEnv \in Core
    /\ Core \cap Fs = {} /\ Core \cap Index = {} /\ Fs \cap Index = {}
    /\ Platform \cap AppIds = {}
    /\ Revisions \subseteq Nat \ {0}
    /\ 1 \in Revisions

VARIABLES
    registry,   \* whose handler each id has: nobody's, the platform's, the app's
    chosen,     \* how the app registered the platform's verbs
    rebuilder,  \* the app has supplied an index rebuilder
    env,        \* the manifest in force; revision 0 while no host has spoken
    sink,       \* the host has installed an event sink
    heard       \* what a listener that asks for the surface on the last
                \* environment-changed event learned

\* Auxiliary: the ids the app has unregistered and nobody has registered since.
VARIABLE dropped

vars == <<registry, chosen, rebuilder, env, sink, heard, dropped>>

Owners == {"none", "platform", "app"}
Choices == {"nothing", "all", "discovered"}
Availability == {"unspecified", "absent", "present"}
Manifest == [revision : Revisions \cup {0}, filesystem : Availability]
NoManifest == [revision |-> 0, filesystem |-> "unspecified"]

\* The `discovered` handlers are held back: set by RegisterDiscovered alone.
Discovering == chosen = "discovered"

HasFilesystem(e) == e.filesystem = "present"

\* handleGetCommandSurface(): the ids that are registered.
Surface(reg) == {m \in Methods : reg[m] # "none"}

Report == [env : Manifest, surface : SUBSET Methods,
           discovering : BOOLEAN, rebuilder : BOOLEAN]

TypeOK ==
    /\ registry \in [Methods -> Owners]
    /\ chosen \in Choices
    /\ rebuilder \in BOOLEAN
    /\ env \in Manifest
    /\ sink \in BOOLEAN
    /\ heard \in Report
    /\ dropped \subseteq Methods

Init ==
    /\ registry = [m \in Methods |-> "none"]
    /\ chosen = "nothing"
    /\ rebuilder = FALSE
    /\ env = NoManifest
    /\ sink = FALSE
    /\ heard = [env |-> NoManifest, surface |-> {},
                discovering |-> FALSE, rebuilder |-> FALSE]
    /\ dropped = {}

-----------------------------------------------------------------------------
(* Blocks *)

\* registerBlock(): fills the block in, and skips any id already registered.
Overwriting(reg, block) == [m \in Methods |-> IF m \in block THEN "platform" ELSE reg[m]]
WithBlock(reg, block) ==
    [m \in Methods |-> IF m \in block /\ reg[m] = "none" THEN "platform" ELSE reg[m]]

\* unregisterBlock(): drops every handler of the block, whoever's it is.
WithoutBlock(reg, block) ==
    [m \in Methods |-> IF m \in block THEN "none" ELSE reg[m]]

SyncFilesystem(reg, discovering, e) ==
    IF ~discovering THEN reg
    ELSE IF HasFilesystem(e) THEN WithBlock(reg, Fs) ELSE WithoutBlock(reg, Fs)

\* Whether the app keeps an index and the host has what it is stored on.  Only a
\* discovering app can see the filesystem go away.
IndexWanted(discovering, rebuilds, e) ==
    rebuilds /\ (discovering => HasFilesystem(e))

SyncIndex(reg, discovering, rebuilds, e) ==
    IF IndexWanted(discovering, rebuilds, e) THEN WithBlock(reg, Index)
                                             ELSE WithoutBlock(reg, Index)

SyncCapabilities(reg, discovering, rebuilds, e) ==
    SyncIndex(SyncFilesystem(reg, discovering, e), discovering, rebuilds, e)

\* The registry becomes reg; an id that is registered again is no longer dropped.
Install(reg) ==
    /\ registry' = reg
    /\ dropped' = {m \in dropped : reg[m] = "none"}

-----------------------------------------------------------------------------
(* What the app does *)

RegisterCore ==
    /\ Install(WithBlock(registry, Core))
    /\ UNCHANGED <<chosen, rebuilder, env, sink, heard>>

\* The app calls one of the next two, once.
RegisterAll ==
    /\ chosen = "nothing"
    /\ chosen' = "all"
    /\ Install(WithBlock(WithBlock(registry, Core), Fs))
    /\ UNCHANGED <<rebuilder, env, sink, heard>>

RegisterDiscovered ==
    /\ chosen = "nothing"
    /\ chosen' = "discovered"
    /\ Install(SyncCapabilities(WithBlock(registry, Core), TRUE, rebuilder, env))
    /\ UNCHANGED <<rebuilder, env, sink, heard>>

\* With a function or with nil.  A plain setter would leave the registry alone.
JustSetRebuilder(given) ==
    /\ rebuilder' = given
    /\ UNCHANGED <<registry, chosen, env, sink, heard, dropped>>
SetIndexRebuilder(given) ==
    /\ rebuilder' = given
    /\ Install(SyncIndex(registry, Discovering, given, env))
    /\ UNCHANGED <<chosen, env, sink, heard>>

\* Register() panics on an id that is taken, so it only ever fills a free one.
Register(m) ==
    /\ registry[m] = "none"
    /\ Install([registry EXCEPT ![m] = "app"])
    /\ UNCHANGED <<chosen, rebuilder, env, sink, heard>>

Unregister(m) ==
    /\ registry' = [registry EXCEPT ![m] = "none"]
    /\ dropped' = dropped \cup {m}
    /\ UNCHANGED <<chosen, rebuilder, env, sink, heard>>

-----------------------------------------------------------------------------
(* What the host does *)

\* applyEnvironment(): revision 0 is refused and the one in force is a repeat.
\* Any other is taken, a lower one too.
AppliesAlways(e) == e.revision # 0
Applies(e) == e.revision \notin {0, env.revision}

\* Execute(MethodSetEnvironment): the platform's handler, if that is whose it is,
\* syncs the verbs and then announces the manifest to whoever listens.  An app
\* that took the id over gets the call instead, and nothing here changes.
AnnounceFirst(e, listening) ==
    IF registry[SetEnv] = "platform" /\ Applies(e)
    THEN /\ env' = e
         /\ Install(SyncCapabilities(registry, Discovering, rebuilder, e))
         /\ heard' = IF ~listening THEN heard
                     ELSE [env |-> e, surface |-> Surface(registry),
                           discovering |-> Discovering, rebuilder |-> rebuilder]
    ELSE UNCHANGED <<env, registry, heard, dropped>>
HandleSetEnvironment(e, listening) ==
    IF registry[SetEnv] = "platform" /\ Applies(e)
    THEN /\ env' = e
         /\ Install(SyncCapabilities(registry, Discovering, rebuilder, e))
         /\ heard' = IF ~listening THEN heard
                     ELSE [env |-> e, surface |-> Surface(registry'),
                           discovering |-> Discovering, rebuilder |-> rebuilder]
    ELSE UNCHANGED <<env, registry, heard, dropped>>

SetEnvironment(e) ==
    /\ HandleSetEnvironment(e, sink)
    /\ UNCHANGED <<chosen, rebuilder, sink>>

\* Boot() refuses options that contradict each other or leave a grant out.  It
\* installs the sink before it sends the manifest, as revision 1; when nobody has
\* registered SetEnvironment it fails with the sink in place.
Consistent(o) == IF o.noFilesystem THEN ~o.root /\ ~o.kind ELSE o.root /\ o.kind
BootCountsOn(o) ==
    [revision |-> env.revision + 1,
     filesystem |-> IF o.noFilesystem THEN "absent" ELSE "present"]
BootManifest(o) ==
    [revision |-> 1, filesystem |-> IF o.noFilesystem THEN "absent" ELSE "present"]
BootOptions == [noFilesystem : BOOLEAN, root : BOOLEAN, kind : BOOLEAN, sink : BOOLEAN]

ListenAfterBoot(o) ==
    /\ Consistent(o)
    /\ sink' = (sink \/ o.sink)
    /\ HandleSetEnvironment(BootManifest(o), sink)
    /\ UNCHANGED <<chosen, rebuilder>>
Boot(o) ==
    /\ Consistent(o)
    /\ sink' = (sink \/ o.sink)
    /\ HandleSetEnvironment(BootManifest(o), sink')
    /\ UNCHANGED <<chosen, rebuilder>>

AppStep ==
    \/ RegisterCore
    \/ RegisterAll
    \/ RegisterDiscovered
    \/ \E given \in BOOLEAN : SetIndexRebuilder(given)
    \/ \E m \in Methods : Register(m) \/ Unregister(m)

HostStep ==
    \/ \E e \in Manifest : SetEnvironment(e)
    \/ \E o \in BootOptions : Boot(o)

Next == AppStep \/ HostStep

Spec == Init /\ [][Next]_vars

-----------------------------------------------------------------------------
(* Properties *)

Offered(m) == registry[m] # "none" \/ m \in dropped
Withheld(m) == registry[m] # "platform"

\* Whatever order the app's init calls, the boot and later manifests come in, the
\* surface is the one the facts in force call for: a verb that can work is offered
\* unless the app dropped it, and the platform offers none that cannot work
\* (syncCapabilityVerbs(), SetIndexRebuilder(), RegisterAll()).  In particular
\* rebuild-index is never registered without a rebuilder, so the nil check of
\* handleRebuildIndex() is for the unreachable case it says it is.
SurfaceInLine ==
    /\ chosen # "nothing" => \A m \in Core : Offered(m)
    /\ chosen = "all" => \A m \in Fs : Offered(m)
    /\ Discovering => IF HasFilesystem(env) THEN \A m \in Fs : Offered(m)
                                            ELSE \A m \in Fs : Withheld(m)
    /\ IF IndexWanted(Discovering, rebuilder, env) THEN \A m \in Index : Offered(m)
                                                   ELSE \A m \in Index : Withheld(m)

\* A listener that hears environment-changed and asks for the surface at once
\* gets the surface of the manifest it was told of (handleSetEnvironment():
\* "AFTER the surface is in line with the facts, never before").
HeardSurfaceInLine ==
    heard.env.revision # 0 =>
        /\ heard.discovering =>
               IF HasFilesystem(heard.env) THEN Fs \subseteq heard.surface
                                           ELSE Fs \cap heard.surface = {}
        /\ IF IndexWanted(heard.discovering, heard.rebuilder, heard.env)
           THEN Index \subseteq heard.surface
           ELSE Index \cap heard.surface = {}

\* Every manifest that takes effect on a host with a sink is heard there, the
\* boot's own included (Boot(): the sink goes in before the manifest).
AppliedManifestIsHeard ==
    [][env' # env /\ sink' => heard'.env = env']_vars

\* A sync never puts the platform's handler over one the app has registered: that
\* takes the app's own Unregister or a capability that went away (registerBlock()).
OverrideIsNotOverwritten ==
    [][\A m \in Methods : registry[m] = "app" => registry'[m] # "platform"]_vars

\* A host that only repeats itself changes nothing: outside the app's own calls the
\* surface moves only when the manifest does (applyEnvironment(): re-applying
\* "would tear down and rebuild the command surface").
RepeatChangesNothing ==
    [][HostStep /\ env' = env => registry' = registry]_vars

\* "An app MAY deliberately take over a platform id [...] but it has to Unregister
\* first, so an override is never accidental" (Register(), registry.go).
OverrideIsDeliberate ==
    [][\A m \in Platform :
         registry[m] # "app" /\ registry'[m] = "app" => m \in dropped]_vars
=============================================================================
