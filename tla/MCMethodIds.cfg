\* Two rpcs and two ids for the locks; for the registry one core verb, two
\* filesystem verbs, one index verb, one app command.
SPECIFICATION IdsSpec
CONSTANTS
    Method = {a, b}
    MethodId = {1, 2}
    Event = {e, f}
    Topic = {t}
    Missing = Missing
    Undeclared = Undeclared
    HostLocal = HostLocal
    Core = {setenv}
    Fs = {export, reset}
    Index = {rebuild}
    AppIds = {app}
    SetEnv = setenv
    Revisions = {1, 2}
INVARIANTS
    GenTypeOK
    PromisesKept
    PromisedIdsUnambiguous
    LocksGuardPromises
    TypeOK
    SurfaceInLine
    HeardSurfaceInLine
PROPERTIES
    AppliedManifestIsHeard
    OverrideIsNotOverwritten
    RepeatChangesNothing
SYMMETRY Alike
