# TLA+ models of ILC

ILC is a portable application engine written in Go (`dlc-platform/`, `engine/`),
compiled natively or to a WebAssembly component, and a set of per-tier hosts:
native binaries, a browser page with a worker, an embedded runner.  A host hands
commands to the engine as `(method_id, bytes)`; the engine keeps its state in
files under a root the host grants.  This directory holds TLA+ models of the
parts of it where steps of several actors meet, where something may break off
half-way, or where two implementations must agree; the TLC runs that check
them; and TLAPS proofs about them.

## The system

| Part | State it keeps | Operations | What is hard about it |
| --- | --- | --- | --- |
| Web store: `web/worker.ts`, `web/opfs.ts`, `web/crosstab.ts`, `web/shim/filesystem.js` | OPFS, shared by the tabs of an origin; per tab the engine's tree, the shim's tree, the digest last persisted, `stale` | `boot`, `execute`, `flush`, `clearStorage`, the broadcast | every `await` lets another call, another tab, a reload or a failure in |
| Registry and manifest: `registry.go`, `commands.go`, `environment.go`, `boot.go`, `events.go` | handlers by id, held-back handlers, rebuilder, manifest, sink | `Register*`, `Unregister`, `SetIndexRebuilder`, `Boot`, `SetEnvironment` | the app's init and the host's calls come in any order |
| Notes and its index: `example-apps/notes/engine/commands.go`, `index/` | `records/*.json` (the truth), `.dlc-index/records/*` (derived) | create, update, delete, list, open, `rebuild-index`; `import-fs`, `reset-fs` over the same files | several native processes, deaths between two file system calls |
| Tic-tac-toe: `example-apps/tictactoe/engine/commands.go` | one game file: board, history | play, new-game, get-state | load, decide and save are not atomic across processes |
| Bundles and file helpers: `bft.go`, `fs.go`, `fserror.go` | the files under the root | encode, decode, `SafeJoin`, `ReadTree`, `WriteTree`; `export-fs`, `import-fs`, `reset-fs` | round trip, containment, a bundle cut or edited on its way, file and directory of one name |
| CLI twice: `cli/` in Go, `web/terminal.ts`, `web/encode.ts`, and the inspector's form | none | split flags from arguments, fill, encode | two implementations of one grammar |
| Id and topic locks: `cmd/protoc-gen-dlc-registry` | the two lock files, the generated code | one generator run | a sequence of edits and broken-off runs that reuses an id |
| dlc engine: `engine/` | a project directory | `dlc new`: options, tiers, render, write | check the directory, then write it file by file |
| Toolchain: `hosts/native` | the artefacts of a project, and binaries in the temporary directory | `dlc build`, `run`, `gen`: tools one after the other | a tool fails, the user edits, another command or another project writes the same place |
| Page API, inspector, file browser: `web/api.ts`, `web/inspector.ts`, `web/files.ts` | listener sets, lazily attached relays, what each view shows | subscribe, unsubscribe, re-read | answers out of order, listings that meet a flush, views that come and go |
| Embedded: `embedded/src` | the buffers of its streams | WASI calls, answered at once or refused | nothing interleaves |

They interact like this.  A host calls `Boot` (native) or runs `boot()` (worker),
which grants a root and states a **manifest** through the command
`SetEnvironment`; the registry changes with it and announces
`ilc.environment-changed`.  After that everything is `execute`: natively a
function call, on the web a message to the worker, which runs the engine
synchronously on an in-memory tree, then **flushes** the tree to OPFS, then
tells the page's watchers and the other tabs, then delivers the command's
events.  Notes, tic-tac-toe and the platform's own verbs all write that tree.
Before any of that, a developer makes a project with `dlc new`, numbers its
commands in a schema that the generator locks, and builds and runs it with the
toolchain verbs; what the generator derives from the schema is the description of
each command that the two command lines and the inspector's form work from.

What must be true of each part:

* web store: an acknowledged command is durable; an interrupted flush loses no
  file; events follow their change; the engine and the flush see one tree; a tab
  that is behind is told and recovers, and one that is not told is not behind;
* registry: the surface is a function of the facts in force and never of the
  order they came in; listeners hear the truth; overrides are deliberate and
  spared; repeats change nothing;
* notes: the maintained index equals the rebuilt one, except for a known cause;
  a rebuild repairs every cause;
* tic-tac-toe: the board is the replay of the history, the history is legal;
* bundles: importing an export gives back what was exported; nothing leaves the
  prefix; the index does not travel; a cut bundle is refused whole;
* command lines: both parsers read a line alike, drop no word of it, and the line
  the inspector shows does what its form does;
* locks: an id never changes hands, whatever runs failed in between;
* `dlc new`: overwrites nothing it could have seen, and what it reports is complete;
* toolchain: what is reported built, or is launched, is made of the present sources and of
  what gen has left, and of nothing an earlier or another command left by the way;
* views: a view that is behind catches up.

## The modules

| Module | Models |
| --- | --- |
| `WebStore` | the worker, the OPFS bridge and the broadcast, for any number of tabs |
| `DurableStore` | what the store promises a page that awaits its calls (abstract) |
| `MCWebStoreSerial` | the refinement mapping from `WebStore` to `DurableStore` |
| `Registry` | registry, manifest, boot, sink |
| `Notes` | records and index, for any number of processes |
| `MCNotes` | values and symmetry for the runs of `Notes` |
| `TicTacToe` | the rules, the replay, and the game file shared by any number of processes |
| `MCTicTacToe` | a small board for its run, and a check of the code's table of lines |
| `FileTree` | where a path leads, and what writing a tree or emptying a directory makes of the files |
| `BundleText` | the text form of a tree: writer and parser, over tokens |
| `Bundles` | export, import and reset over one tree, and the bundle on its way |
| `CommandLine` | one command read by the native runner, the terminal and the form |
| `Generator` | the registry generator and its two locks, over any sequence of runs |
| `Scaffold` | `dlc new`, for any number of runs beside the user |
| `Toolchain` | `dlc build`, `run` and `gen`, for any number of callers |
| `Watchers` | the page's relays, listeners and views |
| `MCMethodIds` | one run of `Generator` and `Registry` |
| `MCPage` | one run of `MCWebStoreSerial` and `Watchers` |
| `MCTools` | small values for `Bundles`, `CommandLine`, `Scaffold` and `Toolchain`, and one run of all four |
| `WebStoreProofs` | theorems about `WebStore`, for any number of tabs |
| `WebStoreSerialProofs` | theorems about one tab that awaits its calls, and the refinement of `DurableStore` |
| `MethodIdProofs` | theorems about `Registry` and `Generator` |
| `NotesProofs`, `TicTacToeProofs`, `CommandLineProofs` | theorems about the module of that name |
| `FreshnessProofs` | theorems about `Toolchain` and `Watchers` |
| `FilesProofs` | theorems about `Scaffold` and `Bundles`, with the lemmas on paths both need |

A few operators are a faulty variant of the definition that follows them
(`WriteFileOnly` before `WriteAt`, `Forgiving` before `Decode`, and so on).  They
are not part of any model: each is a plausible slip in that code, kept to show that
the properties notice it.

### WebStore

`opfs` is the origin's store, by path.  Per tab `t`: `engine[t]` is the worker's
`engine` being non-null, `guest[t]` the tree behind the preopen the component
captured, `fileData[t]` the shim's `_fileData`, which is what `flush()` looks
at, `split[t]` says that these are two objects, `flushed[t]` is the digest last
persisted (digests are taken to be injective, so the tree itself stands for
it), `stale[t]` is `stale`, `inbox[t]` a broadcast under way.  `call[t][c]` is
where one `execute` or `clearStorage` stands.  What runs between two `await`s is
one step:

| Code | Actions |
| --- | --- |
| `execute()` up to its first `await` on the flush | `Execute`, or `StartBoot` when there is no engine |
| `boot()`: probe, `readDir`, `_setFileData`, import, manifest, digest | `StartBoot`, `Hydrate`, `SetFileData`, `FinishBoot` |
| `mod.execute()` and the head of `flush()` | `RunCommand` (inside `Execute` and `FinishBoot`): writes or removes one file, or only reads, or traps |
| `writeDir()` | `ListStore`, `Prune`, `SnapshotEntries`, `OpenFile`, `CloseFile` |
| tail of `flush()` and `execute()` | `FinishFlush`: record the digest, broadcast, deliver the events |
| `receiveStoreChanged` callback | `Deliver` |
| page load, or a crash | `Interrupt`; a page that reloads on an external change: `ReloadOnWarning` |
| an OPFS operation that rejects | `Fail` |
| `clearStorage()` and `api.reset()` | `StartClear`, `ClearEntry`, `FinishClear` |

A flush walks the live tree (`live`), so a later command of the same tab is seen
by a flush in progress as far as the JavaScript objects let it: `Object.entries`
fixes the names, an overwritten entry is the same object, a removed one keeps
its last bytes (`DetachEntry`).

Two variables are auxiliary.  `missed[t]` are the paths tab `t` had read when another
tab's finished flush changed them, where it knows something else of them.  `unsaid[t]`
says that a tab with no warning behind or before it may hold what the store does not, for
a cause that is never broadcast: its own probe was denied, or a call that was moving the
store ended without a broadcast (it failed, its page went away, or it was a reset).  A
BroadcastChannel is assumed: without one (`crosstab.ts:77`) nobody is ever told.  A
boot that fails after the import, between the manifest and the digest
(`worker.ts:170`), is not among the failures of `Fail`.

### Registry

`registry` maps each id to its owner: nobody, the platform, the app.  `chosen`
is how the app registered the platform's verbs, `rebuilder` whether it supplied
one, `env` the manifest, `sink` whether the host listens, `heard` what a
listener learns that asks for the surface on the event (as the inspector does).
`dropped` is auxiliary: ids the app unregistered that nobody has registered since.
Each action is one call of the app (`RegisterCore`, `RegisterAll`,
`RegisterDiscovered`, `SetIndexRebuilder`, `Register`, `Unregister`) or of the host
(`Boot`, `SetEnvironment`); the syncing a call does inside is part of it.  A call
that panics or returns an error before it changes anything is no step.

### Notes

`file[id]` is `records/<id>.json`, `index[id]` is `.dlc-index/records/<id>`, and
`proc[p]` the command process `p` is running, one file system call per step;
`os.WriteFile` is two, since it truncates first.  The second goes through the handle
the first opened, as POSIX has it: when the file was removed meanwhile its writer
writes to no name (`lost`), and of two writes that overlap the shorter may leave the
tail of the longer standing (`Torn`, as a file just truncated is).  A record projects to a row
through `Project`, which forgets all of the body but its first line.  `excused`
is auxiliary: the ids whose row may be behind for a cause the design knows (a
death, commands overlapping on the id, a rebuild that failed, an import or a
reset, which go past the app).  `BadIds` are the ids that are device names.

### TicTacToe

`file` is `game.json`: the last whole game, none, or `Torn`.  `proc[p]` is the command
process `p` is running: `Play` and `NewGame` are `handlePlay` and `handleNewGame` up to
their save (one read of the file and nothing else that others could see), `Truncate`
and `Save` are the two halves of the write, with handles as in `Notes`.  `Decide` and
`At` are `decide()` and `at()`.  `last` is auxiliary: the game that was there before
the file was last truncated.  Two plays that overlap lose a move, as in the code;
the properties say what is true for all that.

### Bundles

`BundleText` is `bft.go` over tokens: `Encode` is `writeNode()`, the `Parse` operators
are the recursive-descent parser, which keeps the string fields it knows, skips
objects it does not know, lets a later key win and refuses what follows the node.
What a token looks like in characters (white space, escapes) is left out, so
the parser's treatment of lone surrogates (`bft.go:398`) is not modelled.

`FileTree` is `fs.go` on paths and trees: `SafeJoin` and `Resolved` are where a written path
leads, `WriteTree` is `writeBFTTree()`, file by file up to the first that cannot be written,
`RemoveTree` is `removeTree()`.

`Bundles` is the tree the verbs act on, for any text format: `TextOf`, `NodeIn`, `FilesIn` and
`NodeAt` are its constants for `encodeBFT()`, `decodeBFT()`, `walk()` and `ReadTree()`, and
`MCTools.cfg` gives them `Encode`, `Decode`, `Walk` and `ReadTree` of `BundleText`.  `tree` maps a path to a content or to
`Folder`, `bundle` is the text at hand, `dataChanged` says whether the last command
ended with the event.

| Code | Actions |
| --- | --- |
| `handleExportFs()`, `ReadTree()` | `Export` |
| `handleImportFs()`, `writeBFTTree()`, `SafeJoin()` | `Import`; with the end of the text missing, `ImportCutShort`; a file that cannot be written ends it there |
| `handleResetFs()`, `removeTree()` | `Reset` |
| the app's `WriteFile()`, `RemoveFile()` | `AppWrites`, `AppRemoves` |
| a bundle nobody exported | `WriteByHand` |

What the code does and no property claims otherwise: an import that stops half-way
has changed the tree and sends no event; REPLACE and reset at the root take the index
with them (a rebuild makes it again); an export asked for a directory inside
`.dlc-index` contains it, since only the root of the index is recognised
(`fs.go:117`).

### CommandLine

`line` grows word by word and `form` field by field; the rest are functions of
them.  A word knows whether it is a flag and what it carries inline, which is what
both readers make of it.  The readers go word by word (`ReadWords`): natively `Permute`
sorts the line first and `FlagSetStep` reads it (the standard flag package, modelled as the
code uses it), in the terminal `TypedStep` reads it as it stands.  From
there on both tiers take the same steps, with a parameter where they differ:
`AssignPositionals`, `Complete` (defaults, then what the host supplies), `Request`
(validation, sources, and the fields in order of their numbers, `FieldsInOrder`).  `CopiedLine` is
what the inspector offers to copy, and `Pasted` what the terminal makes of it.  Here a text
has pieces (`Spelling`): its white space, quote marks and backslashes each by itself, and what stands
between them.  `Spelt` puts a value with white space into quotes as `JSON.stringify()` does,
and `Scan` is `tokenize()`, piece by piece.  White space is a space or a tab here; the rest of
what `/\s/` matches, a no-break space for one, only puts a value into quotes that would have done without.  A signed integer runs from
`-Half` up to `Half`, 2^63 in the code.

`Ordinary` excludes from `TiersAgree` the lines that the two tiers are known to read
apart: `--` and `-h`; the boolean spellings only `strconv.ParseBool` knows; standard
input; integers with padding, a plus sign, or out of range; and a value flag at the
end of the line, which natively (`run.go:507`) swallows the first argument and in the
terminal (`terminal.ts:318`) is refused.  `Copyable` excludes what the inspector
copies otherwise than it sends it: a bool, copied as `--force true`; a flag or value that
reads `-h` or `--help`; a value with a quote mark and no white space, such as `it's`, which is
copied bare and which `tokenize()` refuses or strips; and a value with a tab, which is
copied as `\t` and read back as a `t`.  The values are encoded by one definition,
`Encoded`, that both tiers share: `TiersAgree` says which values each takes and where they
go, and does not compare two encoders.  Also left out: two flags of a command with one
short name (the generator, `cli.go:248`, does not check; natively the flag package panics on the
second, `run.go:240`), and that the terminal runs a command before it
finds that nothing can render its answer (`terminal.ts:195`).

### Generator

`idLock` and `topicLock` are the files, as sets of rows, or `Missing`; `generated` is what
the generated code speaks.  `promised` is auxiliary: what was generated and never let
go since, by a blessing (`DLC_ID_LOCK_UPDATE`) or by the loss of a lock's contents.  Each action is
one run from any schema, told apart by how it ends: `Succeed`; `TopicLockRefuses`,
with the id lock already written (`main.go:239`); `NothingGenerated`, when another plugin
fails after both locks are written; `KilledInIdLock` and `KilledInTopicLock`, in the
middle of an `os.WriteFile`, which leaves an empty file.  An empty lock reads as
a lock of no rows, so a promise ends with it: that is the code's behaviour, not a claim that it
is good.  Two blessings differ: the id lock asks for `1`, the topic lock for anything.

### Scaffold

`disk` is the directory tree, `run[r]` a run of `dlc new` after it has found the directory
free: `New` is everything up to `WriteTree()`, then `MakeDirs`, `Open` and `Write`
are its file system calls, `Report` its answer, `GiveUp` a death or a failed write.
The user writes files meanwhile and throws projects away.  `meddled[r]` is
auxiliary: somebody else wrote below the project of `r` since it looked.  Two runs that
overlap in one directory overwrite each other, and the remains of a dead run make the
directory count as occupied; the properties speak of the rest.

### Toolchain

A command is a sequence of tools (`Plan`), each with the places it reads and one it
writes; a tool reads when it starts (`StartTool`) and has written when it ends
(`EndTool`); `StopTool` is its failure, with nothing or half of something written, and no
later tool runs.  What a file holds is a set of stamps: a place that is edited and how
often its project had been edited when it was read.  An artefact carries the stamps of all
that went into it.

`build` and `run` compile three places (`Compiled`): the sources, and the two packages that only
`gen` writes, the bindings that buf makes of the schema (`GeneratedOf`) and
`dlcconfig`, made of `dlc.toml` as the command read it (`ConfigOf`).  So a build after an edit of the
schema or of `dlc.toml`, or after a `gen` that broke off behind buf, holds the old
packages, as `gen.go:131` says.  Without the packages a compiler does not start.

| Code | Steps |
| --- | --- |
| `buildComponent()` (tinygo) | the compiled places, to `ComponentOf` |
| `buildWeb()` | that; `os.RemoveAll(webOut)`; jco, from the component to `AssetsOf` |
| `buildEmbedded()` | that of `buildComponent()`; the precompiler, to `CwasmOf` |
| `runNative()` | the compiled places, to a binary in the temporary directory; its launch |
| `runWeb()` | `buildWeb()`; the dev server, as far as it serves the engine |
| `runGen()` | the schema, to the bindings; the platform's TypeScript, where there is any; `dlc.toml`, to `dlcconfig` |

`--out` and `--web-out` are two flags, given or not independently (`build.go:47`), before the
manifest's paths and the defaults.  The component and the assets are different places: a `--web-out` that
holds the component, which the build would remove before it reads it, is not modelled.  A
platform without generated TypeScript (`gen.go:86`; not in `InheritedTS`) has `gen` succeed
with nothing copied.  `copyTree()` merges and never prunes; the copy is one place, so a
file that the platform dropped and that stays behind is not seen.  The platform's Go module, which a
build compiles too, is not among the places.  `dlc run native` builds to a file in the
temporary directory named after the project (`run.go:71`): two projects of one name
share it, and `DoneMeansFresh` says that this hurts only runs that overlap.  `met[c]` is
auxiliary: while the command of `c` ran, another one wrote where it reads or writes.

### Watchers

`fact` is what the views follow, odd while a flush has written half; `relay` is the
page's one subscription to the worker, on its way or there; `posted` counts signals the
page has not heard; `listeners` is the page's set; `reads[v]` the re-reads of a view under way and
`shown[v]` what it shows.  `signal` picks one of the two kinds, a flush or a new manifest,
which share no state.

| Code | Actions |
| --- | --- |
| `mountFiles()`, `mountInspector()`, `subscribe()`, `onFlush()` | `Mount`, `Install` (the worker takes the relay), `Subscribed` |
| `destroy()` | `Destroy` |
| the relay's callback | `Hear` |
| `listOPFSEntries()`, `liveSurface()` | `Look`, `Answer`, `Lose` (it throws) |
| `flush()` and its end, `setEnvironment()` | `BeginFlush`, `EndFlush`, `FailFlush`, `SetEnvironment` |
| the page is left | `Leave` |

`excused[v]` is auxiliary and names why a view may stay behind until the next
signal: the relay was still on its way; answers came out of order (`files.ts:81`
and the inspector show each as it comes); a re-read threw and no signal followed,
as after a flush that failed.  A view destroyed before its subscription has resolved
stays in the set of listeners.  `flush()` that throws drops the events of its command
as well (`worker.ts:255`), and a second boot resets the revision
(`worker.ts:160`); neither is in this module.  `Overtaken` marks, in the queue of a
view, the re-reads that a later one has been answered before.

## The runs

| Run | Shows |
| --- | --- |
| `page` | the store and the views of a page, in two parts that share no state.  One tab that awaits its calls, two files, two contents, with traps, page loads and resets at any step: `DigestMeansDurable`, `CutShortLeavesOldOrNew`, and `WebStore` implements `DurableStore`.  Views that come and go, failed flushes and answers in any order: `ViewsCatchUp`, under fairness |
| `webstore_tabs` | two tabs, all five faults: a tab that another's flush has overtaken is warned (`BehindTabIsWarned`) and reloads (`BehindTabCatchesUp`); one that no warning has reached or will reach has the store's tree for persisted (`UnwarnedTabIsCurrent`) |
| `webstore_cross_tab` | violation: a tab booted while another flushed; its command writes file `b`, the other's flush of `a` ends, and the first tab's flush prunes `a`, which it never touched |
| `webstore_overlap` | violation: a flush has created a file, a second call removes it again, finds the digest last persisted, skips its flush and announces the removal while the store has the file |
| `webstore_boot_race` | violation: two calls before the engine is up boot twice and split the tree |
| `webstore_failed_flush` | violation: a failed flush followed by an undo is acknowledged and not durable |
| `method_ids` | the locks and the registry, in two parts that share no state.  Any sequence of edits and of successful, refused, cancelled and killed generator runs: every promised id and topic is still spoken under the same name (`PromisesKept`, `PromisedIdsUnambiguous`) and still guarded (`LocksGuardPromises`).  Every order of init calls, boots and manifests: `SurfaceInLine`, `HeardSurfaceInLine` and three action properties |
| `registry_override` | violation: a platform id taken over by accident |
| `notes` | two processes, two records, deaths, imports and resets: `DriftHasACause`, `RebuildRepairs` |
| `notes_device_name` | violation: a device name stops every rebuild |
| `tictactoe` | two processes and one game file, deaths and resets at any step: what can be loaded is a legal game judged as its moves are (`JudgedRight`), it replays to itself (`TimeTravelAgrees`), and a play that meets no other command is one legal move (`PlaysOneLegalMove`) |
| `tools` | files and lines: see below |

`tools` has fourteen properties, in four parts that share no state; `part` says which one
moves, so the run is the sum of four state spaces and not their product (and so are `page`
and `method_ids`):

* bundles: `ReplaceRestores` (an export imported with REPLACE restores its files),
  `StaysUnderPrefix`, `IndexStaysHome`, `ReadWholeOrNotAtAll`;
* commands: `TiersAgree`, `NothingDropped`, `OrderIsFree`, `CopiedLineAgrees`, for every line
  of up to four words and every content of the form;
* scaffold: `NewSparesWork`, `ProjectAsAsked`, with two runs, in nested projects,
  deaths at any file system call and the user at work;
* toolchain: `DoneMeansFresh`, with failures at any tool, edits at any moment and the
  leftovers of earlier commands.

Four type invariants (`BundlesTypeOK`, `CliTypeOK`, `ScaffoldTypeOK`,
`WatchersTypeOK`) say more than types: that every path stands in a directory,
that a mounted view is a listener.  `ReadWholeOrNotAtAll` is that the text of a bundle reads
back as the files that were exported, annotated or not, and is refused when it was cut short.

The violation runs each refute one sentence of a comment or of the README; the
findings in `PROJECT.json` quote it.  They use the same definitions as the passing
runs with other constants: more calls in flight, or a fault switched on.

### Bounds, and why they are enough

* `page`, store: two names let a flush be half done, two contents tell an
  overwrite from a creation, one call is what a page that awaits has.  Commands
  are not counted: runs of any length are covered.
* `webstore_cross_tab`: two names, since the tab that prunes a file has to write another.
* `webstore_tabs`: the properties speak of one path and of pairs of tabs; one
  file and one call per tab give every interleaving of a boot, a flush, a
  message and a page load on that path.  Files interact only through the order of
  the loop, which the run `page` covers.
* `method_ids`, registry: the blocks are treated id by id, so one id per block would do; the
  filesystem block has two.  Revisions 1 and 2 allow newer, repeated and lower
  manifests.
* `notes`: two processes on two ids give overlap on one id and on two; two bodies
  with one first line give records that differ and project alike.  Processes,
  ids and bodies are interchangeable in that run, which uses symmetry for all three; its
  properties are safety properties.

* `tictactoe`: four squares and the lines {1, 2} and {1, 3} have these endings: a win of
  either player on either line, a win on the last square, a draw.  A move that fills
  two lines at once needs a fifth square, which multiplies the states by twenty.
  Two processes make every overlap of two saves.  The code's own table of eight
  lines is compared with the rows, columns and diagonals by an `ASSUME` of
  `MCTicTacToe`.

* `method_ids`, locks: two rpcs and two ids, two events and one topic: enough for an id
  to be retired, reserved, given to another and swapped, for a topic to pass from one event
  to another, and for each lock to be behind the other.  The proofs cover all other sizes.
* `tools`, bundles: a file `a`, a file below a directory `a`, an entry named `../b`, and a
  file of the index; `MaxDepth` (2) keeps an import from nesting an import for ever.
* `tools`, commands: a command with a flag of each kind, optional, required, repeated and
  with a default, and one that reads a file; `MaxWords` (4) holds a flag, its value and two
  arguments in every order; the form takes a quote mark, a tab, and a value with a
  space, a quote and a backslash; `Half` (8) puts 5, -5 and 99 inside, across and
  outside the ranges.
* `tools`, scaffold: two runs; a project and another inside its `hosts`; four templates, of
  no tier, of a slot each for two tiers, and the component shim; a third tier that has
  no template.
* `tools`, toolchain: two callers and two projects of one name, one the platform of
  the other, whose own platform has no TypeScript.  `MaxAsked` (3) commands are given before `StartOver`
  clears the places and the counters: a `gen` that lets the others compile, one that leaves
  something behind or overlaps, and one that meets it.  `MaxEdits` lets one of the projects
  be edited once, which tells old from new.
* `page`, views: two views, so that one may come and go beside the other; `MaxMoves` (2), since a
  view that missed one signal is to be mended by the next; `MaxReads` (2), so that
  answers may cross.

Where values differ by name alone and every property is a safety property, TLC takes states
that differ by a renaming for one: also the rpcs, the events and the filesystem verbs of
`method_ids`, and the runs of `dlc new` and the callers of `tools`.  `page` and
`webstore_tabs` check liveness and use no symmetry.

`WebStore`, `Registry`, `Notes` and `TicTacToe` have no counters: their state spaces
are finite as they stand.  The bounds named above are the only ones of the others.

### Fairness

`FairSpec` of `WebStore` assumes weak fairness of `Deliver`, since a message posted to
a `BroadcastChannel` of a live page arrives, and of `ReloadOnWarning`, since the page
of notes reloads when it hears of an external change
(`example-apps/notes/hosts/web/src/main.ts:34`).  Nothing is assumed of the user:
a call may stay in flight for ever and no call need ever be made.  The page is
assumed to have installed its listener.

`WatchersFairness` assumes that what the code has asked for comes about: the worker takes
the relay it is sent (`Install`), the page the signals it is posted (`Hear`), and each
operation on OPFS settles, with success or an error (the end of a flush, the end of a
re-read).  Nothing is assumed of the user, of flushes being started, or of the order of answers.

## The proofs

What a run shows for two tabs, processes or callers, the theorems show for any number
of them and for every choice of the constants that satisfies the module's named
assumption.  A theorem about an invariant comes from an inductive strengthening of it.  The
table names the strengthening; it is defined, part by part, before the lemmas that carry it
from step to step.

| Module | Theorem | States | From |
| --- | --- | --- | --- |
| `WebStoreProofs` | `TypeCorrect` | `TypeOK` | `IInv` |
| | `BehindTabsAreWarned` | `BehindTabIsWarned` | `IInv`, and the property |
| `WebStoreSerialProofs` | `DigestIsDurable` | `DigestMeansDurable` | `SInv` |
| | `OldOrNewSurvives` | `CutShortLeavesOldOrNew` | `SInv` |
| | `Implements` | `ImplementsDurableStore` (refinement) | `SInv` |
| `MethodIdProofs` | `TypeCorrect` | `TypeOK` | itself |
| | `SurfaceFollowsFacts` | `SurfaceInLine` | itself and the types |
| | `ListenersHearTheTruth` | `HeardSurfaceInLine` | itself and the types |
| | `NoManifestUnheard`, `OverridesAreSpared`, `RepeatsAreSilent` | `AppliedManifestIsHeard`, `OverrideIsNotOverwritten`, `RepeatChangesNothing` (steps) | the types |
| | `GenTypeCorrect`, `PromisesAlwaysKept`, `LocksAlwaysGuard`, `PromisedIdsNeverAmbiguous` | `GenTypeOK`, `PromisesKept`, `LocksGuardPromises`, `PromisedIdsUnambiguous` | `GenIInv` |
| `CommandLineProofs` | `CliTypeCorrect` | `CliTypeOK` | itself |
| | `SameRequestOnEveryTier` | `TiersAgree` | the types |
| | `OrderStaysFree` | `OrderIsFree` | the types |
| | `CopiedLineIsTheForm` | `CopiedLineAgrees` | the types |
| | `NothingIsDropped` | `NothingDropped` | the types |
| `NotesProofs` | `TypeCorrect` | `TypeOK` | `TypeInv` |
| | `DriftIsExcused` | `DriftHasACause` | `NInv` |
| | `RebuildRepairsAll` | `RebuildRepairs` (step), where `BadIds = {}` | `NInv` |
| `TicTacToeProofs` | `TypeCorrect` | `TypeOK` | `GInv` |
| | `GamesAreJudgedRight` | `JudgedRight` | `GInv` |
| | `ReviewsAgree` | `TimeTravelAgrees` | `GInv` |
| | `PlaysAreLegal` | `PlaysOneLegalMove` (step) | `GInv` |
| `FilesProofs` | `TypeCorrect` | `ScaffoldTypeOK` | `SInv` |
| | `NewOverwritesNothingSeen` | `NewSparesWork` (step) | `SInv` |
| | `ReportsAreTrue` | `ProjectAsAsked` (step) | `SInv` |
| | `BundlesTypeCorrect` | `BundlesTypeOK` | `BundlesInv` |
| | `NothingLeavesThePrefix` | `StaysUnderPrefix` (step) | `BundlesInv` |
| | `ReplaceBringsBack` | `ReplaceRestores` (step) | `BundlesInv` |
| `FreshnessProofs` | `DoneIsFresh` | `DoneMeansFresh` (step) | `TInv` |
| | `ViewsTypeCorrect` | `WatchersTypeOK` | `WInv` |
| | `NoViewIsForgotten` | `NobodyForgotten`, the safety half of `ViewsCatchUp` | `WInv` |

Why the strengthenings are needed:

* `WebStore`.  The types alone are not kept: what a flush writes depends on what its call
  carries, so `CallsOK` says what a call holds at each phase (`CallOK`).  That a tab is
  behind only with a message on its way or the stale mark set is inductive with it.
* One tab (`SerialAssumption`: one tab, no overlapping calls, no failed or denied operation).
  `TreeInv` is that the engine and the flush look at one tree; `BootOK` that a path that has been
  read is as the store has it; `FlushOK` that what the flush has passed is done and what
  it has not is as the digest says, file by file; `RestInv` that at rest the store, the digest and,
  if all was acknowledged, the engine's tree agree.  The refinement takes each
  step of the worker to a step of `DurableStore` or to a stutter: the file that a
  flush creates, then fills, to `Create` and `Persist`, the end of a flush to the commit.
* `Registry`.  `WithBlock` fills a block and `WithoutBlock` empties it; `BlockTypes`,
  `SyncFilesystemEffect` and the lemmas after them say what a sync does to each block and what it
  leaves alone, and an id that somebody registers leaves `dropped`.
* `Generator`.  That the next generation keeps a promise needs the lock it compares with to hold
  it, and that the lock still holds it after a run that failed needs that the lock is
  written only with rows that keep it; `Unambiguous` says that what is generated gives each name
  one id and each id one name.  What a lock accepts contains what is still promised
  (`AcceptedRowsKeepPromises`, `AcceptedTopicsKeepPromises`).
* `Notes`.  `SoleInv`: an id that is not excused is in the hands of one command at most;
  `PhaseInv`: that command has its record and its row as its phase wants them
  (`RecordOK`, `RebuildOK`); `RestInv`: in nobody's hands, row and record agree.  `AloneInv` carries
  the rebuild.  The hypothesis `BadIds = {}` of `RebuildRepairsAll` is one the run
  `notes_device_name` shows to be needed.
* `TicTacToe`.  A game that can be loaded has a `Course`: a run of games from the fresh one,
  each a legal move after the one before, that ends with it (`Sound`).  Judging and
  replaying follow from its course, for a history of any length.
* `CommandLine`.  The types are enough, since what the front ends make of a line are functions
  of it; the work is an induction on the line, for lines of any length.  For
  `TiersAgree`: of an ordinary line, `Permute` makes two piles, the flags with their values and
  the bare words, and reading the first and then leaving over the second comes to what the
  terminal makes of the line as typed, word by word (`Sorts`, `Alike`); beyond that, both tiers accept and
  encode alike what is not one tier's own spelling.  For `OrderIsFree`: a flag that carries its own value
  and a bare word commute in the terminal's reader, and `Permute` makes the same piles of both
  orders.  For `CopiedLineAgrees`: a value that is copied into quotes, or has nothing in it to quote, is scanned
  back to its text, so that the words of the copied line are those it was made of; they are read field by field, each field that holds
  something adding its value to what the form has so far, and a flag that is given takes no position.
  For `NothingDropped`: an injection (`Fits`) from the places of a word on the line to the places of its text
  is carried through `Permute` (`Kept`), the reading (`Followed`), the giving out of positions
  (`DealtIn`, where what is left over is cut in two), the defaults, and the fields, every flag of the
  command having its rank among them (`FieldsRanked`).
* `Scaffold`.  `TreeInv`: every path stands in directories.  `RunInv`: a run has the rest of its
  files before it, and where nobody meddled all that stands below its project is what it has
  written so far, whole but for the file that is open (`OwnWork`).
* `Bundles`.  `Tree`: the paths of the tree are clean ones (no `.`, no `..`, no slash inside
  a name) and each stands in directories up to the root; `Faithful`: so are the paths of what was
  exported, and each has one content.  `Resolved` and `SafeJoin` lead to clean paths whatever
  they are given (`CleanIsClean`), an accepted one to a path below its root, and a clean path back to itself,
  so that what was exported is written where it came from.  `FilesWritten` follows `WriteTree`
  file by file: the tree stays one and changes below the destination alone.  `FilesReplaced` adds
  that into an empty place it puts the files of the list and no others.  The
  theorems say what the verbs make of whatever the text reads as; what it reads as is, for
  `ReplaceBringsBack`, the hypothesis `[]ReadWholeOrNotAtAll`, which the run `tools` checks of `BundleText`, beside
  a bundle that is a sequence of tokens.
* `Toolchain`.  `JobInv`: a command is on its plan, and if it met no other, each place it has
  filled so far holds what was there to compile at some moment since it was given, with the packages
  that gen has left (`FreshFor`, `FreshSoFar`), and no command beside it writes where it reads or
  writes (`Apart`).  Lemmas about `Plan`, case by case over its verbs, say that every tool
  reads what is edited, the manifest, gen's packages, or what an earlier tool of the plan has
  made from these, and that a plan that compiles gen's packages does not write them.
* `Watchers`.  A view that is behind is not enough to carry the step: an old answer may put a view
  back that was not.  `Remembered` therefore speaks of every view: it is excused, or
  a signal is coming, or the last re-read it asked for is informed, or it is up to date and every
  answer still to come that has not been overtaken is informed.

What is assumed of the constants, and why the code justifies it:

* `StoreAssumption`: there are contents, and the values that stand for "absent", "empty" and
  "none" are nothing else.  `SerialAssumption` names the case: one tab, a page that
  awaits its calls, no rejected operation; the runs `webstore_overlap`, `webstore_boot_race` and
  `webstore_failed_flush` show what becomes of the rest.
* `RegistryAssumption`: the blocks of ids are disjoint, `SetEnv` is a core verb, revisions are positive
  and include 1.  `GeneratorAssumption`: a reservation is not the name of an rpc, and the values for
  "missing", "undeclared" and "host-local" are nothing else.
* `NotesAssumption`, `NothingAssumption`: bad ids are ids, an empty body has an empty preview, and
  "none" and "torn" are neither records nor rows.
* `CommandLineAssumption`: flags have names; no two of a command share a spelling, since the flag
  package panics on a flag defined twice (`run.go:240`), or a field, which are numbers of one
  protobuf message; values come from one of three sources; positions run from 1 without
  gaps (`checkPositionals()`); a word is its text, a text the pieces it is
  spelt with, and no flag's name has a mark in it; and `true` does not look like a number.
* `BoardAssumption`: finitely many squares, and lines that have squares.
* `ScaffoldAssumption`: templates are distinct non-empty paths, `dlc.toml` and the component shim
  are among them, tiers have names, as in `scaffold.go` and `tiers.go`.
* `BundlesAssumption`: what a name with a slash splits into, and the places a command may name, hold no
  slash; what the app writes has been through `SafeJoin()`, so that its path is clean.
* `ToolchainAssumption`: a platform that has TypeScript to copy is a project, since somebody edits it.
* `WatchersAssumption`: the bounds are numbers, and a view may read at least once.

Only model-checked so far:

* liveness (`BehindTabCatchesUp`, `ViewsCatchUp`): the prover has no `ENABLED`.  Of
  `ViewsCatchUp` the safety half is proved;
* `ReadWholeOrNotAtAll` and `IndexStaysHome`: the parser and `ReadTree()` they rest on are
  recursive operators, for which the prover has no backend;
* `UnwarnedTabIsCurrent`, whose strengthening would have to follow two flushes over one
  store, file by file.

Where an invariant needed an induction over the length of a history, a line, a path or a list of files
(`TicTacToe`, `CommandLine`, `Scaffold`, `Bundles`), which the library's theorems cannot give
since they take an operator as a parameter, it is
done by a least counterexample, `<` on `Nat` being well-founded, or as the induction on sequences that
states its hypothesis as a set (`SeqInduction`).

## Not modelled

* `setEnvironment()` of the worker, whose engine side is `SetEnvironment` of `Registry`; no
  page calls it by itself.
  It has no `try` around its command (`worker.ts:295`), so a trap leaves the batch of events open.
* In `WebStore`, paths that are a file in one tree and a directory in the other, names an
  object inherits (`"constructor" in wanted`, `opfs.ts:217`), digests of 32 bits that collide:
  hazards in `PROJECT.json`.
* The relay of external changes: `WebStore` takes it as installed.
* In `Notes`, ids that differ by case only, and a record whose content names
  another id than its file.
* `listFiles`, `open-record`, `list-records`, `version`: they only read.
* In `CommandLine`, single characters other than spaces, tabs, quote marks and backslashes; help texts,
  completion.  Signed
  zigzag integers, which the generator (`cli.go:279`) treats as
  plain ones, are no kind of flag here.
* The inspector's `run()`, which shows the output of whichever command ends last.
* The minimal host of the embedded runner: its resources carry no state but the
  buffers of its streams, and nothing runs beside it.
* The hello example (stateless), the parity runner and the scaffold's golden test (drivers).
* Rendering, templates, generated bindings, transpiled components, board support.  The two
  transpiled `engine.component.js` alone are 25,000 of the repository's 34,000 lines of implementation: they
  are the engine again, in another form, and what they do is modelled from its Go source.

## Plan

Done: every module above, and the proofs of `WebStore` (with its refinement), `Registry`,
`Generator`, `Notes`, `TicTacToe`, `CommandLine`, `Scaffold`, `Bundles`, `Toolchain` and `Watchers`.  What
remains:

1. `BundleText`: that cutting a text short anywhere leaves none that reads, by the depth of its
   brackets, which a function over positions can count.
2. In `WebStore`: a tree with directories, `setEnvironment()`, the relay of external changes, and a
   proof of `UnwarnedTabIsCurrent`.  In `CommandLine`: two encoders, and values at the ends of the ranges.
   In `Toolchain`: the platform's Go module, and the files of gen's copy one by one.
   In `Notes`: records whose content names another id than their file.
