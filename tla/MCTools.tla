------------------------------ MODULE MCTools ------------------------------
(***************************************************************************)
(* Four parts that share no state, checked in one run: the bundles, the    *)
(* three readings of a command, `dlc new`, and the toolchain verbs.  Part  *)
(* says which of them moves; the others rest in one of their initial       *)
(* states.                                                                 *)
(***************************************************************************)
EXTENDS Bundles, BundleText, CommandLine, Scaffold, Toolchain

-----------------------------------------------------------------------------
(* Bundles: a file, a file below a directory of that name, and the index.    *)

EntryNames == <<"", "../b", ".dlc-index", "a", "b", "r">>
Index == <<".dlc-index">>
SlashedNames == "../b" :> <<"..", "b">>
WrittenFiles == { << <<"a">>, "x" >>, << <<"a", "b">>, "y" >>,
                  << <<".dlc-index", "r">>, "x" >> }
NamedPlaces == { <<>>, <<"a">>, <<".", "a", "..", ".dlc-index">>, <<"..">> }
Handwritten == { File("x"), Dir("../b" :> File("x") @@ "" :> Dir("a" :> File("x"))) }
Comments == { << Field("comment", <<Quoted("a")>>) >>,
              << Field("meta", Object(<< Field("type", <<Quoted("x")>>) >>)) >> }

-----------------------------------------------------------------------------
(* Commands: one with a flag of each kind, one that reads a file.            *)

MakeFlag(name, short, field, kind, positional) ==
    [name |-> name, short |-> short, field |-> field, kind |-> kind,
     positional |-> positional, repeated |-> FALSE, required |-> FALSE,
     default |-> "", source |-> "literal", enumValues |-> <<>>]
Create ==
    << [MakeFlag("title", "t", 2, "string", 1) EXCEPT !.required = TRUE],
       [MakeFlag("tags", "g", 3, "string", 2) EXCEPT !.repeated = TRUE],
       MakeFlag("force", "f", 5, "bool", 0),
       [MakeFlag("kind", "k", 1, "enum", 0)
            EXCEPT !.enumValues = <<"note", "5">>, !.default = "note"],
       MakeFlag("count", "n", 4, "int", 0),
       [MakeFlag("at", "a", 6, "uint", 0) EXCEPT !.required = TRUE] >>
ImportBundle ==
    << [MakeFlag("bundle", "b", 1, "string", 1)
            EXCEPT !.source = "file", !.required = TRUE],
       MakeFlag("count", "n", 2, "uint", 2) >>
BothCommands == {Create, ImportBundle}
TypedWords ==
    { Plain("hello"), Plain("5"), Plain("99"), Plain("-"), Plain("--"),
      FlagWord("-h", "h"), FlagWord("-5", "5"), FlagWord("--title", "title"),
      FlagWith("-t=5", "t", "5"), FlagWord("--tags", "tags"), FlagWord("-f", "f"),
      FlagWith("--force=T", "force", "T"), FlagWord("-n", "n"),
      FlagWith("--kind=5", "kind", "5") }
\* A value with quotes and a backslash in it, and the two kinds not carried over.
FieldEntries == {"5", "-h", "it's", "a \"b\\", "a\tb"}
Spellings ==
    "5" :> <<"5">> @@ "-h" :> <<"-h">> @@ "note" :> <<"note">> @@
    "it's" :> <<"it", "'", "s">> @@ "a \"b\\" :> <<"a", " ", "\"", "b", "\\">> @@
    "a\tb" :> <<"a", "\t", "b">>
Numbers ==
    "5"  :> [n |-> 5,  sign |-> "",  padded |-> FALSE] @@
    "-5" :> [n |-> -5, sign |-> "-", padded |-> FALSE] @@
    "99" :> [n |-> 99, sign |-> "",  padded |-> FALSE]
ReadableFiles == "hello" :> "5" @@ "a \"b\\" :> "5"
FilledByHost == "at" :> "5"

-----------------------------------------------------------------------------
(* Scaffolding: a project in place, and one inside its slots.                *)

ProjectPlaces == { <<>>, <<"hosts">> }
SortedTemplates == << <<"cmd", "engine-component", "main.go">>, <<"dlc.toml">>,
                      <<"hosts", "native", "main.go">>, <<"hosts", "web", "main.ts">> >>
FilesOfTheUser == { <<"dlc.toml">>, <<"hosts">> }

-----------------------------------------------------------------------------
(* The toolchain: two projects of one name, one the platform of the other.   *)

NamedAlike == [p \in {"app", "base"} |-> "app"]
BuiltOn == "app" :> "base" @@ "base" :> "nowhere"
OnlyAppEdited == [p \in {"app", "base"} |-> IF p = "app" THEN 1 ELSE 0]
NoPaths == [root |-> "hosts", component |-> "", assets |-> "", cwasm |-> ""]
TierSections ==
    "app" :> [t \in {"native", "web", "rp2350"} |->
                 IF t = "web" THEN [NoPaths EXCEPT !.component = "web.wasm"]
                 ELSE NoPaths] @@
    "base" :> [t \in {"native"} |-> NoPaths]
Flags == {NoFlags, [NoFlags EXCEPT !.out = "elsewhere"],
          [NoFlags EXCEPT !.webOut = "elsewhere"]}
Targets == "native" :> "native" @@ "web" :> "wasip2" @@ "rp2350" :> "pulley32"

-----------------------------------------------------------------------------
VARIABLE part

Parts == {"bundles", "commands", "scaffold", "toolchain"}
toolsVars == <<part, bundlesVars, cliVars, scaffoldVars, toolchainVars>>

ToolsInit ==
    /\ part \in Parts
    /\ BundlesInit /\ ScaffoldInit /\ ToolchainInit
    /\ CliInit /\ (part # "commands" => command = ImportBundle)

ToolsNext ==
    /\ UNCHANGED part
    /\ \/ /\ part = "bundles" /\ BundlesNext
          /\ UNCHANGED <<cliVars, scaffoldVars, toolchainVars>>
       \/ /\ part = "commands" /\ CliNext
          /\ UNCHANGED <<bundlesVars, scaffoldVars, toolchainVars>>
       \/ /\ part = "scaffold" /\ ScaffoldNext
          /\ UNCHANGED <<bundlesVars, cliVars, toolchainVars>>
       \/ /\ part = "toolchain" /\ ToolchainNext
          /\ UNCHANGED <<bundlesVars, cliVars, scaffoldVars>>

ToolsSpec == ToolsInit /\ [][ToolsNext]_toolsVars

\* Every property is a safety property, and neither runs nor callers are told apart.
Alike == Permutations(Runs) \cup Permutations(Callers)
=============================================================================
