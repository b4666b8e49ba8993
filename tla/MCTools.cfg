\* Small instances of the four parts; see the comments in MCTools.tla.
SPECIFICATION ToolsSpec
CONSTANTS
    Alphabet <- EntryNames
    PlainText = {"x"}
    AppFiles <- WrittenFiles
    Places <- NamedPlaces
    HandMade <- Handwritten
    Annotations <- Comments
    IndexPath <- Index
    Segments <- SlashedNames
    MaxDepth = 2
    TextOf <- Encode
    NodeIn <- Decode
    FilesIn <- Walk
    NodeAt <- ReadTree
    Commands <- BothCommands
    Words <- TypedWords
    Entries <- FieldEntries
    Spelling <- Spellings
    MaxWords = 4
    Readable <- ReadableFiles
    Filled <- FilledByHost
    Number <- Numbers
    Half = 8
    Runs = {r1, r2}
    Apps <- ProjectPlaces
    Landscape = {"native", "web", "rp2350"}
    Templates <- SortedTemplates
    UserFiles <- FilesOfTheUser
    Callers = {c1, c2}
    Projects = {"app", "base"}
    ProjectName <- NamedAlike
    PlatformOf <- BuiltOn
    InheritedTS = {"base"}
    Declared <- TierSections
    TargetOf <- Targets
    OutFlags <- Flags
    MaxEdits <- OnlyAppEdited
    MaxAsked = 3
INVARIANTS
    BundlesTypeOK
    ReadWholeOrNotAtAll
    CliTypeOK
    TiersAgree
    NothingDropped
    OrderIsFree
    CopiedLineAgrees
    ScaffoldTypeOK
PROPERTIES
    ReplaceRestores
    StaysUnderPrefix
    IndexStaysHome
    NewSparesWork
    ProjectAsAsked
    DoneMeansFresh
SYMMETRY Alike
