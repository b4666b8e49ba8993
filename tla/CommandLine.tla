----------------------------- MODULE CommandLine -----------------------------
(***************************************************************************)
(* One command, three front ends: a line read by the native runner         *)
(* (dlc-platform/cli: permute(), the standard flag package,                *)
(* assignPositionals(), exec(), encodeRequest()), the same line read by    *)
(* the browser's terminal (web/terminal.ts, web/encode.ts), and the form   *)
(* of the inspector (web/inspector.ts), which also shows a line to copy.   *)
(* All work from one generated description of the command.  The line grows *)
(* word by word and the form field by field; what each front end makes of  *)
(* them are state functions.                                               *)
(***************************************************************************)
EXTENDS Integers, Sequences, FiniteSets, SequencesExt

CONSTANTS Commands,  \* the commands, each a sequence of flags
          Words,     \* what may be typed
          Entries,   \* what may be typed into a field of the form
          Spelling,  \* text -> its marks (White, Quotes, backslash) and what is between
          MaxWords,  \* bound: the length of a line
          Readable,   \* the files a path may name: path -> content
          Filled,    \* flag -> the value the host supplies when there is none
          Number,    \* the texts that look like integers: [n, sign, padded]
          Half       \* bound: half the range of an integer, 2^63 in the code

Slots(flags) == {f.positional : f \in ToSet(flags)} \ {0}

\* A word that starts with a dash has the name of a flag and maybe an inline
\* value; "--" and "-" have no name.
Plain(text) == [text |-> text, name |-> "", inline |-> FALSE, value |-> ""]
FlagWord(text, name) == [Plain(text) EXCEPT !.name = name]
FlagWith(text, name, value) ==
    [text |-> text, name |-> name, inline |-> TRUE, value |-> value]
Shown(f) == FlagWord("--" \o f.name, f.name)
ShownFlags == {Shown(f) : f \in UNION {ToSet(flags) : flags \in Commands}}

White == {" ", "\t"}
Quotes == {"\"", "'"}
Joined(pieces) == FoldLeft(LAMBDA text, piece : text \o piece, "", pieces)

\* What the generator and the flag package see to: a flag has a name, no two flags of
\* a command share a spelling (the flag package panics on a flag defined twice) or a
\* field, a value comes from one of three sources, and positions run from 1 without
\* gaps (checkPositionals()).  A word is its text, and a text the pieces it is spelt
\* with; a flag's name has no marks in it.  No text for true looks like an integer.
ASSUME CommandLineAssumption ==
    /\ \A flags \in Commands :
          /\ flags \in Seq(ToSet(flags))
          /\ \A f \in ToSet(flags) :
                /\ f.name # "" /\ f.field \in Nat
                /\ f.source \in {"literal", "file", "stdin"}
                /\ f.kind = "enum" => f.enumValues # <<>>
                /\ f.enumValues \in Seq(DOMAIN Spelling)
                /\ f.default \in DOMAIN Spelling \cup {""}
                /\ "--" \o f.name \notin White \cup Quotes
                /\ Joined(<<"--" \o f.name>>) = "--" \o f.name
          /\ \A i, j \in DOMAIN flags : i # j =>
                /\ {flags[i].name, flags[i].short} \cap {flags[j].name, flags[j].short}
                      \subseteq {""}
                /\ flags[i].field # flags[j].field
          /\ \E n \in 0..Len(flags) : Slots(flags) = 1..n
    /\ \A u, w \in Words \cup ShownFlags : u.text = w.text => u = w
    /\ Entries \subseteq DOMAIN Spelling
    /\ \A text \in DOMAIN Spelling :
          /\ Spelling[text] \in Seq(ToSet(Spelling[text])) /\ Spelling[text] # <<>>
          /\ Joined(Spelling[text]) = text
    /\ MaxWords \in Nat /\ Half \in Nat \ {0}
    /\ "true" \notin DOMAIN Number
    /\ \A text \in DOMAIN Number : Number[text].n \in Int

VARIABLES
    command,  \* the command at hand
    line,     \* what follows its name on the command line
    form      \* field -> what the inspector's form holds, "" for nothing
cliVars == <<command, line, form>>

IsDashed(w) == w.name # "" \/ w.text = "--"
IsHelp(w) == w.text \in {"-h", "--help"}

FlagsNamed(w) == {f \in ToSet(command) : w.name # "" /\ w.name \in {f.name, f.short}}
IsKnown(w) == FlagsNamed(w) # {}
FlagOf(w) == CHOOSE f \in FlagsNamed(w) : TRUE
TakesNext(w) == IsKnown(w) /\ ~w.inline /\ FlagOf(w).kind # "bool"

FlagNames == {f.name : f \in ToSet(command)}
NoValues == [n \in FlagNames |-> <<>>]
With(values, n, text) == [values EXCEPT ![n] = Append(@, text)]

-----------------------------------------------------------------------------
(* Reading a line word by word: the standard flag package's Parse() in the   *)
(* native runner, parseFlags() in the terminal.                              *)

\* The values by flag, the words left over, the flag whose value is the next word
\* ("" for none), and whether flags are no longer looked for.
Reading(values, rest, open, ended) ==
    [ok |-> TRUE, values |-> values, rest |-> rest, open |-> open, ended |-> ended]
Refusal == [ok |-> FALSE, values |-> <<>>, rest |-> <<>>, open |-> "", ended |-> TRUE]

TakeFlag(acc, w) ==
    IF ~IsKnown(w) THEN Refusal
    ELSE IF TakesNext(w) THEN Reading(acc.values, acc.rest, FlagOf(w).name, FALSE)
    ELSE Reading(With(acc.values, FlagOf(w).name, IF w.inline THEN w.value ELSE "true"),
                 acc.rest, "", FALSE)
TakeValue(acc, w) == Reading(With(acc.values, acc.open, w.text), acc.rest, "", FALSE)
LeaveOver(acc, w, ended) == Reading(acc.values, Append(acc.rest, w.text), "", ended)

\* Parse() stops at the first word that is no flag, or past a "--".
FlagSetStep(acc, w) ==
    IF acc.open # "" THEN TakeValue(acc, w)
    ELSE IF acc.ended \/ ~IsDashed(w) THEN LeaveOver(acc, w, TRUE)
    ELSE IF w.text = "--" THEN Reading(acc.values, acc.rest, "", TRUE)
    ELSE TakeFlag(acc, w)
\* parseFlags() takes flags and words in the order typed.
TypedStep(acc, w) ==
    IF acc.open # "" THEN TakeValue(acc, w)
    ELSE IF ~IsDashed(w) THEN LeaveOver(acc, w, FALSE)
    ELSE TakeFlag(acc, w)
ReadStep(tier, acc, w) ==
    IF ~acc.ok THEN acc
    ELSE IF tier = "native" THEN FlagSetStep(acc, w) ELSE TypedStep(acc, w)
ReadWords(tier, words) ==
    LET acc[i \in 0..Len(words)] ==
            IF i = 0 THEN Reading(NoValues, <<>>, "", FALSE)
            ELSE ReadStep(tier, acc[i - 1], words[i])
    IN  acc[Len(words)]

\* What a parse comes to; a flag that got no value is refused.
Parsed(values, rest) == [ok |-> TRUE, values |-> values, rest |-> rest]
Refused == [ok |-> FALSE, values |-> <<>>, rest |-> <<>>]
Parse(tier, words) ==
    LET r == ReadWords(tier, words)
    IN  IF r.ok /\ r.open = "" THEN Parsed(r.values, r.rest) ELSE Refused

\* permute(): flags, each with the word it takes, ahead of the rest.  A flag that
\* takes a value and has no word after it goes ahead without one; "--" ends it and
\* stays between the two.
Permuted(flags, pos, open, ended) ==
    [flags |-> flags, pos |-> pos, open |-> open, ended |-> ended]
PermuteWord(acc, w) ==
    IF acc.ended \/ ~IsDashed(w)
    THEN Permuted(acc.flags, Append(acc.pos, w), "", acc.ended)
    ELSE IF w.text = "--" THEN Permuted(acc.flags, acc.pos, "", TRUE)
    ELSE Permuted(Append(acc.flags, w), acc.pos, "", FALSE)
PermuteStep(acc, w) ==
    IF acc.open # "" THEN Permuted(Append(acc.flags, w), acc.pos, "", FALSE)
    ELSE IF acc.ended \/ ~IsDashed(w)
    THEN Permuted(acc.flags, Append(acc.pos, w), "", acc.ended)
    ELSE IF w.text = "--" THEN Permuted(acc.flags, acc.pos, "", TRUE)
    ELSE Permuted(Append(acc.flags, w), acc.pos,
                  IF TakesNext(w) THEN FlagOf(w).name ELSE "", FALSE)
PermuteAll(words) ==
    LET acc[i \in 0..Len(words)] ==
            IF i = 0 THEN Permuted(<<>>, <<>>, "", FALSE)
            ELSE PermuteStep(acc[i - 1], words[i])
    IN  acc[Len(words)]
Permute(words) ==
    LET p == PermuteAll(words)
    IN  p.flags \o (IF p.ended THEN <<Plain("--")>> ELSE <<>>) \o p.pos

ParseUnpermuted(words) == Parse("native", words)
NativeParse(words) == Parse("native", Permute(words))

\* dispatch(): -h anywhere asks for the usage instead.
TerminalParse(words) ==
    IF \E i \in DOMAIN words : IsHelp(words[i]) THEN Refused
    ELSE Parse("terminal", words)

-----------------------------------------------------------------------------
(* From values to a request; the two tiers follow the same steps *)

\* Positionals(): the flags that have a position, in its order.
Positionals == [i \in 1..Cardinality(Slots(command)) |->
                   CHOOSE f \in ToSet(command) : f.positional = i]

\* assignPositionals(): a flag that was given takes no slot, a repeated one takes
\* what is left, and nothing may be left over.
AssignFirst(acc, f) ==
    IF acc.values[f.name] # <<>> \/ acc.rest = <<>> THEN acc
    ELSE Parsed([acc.values EXCEPT ![f.name] = <<Head(acc.rest)>>],
                IF f.repeated THEN <<>> ELSE Tail(acc.rest))
Assign(acc, f) ==
    IF acc.values[f.name] # <<>> \/ acc.rest = <<>> THEN acc
    ELSE IF f.repeated THEN Parsed([acc.values EXCEPT ![f.name] = acc.rest], <<>>)
    ELSE Parsed([acc.values EXCEPT ![f.name] = <<Head(acc.rest)>>], Tail(acc.rest))
AssignPositionals(parsed) ==
    LET acc[i \in 0..Len(Positionals)] ==
            IF i = 0 THEN parsed ELSE Assign(acc[i - 1], Positionals[i])
    IN  acc[Len(Positionals)]

\* exec(), executeCommand(): defaults, then what the host fills in.
Complete(values) ==
    [n \in FlagNames |->
        LET f == CHOOSE g \in ToSet(command) : g.name = n
        IN  IF values[n] # <<>> THEN values[n]
            ELSE IF f.default # "" THEN <<f.default>>
            ELSE IF n \in DOMAIN Filled THEN <<Filled[n]>>
            ELSE <<>>]

InRange(n, lo, hi) == lo <= n /\ n < hi

\* appendField(): what each tier accepts of a value, and what it encodes.
BoolTexts(tier) == {"true", "false", "1", "0"}
                   \cup IF tier = "native" THEN {"T", "t", "TRUE", "True",
                                                 "F", "f", "FALSE", "False"} ELSE {}
Accepts(tier, f, text) ==
    CASE f.kind = "bool" -> text \in BoolTexts(tier)
      [] f.kind = "enum" -> text \in ToSet(f.enumValues)
      [] f.kind \in {"int", "uint"} ->
            /\ text \in DOMAIN Number
            /\ LET n == Number[text]
                   native == IF f.kind = "int" THEN InRange(n.n, -Half, Half)
                             ELSE n.sign = "" /\ InRange(n.n, 0, 2 * Half)
                   typed == f.kind = "int" \/ n.n >= 0
               IN  IF tier = "native" THEN ~n.padded /\ native ELSE typed
      [] OTHER -> TRUE
Encoded(f, text) ==
    CASE f.kind = "bool" -> text \in {"true", "1", "T", "t", "TRUE", "True"}
      [] f.kind = "enum" -> SelectInSeq(f.enumValues, LAMBDA v : v = text) - 1
      [] f.kind \in {"int", "uint"} ->
            IF Number[text].n < 0 THEN 2 * Half + Number[text].n ELSE Number[text].n
      [] OTHER -> text

\* resolve(), resolveSources(): a path stands for a file; "-" and a stdin source
\* stand for what is piped in, which only the native tier has.
SourceReadable(tier, f, text) ==
    /\ f.source = "stdin" => tier = "native"
    /\ f.source = "file" => IF text = "-" THEN tier = "native" ELSE text \in DOMAIN Readable
SourceText(f, text) ==
    CASE f.source = "literal" -> text
      [] f.source = "file" /\ text # "-" -> Readable[text]
      [] OTHER -> "piped"

\* encodeRequest(): fields in order of their numbers.
Lower(f) == {g \in ToSet(command) : g.field < f.field}
FieldsInOrder ==
    [i \in DOMAIN command |->
        CHOOSE f \in ToSet(command) : Cardinality(Lower(f)) = i - 1]
Fields(values, f) ==
    [i \in DOMAIN values[f.name] |->
        [field |-> f.field, typed |-> values[f.name][i],
         wire |-> Encoded(f, SourceText(f, values[f.name][i]))]]

NoRequest == [sent |-> FALSE, fields |-> <<>>]
Request(tier, parsed) ==
    LET assigned == AssignPositionals(parsed)
        values == Complete(assigned.values)
        Valid(f) ==
            /\ f.required => values[f.name] # <<>>
            /\ ~f.repeated => Len(values[f.name]) <= 1
            /\ \A text \in ToSet(values[f.name]) :
                  SourceReadable(tier, f, text) /\ Accepts(tier, f, SourceText(f, text))
    IN  IF parsed.ok /\ assigned.rest = <<>> /\ \A f \in ToSet(command) : Valid(f)
        THEN [sent |-> TRUE,
              fields |-> FlattenSeq([i \in DOMAIN command |-> Fields(values, FieldsInOrder[i])])]
        ELSE NoRequest

Native(words) == Request("native", NativeParse(words))
Typed(words) == Request("terminal", TerminalParse(words))

-----------------------------------------------------------------------------
(* The inspector's form *)

\* select(), field(): a field shows its default, and a list of choices its first.
FreshField(f) == IF f.default # "" THEN f.default
                 ELSE IF f.kind = "enum" THEN Head(f.enumValues) ELSE ""
FreshForm(flags) ==
    [n \in {f.name : f \in ToSet(flags)} |->
        FreshField(CHOOSE f \in ToSet(flags) : f.name = n)]

\* currentValues(), run()
FormValues == [n \in FlagNames |-> IF form[n] = "" THEN <<>> ELSE <<form[n]>>]
FormRequest == Request("terminal", Parsed(FormValues, <<>>))

\* commandLine(): every field that holds something, with its flag before it.  A
\* value with white space in it goes into quotes, as JSON.stringify() writes it.
Escaped(piece) == CASE piece \in {"\"", "\\"} -> <<"\\", piece>>
                    [] piece = "\t" -> <<"\\", "t">>
                    [] OTHER -> <<piece>>
HasWhite(text) == ToSet(Spelling[text]) \cap White # {}
SpeltBare(text) == Spelling[text]
Spelt(text) ==
    IF HasWhite(text)
    THEN <<"\"">> \o FlattenSeq([i \in DOMAIN Spelling[text] |->
                                     Escaped(Spelling[text][i])]) \o <<"\"">>
    ELSE Spelling[text]
CopiedField(f) ==
    IF form[f.name] = "" THEN <<>>
    ELSE <<" ", "--" \o f.name, " ">> \o Spelt(form[f.name])
CopiedLine == FlattenSeq([i \in DOMAIN command |-> CopiedField(command[i])])

\* tokenize(): the words before the one at hand, the pieces of that one, the quote
\* that is open ("" for none), whether a word has begun, and whether a backslash in
\* double quotes waits for what it escapes.
Scanned(out, cur, quote, started, escaped) ==
    [out |-> out, cur |-> cur, quote |-> quote, started |-> started, escaped |-> escaped]
TakePiece(z, piece) == Scanned(z.out, Append(z.cur, piece), z.quote, TRUE, FALSE)
Cut(z) == IF z.started THEN Append(z.out, Joined(z.cur)) ELSE z.out
ScanQuoted(z, piece) ==
    IF piece = "\\" /\ z.quote = "\"" THEN Scanned(z.out, z.cur, z.quote, TRUE, TRUE)
    ELSE IF piece = z.quote THEN Scanned(z.out, z.cur, "", TRUE, FALSE)
    ELSE TakePiece(z, piece)
ScanBare(z, piece) ==
    IF piece \in Quotes THEN Scanned(z.out, z.cur, piece, TRUE, FALSE)
    ELSE IF piece \in White THEN Scanned(Cut(z), <<>>, "", FALSE, FALSE)
    ELSE TakePiece(z, piece)
ScanStep(z, piece) ==
    IF z.escaped THEN TakePiece(z, piece)
    ELSE IF z.quote # "" THEN ScanQuoted(z, piece) ELSE ScanBare(z, piece)
Scan(pieces) ==
    LET acc[i \in 0..Len(pieces)] ==
            IF i = 0 THEN Scanned(<<>>, <<>>, "", FALSE, FALSE)
            ELSE ScanStep(acc[i - 1], pieces[i])
    IN  acc[Len(pieces)]

\* The request of a line put into the terminal, which refuses an open quote.
WordOf(text) ==
    IF \E w \in Words \cup ShownFlags : w.text = text
    THEN CHOOSE w \in Words \cup ShownFlags : w.text = text ELSE Plain(text)
Pasted(pieces) ==
    LET z == Scan(pieces)
        texts == Cut(z)
    IN  IF z.quote # "" THEN NoRequest
        ELSE Typed([i \in DOMAIN texts |-> WordOf(texts[i])])

-----------------------------------------------------------------------------
CliInit == \E c \in Commands :
    command = c /\ line = <<>> /\ form = FreshForm(c)

\* The line and the form share nothing: one of them is used at a time.
Type ==
    /\ form = FreshForm(command)
    /\ Len(line) < MaxWords
    /\ \E w \in Words : line' = Append(line, w)
    /\ UNCHANGED <<command, form>>

\* set(), or typing into a field.
Offered(f) == IF f.kind = "enum" THEN ToSet(f.enumValues) ELSE Entries \cup {""}
Fill(f, text) ==
    /\ line = <<>>
    /\ form' = [form EXCEPT ![f.name] = text]
    /\ UNCHANGED <<command, line>>

\* Another command is begun.
SelectOnly(c) == command' = c /\ line' = <<>> /\ UNCHANGED form
Select(c) ==
    /\ command' = c
    /\ line' = <<>>
    /\ form' = FreshForm(c)

CliNext ==
    \/ Type
    \/ \E f \in ToSet(command) : \E text \in Offered(f) : Fill(f, text)
    \/ \E c \in Commands : Select(c)
CliSpec == CliInit /\ [][CliNext]_cliVars

-----------------------------------------------------------------------------
CliTypeOK ==
    /\ command \in Commands
    /\ line \in Seq(Words) /\ Len(line) <= MaxWords
    /\ DOMAIN form = FlagNames
    /\ \A n \in FlagNames : form[n] = "" \/ form[n] \in DOMAIN Spelling

\* The spellings only one tier takes, told of a word wherever it stands on the
\* line: the terminator, -h as a word, a value flag that ends the line, standard
\* input, and the values for which the two readers of booleans and integers differ,
\* be they typed, a default, supplied by the host or read from a file.
DanglingFlag(words) == words # <<>> /\ TakesNext(Last(words))
OwnSpelling(text) ==
    \/ text \in BoolTexts("native") \ BoolTexts("terminal")
    \/ text = "-"
    \/ /\ text \in DOMAIN Number
       /\ LET n == Number[text]
          IN  n.padded \/ (n.sign # "" /\ n.n >= 0) \/ ~InRange(n.n, -Half, Half)
Ordinary(words) ==
    /\ \A i \in DOMAIN words :
          /\ words[i].text # "--" /\ ~IsHelp(words[i])
          /\ ~OwnSpelling(words[i].text) /\ ~OwnSpelling(words[i].value)
    /\ ~DanglingFlag(words)
    /\ \A f \in ToSet(command) : f.source # "stdin" /\ ~OwnSpelling(f.default)
    /\ \A n \in DOMAIN Filled : ~OwnSpelling(Filled[n])
    /\ \A path \in DOMAIN Readable : ~OwnSpelling(Readable[path])

\* The same line makes the same request, or none, on both tiers (encode.ts: "the
\* same command line must produce the same request bytes on every tier").
TiersAgree == Ordinary(line) => Native(line) = Typed(line)

\* The line the inspector shows for a form, put into the terminal, makes the
\* request the form makes ("the equivalent command line for what the form holds",
\* inspector.ts:48).  Left out are a filled-in bool, whose copied flag takes no
\* word; a flag or a value that asks for help; and the values that tokenize() reads
\* otherwise than commandLine() wrote them: a quote mark that stands bare, for want
\* of white space around it, and a tab, which JSON.stringify() spells with a t.
CarriesOver(text) ==
    IF HasWhite(text) THEN "\t" \notin ToSet(Spelling[text])
    ELSE ToSet(Spelling[text]) \cap Quotes = {}
Copyable ==
    \A f \in ToSet(command) : form[f.name] # "" =>
        /\ f.kind # "bool"
        /\ ~IsHelp(Shown(f)) /\ ~IsHelp(Plain(form[f.name]))
        /\ CarriesOver(form[f.name])
CopiedLineAgrees == Copyable => Pasted(CopiedLine) = FormRequest

\* No word is quietly dropped: when a request is sent, each bare word of the line
\* is the value of a field in it, as often as it was typed.
Times(text, words) == {i \in DOMAIN words : words[i].text = text}
Supplied(text, request) == {i \in DOMAIN request.fields : request.fields[i].typed = text}
NothingDropped ==
    \A request \in {Native(line), Typed(line)}, w \in ToSet(line) :
        request.sent /\ ~IsDashed(w) =>
            \E g \in [Times(w.text, line) -> Supplied(w.text, request)] :
                \A i, j \in Times(w.text, line) : g[i] = g[j] => i = j

\* A flag that carries its own value may stand on either side of an argument:
\* swapping the two changes nothing on either tier (permute()).
SelfContained(w) == w.name # "" /\ ~IsHelp(w) /\ IsKnown(w) /\ ~TakesNext(w)
Swapped(i) == [line EXCEPT ![i] = line[i + 1], ![i + 1] = line[i]]
OrderIsFree ==
    \A i \in 1..(Len(line) - 1) :
        /\ ~IsDashed(line[i]) /\ SelfContained(line[i + 1])
        /\ \A j \in 1..(i - 1) : ~IsDashed(line[j])
        => Native(Swapped(i)) = Native(line) /\ Typed(Swapped(i)) = Typed(line)
=============================================================================
