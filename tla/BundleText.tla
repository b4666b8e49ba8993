----------------------------- MODULE BundleText -----------------------------
(***************************************************************************)
(* BFT, the text form of a directory tree (dlc-platform/bft.go): what      *)
(* encodeBFT() writes and what the recursive-descent decodeBFT() makes of  *)
(* a sequence of tokens.  A token is a punctuation mark or a whole JSON    *)
(* string; white space is left out, so the text may be cut between tokens. *)
(***************************************************************************)
EXTENDS FileTree, Functions

CONSTANTS Alphabet,    \* the names of entries, in alphabetical order
          PlainText    \* the contents isTextContent() finds readable

Dir(entries) == [kind |-> "directory", entries |-> entries]
File(content) == [kind |-> "file", content |-> content]
NoEntries == [name \in {} |-> <<>>]

Mark(m) == <<m>>
Quoted(s) == <<"string", s, "as is">>
Base64(s) == <<"string", s, "base64">>
IsString(token) == token[1] = "string"

\* sortedKeys()
Sorted(names) == SelectSeq(Alphabet, LAMBDA n : n \in names)

Separated(parts) ==
    FoldLeft(LAMBDA text, part : IF text = <<>> THEN part
                                 ELSE text \o <<Mark(",")>> \o part, <<>>, parts)
Field(key, value) == <<Quoted(key), Mark(":")>> \o value
Object(fields) == <<Mark("{")>> \o Separated(fields) \o <<Mark("}")>>

\* writeNode().  Extra stands for fields that other writers may add and this one
\* does not: encodeBFT() is Encode(node, <<>>).
RECURSIVE Encode(_, _)
Encode(node, extra) ==
    IF node.kind = "directory"
    THEN LET names == Sorted(DOMAIN node.entries)
             entries == [i \in DOMAIN names |->
                            Field(names[i], Encode(node.entries[names[i]], extra))]
         IN  Object(extra \o << Field("type", <<Quoted("directory")>>),
                                Field("entries", Object(entries)) >>)
    ELSE IF node.content \in PlainText
    THEN Object(extra \o << Field("type", <<Quoted("text")>>),
                            Field("content", <<Quoted(node.content)>>) >>)
    ELSE Object(extra \o << Field("type", <<Quoted("binary")>>),
                            Field("encoding", <<Quoted("base64")>>),
                            Field("content", <<Base64(node.content)>>) >>)

-----------------------------------------------------------------------------
(* The parser: each function returns whether it succeeded, what it read and  *)
(* the position after it.                                                    *)

Failed == [ok |-> FALSE, value |-> <<>>, next |-> 0]
Read(value, next) == [ok |-> TRUE, value |-> value, next |-> next]
Peek(text, i) == IF i <= Len(text) THEN text[i] ELSE Mark("end")
IsKey(text, i) == IsString(Peek(text, i)) /\ Peek(text, i + 1) = Mark(":")

\* f with x mapped to y, as an assignment to a Go map.
Put(f, x, y) == [k \in DOMAIN f \cup {x} |-> IF k = x THEN y ELSE f[k]]

RECURSIVE ParseNode(_, _), ParseFields(_, _, _), ParseEntries(_, _, _)

\* object(): the string fields and the entries; any other object is skipped.
NoFields == [strings |-> NoEntries, entries |-> NoEntries]
ParseObject(text, i) ==
    IF Peek(text, i) # Mark("{") THEN Failed
    ELSE IF Peek(text, i + 1) = Mark("}") THEN Read(NoFields, i + 2)
    ELSE ParseFields(text, i + 1, NoFields)

\* After the value r of a field: another field, or the end of the object.
FieldsAfter(text, r, fields) ==
    IF ~r.ok THEN Failed
    ELSE IF Peek(text, r.next) = Mark(",") THEN ParseFields(text, r.next + 1, fields)
    ELSE IF Peek(text, r.next) = Mark("}") THEN Read(fields, r.next + 1)
    ELSE Failed

EntriesObject(text, i) ==
    IF Peek(text, i) # Mark("{") THEN Failed
    ELSE IF Peek(text, i + 1) = Mark("}") THEN Read(NoEntries, i + 2)
    ELSE ParseEntries(text, i + 1, NoEntries)
FieldsAfterEntries(text, r, fields) ==
    FieldsAfter(text, r, [fields EXCEPT !.entries = r.value])

ParseFields(text, i, fields) ==
    LET key == Peek(text, i)[2]
        value == Peek(text, i + 2)
    IN  IF ~IsKey(text, i) THEN Failed
        ELSE IF key = "entries"
        THEN FieldsAfterEntries(text, EntriesObject(text, i + 2), fields)
        ELSE IF value = Mark("{")
        THEN FieldsAfter(text, ParseObject(text, i + 2), fields)
        ELSE IF IsString(value)
        THEN FieldsAfter(text, Read(value, i + 3), [fields EXCEPT !.strings = Put(@, key, value)])
        ELSE Failed

EntriesAfter(text, r, entries) ==
    IF Peek(text, r.next) = Mark(",") THEN ParseEntries(text, r.next + 1, entries)
    ELSE IF Peek(text, r.next) = Mark("}") THEN Read(entries, r.next + 1)
    ELSE Failed
WithEntry(text, key, r, entries) ==
    IF r.ok THEN EntriesAfter(text, r, Put(entries, key, r.value)) ELSE Failed

ParseEntries(text, i, entries) ==
    IF ~IsKey(text, i) THEN Failed
    ELSE WithEntry(text, Peek(text, i)[2], ParseNode(text, i + 2), entries)

\* node(): what the fields of an object amount to.
NodeOf(r) ==
    LET strings == r.value.strings
        Has(key) == key \in DOMAIN strings
        Is(key, s) == Has(key) /\ strings[key] = Quoted(s)
    IN  IF ~r.ok THEN Failed
        ELSE IF Is("type", "directory") THEN Read(Dir(r.value.entries), r.next)
        ELSE IF Is("type", "text") /\ Has("content")
        THEN Read(File(strings["content"][2]), r.next)
        ELSE IF /\ Is("type", "binary") /\ Is("encoding", "base64") /\ Has("content")
                /\ strings["content"][3] = "base64"
        THEN Read(File(strings["content"][2]), r.next)
        ELSE Failed
ParseNode(text, i) == NodeOf(ParseObject(text, i))

\* decodeBFT(): one node and nothing after it.
Forgiving(text) == ParseNode(Append(text, Mark("}")), 1)
NothingAfter(text, r) == IF r.ok /\ r.next = Len(text) + 1 THEN r ELSE Failed
Decode(text) == NothingAfter(text, ParseNode(text, 1))

\* walk(): every file in alphabetical order of its path, level by level; the root
\* of a bundle may be a file, and then there is nothing to walk.  Below a directory
\* without a name at the root, paths begin anew.
RECURSIVE Walk(_, _)
Walk(node, path) ==
    IF node.kind = "file" THEN <<>>
    ELSE LET names == Sorted(DOMAIN node.entries)
             Below(i) == LET child == node.entries[names[i]]
                             here == IF path = <<"">> THEN <<names[i]>>
                                     ELSE Append(path, names[i])
                         IN  IF child.kind = "file" THEN << <<here, child.content>> >>
                                                    ELSE Walk(child, here)
         IN  FlattenSeq([i \in DOMAIN names |-> Below(i)])

-----------------------------------------------------------------------------
(* The tree that goes into a bundle *)

\* readInto(): a node for each entry, but for the index.
RECURSIVE ReadInto(_, _)
ReadInto(t, p) ==
    LET below == {q \in DOMAIN t : q # <<>> /\ Parent(q) = p /\ q # IndexPath}
        names == {Last(q) : q \in below}
    IN  Dir([n \in names |-> IF IsDirectory(t, Append(p, n))
                             THEN ReadInto(t, Append(p, n))
                             ELSE File(t[Append(p, n)])])

\* ReadTree(): asked for the index itself, it yields an empty directory.
ReadAnything(t, p) == ReadInto(t, p)
ReadTree(t, p) == IF p = IndexPath THEN Dir(NoEntries) ELSE ReadInto(t, p)
=============================================================================
