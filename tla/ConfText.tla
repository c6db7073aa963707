------------------------------ MODULE ConfText ------------------------------
(***************************************************************************)
(* The configuration reader (source/conf.c): a text is cleaned of comments *)
(* (conf_preparse), cut into a tree of entries (conf_parse) and searched   *)
(* (conf_find and its relatives).  A text is a sequence of characters, the *)
(* position one past its end holds NUL, and reading behind that is what    *)
(* the code must never do: a result says "beyond" when it does.  What a    *)
(* reader of the memory after the text would find is not modelled.  Line   *)
(* numbers are only logged and left out.                                   *)
(***************************************************************************)
EXTENDS Integers, Sequences, SequencesExt

CONSTANTS
    Include,    \* the name of the entry that includes a file ("$INCLUDE")
    Files       \* the files that can be included: a function from names to texts

NUL == "NUL"
NULL == <<"NULL">>
NL == "nl"
Space == {" ", NL}
Letter == "n"       \* stands for every letter, and is one of the escapes

\* The character at position i of a text.
At(t, i) == IF i <= Len(t) THEN t[i] ELSE NUL

\* The first position from i on whose character is one of Stops or NUL.
UpTo(t, i, Stops) ==
    CHOOSE j \in i..(Len(t) + 1) :
        /\ At(t, j) \in Stops \cup {NUL}
        /\ \A k \in i..(j - 1) : At(t, k) \notin Stops

\* swallow_whitespace
Skip(t, i) ==
    CHOOSE j \in i..(Len(t) + 1) :
        /\ At(t, j) \notin Space
        /\ \A k \in i..(j - 1) : At(t, k) \in Space

-----------------------------------------------------------------------------
(* conf_preparse: comments go, strings and escaped characters stay.        *)

\* instring and incomment are never both set: mode is "plain", "string" or
\* "comment".
RECURSIVE Clean(_, _, _, _)
Clean(t, i, mode, out) ==
    LET c == At(t, i)
        d == At(t, i + 1)
        keep == Clean(t, i + 1, mode, Append(out, c))
    IN  CASE c = NUL ->
                [kind |-> IF mode = "plain" THEN "text" ELSE "null", text |-> out]
          [] c # NUL /\ mode = "comment" ->
                IF c = NL THEN keep
                ELSE IF c = "*" /\ d = "/" THEN Clean(t, i + 2, "plain", out)
                ELSE Clean(t, i + 1, mode, out)
          [] c = "\"" /\ mode # "comment" ->
                Clean(t, i + 1, IF mode = "plain" THEN "string" ELSE "plain",
                      Append(out, c))
          [] c = "\\" /\ mode # "comment" ->
                IF d = NUL THEN [kind |-> "beyond", text |-> out]
                ELSE Clean(t, i + 2, mode, out \o <<c, d>>)
          [] c = "#" /\ mode = "plain" -> Clean(t, UpTo(t, i, {NL}), mode, out)
          [] c = "/" /\ mode = "plain" ->
                IF d = "/" THEN Clean(t, UpTo(t, i, {NL}), mode, out)
                ELSE IF d = "*" THEN Clean(t, i + 2, "comment", out)
                ELSE keep
          [] OTHER -> keep

conf_preparse(t) == Clean(t, 1, "plain", <<>>)

-----------------------------------------------------------------------------
(* conf_expand_text: white space shrinks to one blank outside quotes, and  *)
(* a backslash inside them stands for the character behind it.             *)

\* (a mistake: the letter stays a letter)
EscapedAsIs(c) == c

Escaped(c) == IF c = Letter THEN NL ELSE c

RECURSIVE Expand(_, _, _, _)
Expand(t, i, quoted, out) ==
    LET c == At(t, i)
        next == Skip(t, i)
    IN  CASE c = NUL -> out
          [] c = "\"" -> Expand(t, i + 1, ~quoted, out)
          [] c = "\\" /\ quoted ->
                IF At(t, i + 1) = NUL THEN Append(out, c)
                ELSE Expand(t, i + 2, quoted, Append(out, Escaped(At(t, i + 1))))
          [] c \in Space /\ ~quoted ->
                Expand(t, next, quoted, IF At(t, next) = NUL THEN out ELSE Append(out, " "))
          [] OTHER -> Expand(t, i + 1, quoted, Append(out, c))

conf_expand_text(t) == Expand(t, 1, FALSE, <<>>)

-----------------------------------------------------------------------------
(* conf_parse.                                                             *)

\* Where the quoted string whose text begins at i ends: its closing quote, or
\* NUL.
RECURSIVE QuoteEnd(_, _)
QuoteEnd(t, i) ==
    CASE At(t, i) \in {NUL, "\""} -> i
      [] At(t, i) = "\\" /\ At(t, i + 1) # NUL -> QuoteEnd(t, i + 2)
      [] OTHER -> QuoteEnd(t, i + 1)

\* Where the section that is open depth times at i is closed: the position of
\* its brace, of NUL, or one behind NUL when a quote in it is never closed.
RECURSIVE SectionEnd(_, _, _)
SectionEnd(t, i, depth) ==
    CASE i > Len(t) -> i
      [] At(t, i) = "\"" -> SectionEnd(t, QuoteEnd(t, i + 1) + 1, depth)
      [] At(t, i) = "{" -> SectionEnd(t, i + 1, depth + 1)
      [] At(t, i) = "}" -> IF depth = 1 THEN i ELSE SectionEnd(t, i + 1, depth - 1)
      [] OTHER -> SectionEnd(t, i + 1, depth)

\* The data of an entry ends at the first ';' or '{': the loop that should pass
\* over a quoted string begins on its opening quote and ends there.
DataEnd(t, i) == UpTo(t, i, {";", "{"})

Data(name, string) == [type |-> "data", name |-> name, string |-> string, list |-> <<>>]
Section(name, string, list) ==
    [type |-> "list", name |-> name, string |-> string, list |-> list]

\* What reading a text, or the rest of one, comes to: a list of entries, "null"
\* when it is refused, "beyond" and "freed" when memory behind the text or
\* freed memory is used.
Tree(list) == [kind |-> "tree", list |-> list]
Failed(kind) == [kind |-> kind, list |-> <<>>]

\* The entries of the included file follow those before it.
merge_into_conf(big, little) == big \o little

\* The beginning of the entry at i: its name, empty if it has none, and where
\* its data begin and end.  A word before ';' is not a name but the data.
EntryHead(t, i) ==
    LET nameless == t[i] \in {"\"", "{"}
        nameEnd == UpTo(t, i, Space \cup {"{", ";"})
        behind == Skip(t, nameEnd)
        word == nameless \/ At(t, behind) = ";"
        start == IF word THEN i ELSE behind
    IN  [name |-> IF word THEN <<>> ELSE SubSeq(t, i, nameEnd - 1),
         start |-> start,
         end |-> IF ~nameless /\ At(t, nameEnd) = NUL THEN nameEnd ELSE DataEnd(t, start)]

\* What a text is read to, from position i on, behind the entries of list.
RECURSIVE ParseFrom(_, _, _)
ParseFrom(t, first, list) ==
    LET i == Skip(t, first)
        h == EntryHead(t, i)
        string == conf_expand_text(SubSeq(t, h.start, h.end - 1))
        \* a name without data is the data of an entry without a name
        entry == IF string = <<>> THEN Data(<<>>, h.name) ELSE Data(h.name, string)
        \* read_conf of the file that is included
        cleaned == conf_preparse(Files[entry.string])
        file == IF entry.string \notin DOMAIN Files THEN Failed("null")
                ELSE IF cleaned.kind # "text" THEN Failed(cleaned.kind)
                ELSE ParseFrom(cleaned.text, 1, <<>>)
        close == SectionEnd(t, h.end + 1, 1)
        inside == ParseFrom(SubSeq(t, h.end + 1, close - 1), 1, <<>>)
        behind == Skip(t, close + 1)
    IN  CASE At(t, i) = NUL -> Tree(list)
          [] At(t, i) # NUL /\ At(t, h.end) = NUL -> Failed("null")
          [] At(t, i) # NUL /\ At(t, h.end) = ";" ->
                IF entry.name # Include THEN ParseFrom(t, h.end + 1, Append(list, entry))
                ELSE IF file.kind # "tree" THEN file
                ELSE ParseFrom(t, h.end + 1, merge_into_conf(list, file.list))
          [] At(t, i) # NUL /\ At(t, h.end) = "{" ->
                IF close > Len(t) + 1 THEN Failed("beyond")
                ELSE IF close > Len(t) THEN Failed("null")
                ELSE IF inside.kind # "tree" THEN inside
                ELSE IF At(t, behind) = NUL THEN Failed("freed")
                ELSE IF t[behind] # ";" THEN Failed("null")
                ELSE ParseFrom(t, behind + 1,
                               Append(list, Section(h.name, string, inside.list)))

conf_parse(t) == ParseFrom(t, 1, <<>>)

read_conf(t) ==
    LET cleaned == conf_preparse(t)
    IN  IF cleaned.kind = "text" THEN conf_parse(cleaned.text) ELSE Failed(cleaned.kind)

-----------------------------------------------------------------------------
(* The searches.  An entry is named by its path: its place in the list and, *)
(* before it, those of the sections it is in; NoEntry is NULL.  Names are   *)
(* compared without their case and data, where given, too.                  *)

NoEntry == <<>>
AnyType == {"data", "list"}

Named(entry, name, types) == entry.name = name /\ entry.type \in types

\* The first entry from place k on, with sections searched before what follows
\* them: depth lists deep.  One of the name is not searched itself, even if its
\* data are others.
RECURSIVE FindFrom(_, _, _, _, _, _)
FindFrom(list, k, name, data, types, depth) ==
    LET entry == list[k]
        inside == FindFrom(entry.list, 1, name, data, types, depth - 1)
        behind == FindFrom(list, k + 1, name, data, types, depth)
    IN  IF depth < 1 \/ k > Len(list) THEN NoEntry
        ELSE IF Named(entry, name, types)
        THEN IF data \in {NULL, entry.string} THEN <<k>> ELSE behind
        ELSE IF entry.type = "list" /\ inside # NoEntry THEN <<k>> \o inside
        ELSE behind

conf_find(name, data, types, list, depth) == FindFrom(list, 1, name, data, types, depth)

\* The list an entry is in.
RECURSIVE ListOf(_, _)
ListOf(list, path) ==
    IF Len(path) = 1 THEN list ELSE ListOf(list[path[1]].list, Tail(path))

\* The search goes on in the list of the last entry, and never leaves it.
conf_find_next(name, data, types, last, list, depth) ==
    IF last = NoEntry THEN conf_find(name, data, types, list, depth)
    ELSE LET next == FindFrom(ListOf(list, last), Last(last) + 1, name, data, types, depth)
         IN  IF next = NoEntry THEN NoEntry ELSE Front(last) \o next

\* These two look for the last entry in the list they are given.
conf_find_list_next(name, last, list, depth) ==
    IF last = NoEntry THEN conf_find(name, NULL, {"list"}, list, depth)
    ELSE IF Len(last) > 1 THEN NoEntry
    ELSE FindFrom(list, last[1] + 1, name, NULL, {"list"}, depth)

conf_find_entry_next(name, last, list, depth) ==
    IF last = NoEntry THEN conf_find(name, NULL, {"data"}, list, depth)
    ELSE IF Len(last) > 1 THEN NoEntry
    ELSE FindFrom(list, last[1] + 1, name, NULL, {"data"}, depth)
============================================================================
