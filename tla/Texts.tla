------------------------------- MODULE Texts --------------------------------
(***************************************************************************)
(* The tools of the core: the configuration reader (ConfText), the matches, *)
(* spans and maps of strings (Masks) and the hash tables (HashTable).  The  *)
(* first two are functions: the specification writes their inputs, piece by *)
(* piece, and the invariants compare what they compute with what they       *)
(* promise.  The table is a state of its own, which lives beside.           *)
(***************************************************************************)
EXTENDS ConfText, Masks, HashTable

CONSTANTS
    Pieces,         \* what configuration texts are written of
    Polite,         \* the pieces of a text that keeps to the documented form
    Comments,       \* those of them that are comments
    MaxPolite,      \* bound on the pieces of a polite text
    MaxPieces,      \* bound on those of any other
    Items,          \* what masks are written of
    HostItems,      \* what else the masks of hosts are
    MaxItems,
    HostChars,      \* what strings are written of
    MaxString,
    Addresses,      \* addresses that are matched, and the numbers behind '/'
    Octets,         \* strings that are written in digits of some number of bits
    MaxSpan,        \* bound on the spans of time
    MapTexts,       \* character maps of the configuration
    MaxName         \* bound on the names compared by them

VARIABLE input
vars == <<input, tableVars>>

Names == UNION {[1..n -> Chars] : n \in 0..MaxName}

Init ==
    /\ TableInit
    /\ input \in
        [kind : {"none"}]
        \cup [kind : {"conf"}, pieces : {<<>>}]
        \cup [kind : {"match"}, items : {<<>>}, string : {<<>>}]
        \cup [kind : {"address"}, wild : Addresses, str : Addresses,
              bits : -1..(Max({Width(a) : a \in Addresses}) + 1)]
        \cup [kind : {"span"}, seconds : 0..MaxSpan]
        \cup [kind : {"digits"}, type : 1..(ByteBits - 1), src : Octets, junk : 0..2]
        \cup [kind : {"names"}, map : MapTexts, one : Names, two : Names]

WritePiece(p) ==
    /\ input.kind = "conf"
    /\ Len(input.pieces) <
            IF Range(Append(input.pieces, p)) \subseteq Polite THEN MaxPolite ELSE MaxPieces
    /\ input' = [input EXCEPT !.pieces = Append(@, p)]
    /\ UNCHANGED tableVars

WriteItem(i) ==
    /\ input.kind = "match"
    /\ input.string = <<>>
    /\ Len(input.items) < MaxItems
    /\ input' = [input EXCEPT !.items = Append(@, i)]
    /\ UNCHANGED tableVars

WriteChar(c) ==
    /\ input.kind = "match"
    /\ Len(input.string) < MaxString
    /\ input' = [input EXCEPT !.string = Append(@, c)]
    /\ UNCHANGED tableVars

UseTable ==
    /\ input.kind = "none"
    /\ TableNext
    /\ UNCHANGED input

Next ==
    \/ \E p \in Pieces : WritePiece(p)
    \/ \E i \in Items \cup HostItems : WriteItem(i)
    \/ \E c \in HostChars : WriteChar(c)
    \/ UseTable

Spec == Init /\ [][Next]_vars

-----------------------------------------------------------------------------
(* What the configuration reader promises (doc/conf.txt).                  *)

\* A tree written down as the documentation says, every string in quotes.
Quoted(string) ==
    <<"\"">> \o FlattenSeq([k \in DOMAIN string |->
                    CASE string[k] = NL -> <<"\\", Letter>>
                      [] string[k] \in {"\"", "\\"} -> <<"\\", string[k]>>
                      [] OTHER -> <<string[k]>>]) \o <<"\"">>

RECURSIVE Written(_)
Written(list) ==
    FlattenSeq([k \in DOMAIN list |->
        LET entry == list[k]
            string == IF entry.type = "list" /\ entry.string = <<>>
                      THEN <<>> ELSE <<" ">> \o Quoted(entry.string)
        IN  entry.name \o string
            \o IF entry.type = "data" THEN <<";">>
               ELSE <<"{">> \o Written(entry.list) \o <<"}", ";">>])

\* Trees whose names are words, and whose strings keep clear of the two
\* characters that end an entry in spite of the quotes around them.
RECURSIVE IsPlain(_)
IsPlain(list) ==
    \A k \in DOMAIN list :
        /\ Range(list[k].name) \subseteq {Letter}
        /\ Range(list[k].string) \cap {";", "{"} = {}
        /\ IsPlain(list[k].list)

\* A comment leaves nothing behind but the end of its line.
Uncommented(pieces) ==
    FlattenSeq([k \in DOMAIN pieces |->
        IF pieces[k] \notin Comments THEN pieces[k]
        ELSE SelectSeq(pieces[k], LAMBDA c : c = NL)])

\* The entries of a name, in the order of the file and at most depth lists deep.
RECURSIVE Places(_, _, _, _)
Places(list, name, types, depth) ==
    IF depth < 1 THEN <<>>
    ELSE FlattenSeq([k \in DOMAIN list |->
            LET inside == Places(list[k].list, name, types, depth - 1)
            IN  (IF Named(list[k], name, types) THEN << <<k>> >> ELSE <<>>)
                \o [j \in DOMAIN inside |-> <<k>> \o inside[j]]])

FirstOf(places) == IF places = <<>> THEN NoEntry ELSE places[1]

\* A polite text is read or refused, but never read past its end or into freed
\* memory, and its comments change nothing.  What has been read, written down
\* as the documentation says, is read as the same tree again.
ReadsWhatIsWritten ==
    input.kind = "conf" =>
        LET result == read_conf(FlattenSeq(input.pieces))
            polite == Range(input.pieces) \subseteq Polite
        IN  /\ polite => result.kind \in {"tree", "null"}
            /\ polite => read_conf(Uncommented(input.pieces)) = result
            /\ result.kind = "tree" /\ IsPlain(result.list) =>
                    read_conf(Written(result.list)) = result

\* A search finds the first entry of a name, and going on from each of them, the
\* way the loops over the configuration do, passes all of them and ends.
FindsAllEntries ==
    input.kind = "conf" =>
        \A list \in {read_conf(FlattenSeq(input.pieces)).list},
           name \in {<<>>, <<Letter>>}, types \in {{"data"}, {"list"}, AnyType} :
            /\ \A depth \in 0..2 : conf_find(name, NULL, types, list, depth)
                    = FirstOf(Places(list, name, types, depth))
            /\ \A places \in {Places(list, name, types, 1)} : \A k \in 0..Len(places) :
                LET last == IF k = 0 THEN NoEntry ELSE places[k]
                    next == IF k = Len(places) THEN NoEntry ELSE places[k + 1]
                IN  /\ conf_find_next(name, NULL, types, last, list, 1) = next
                    /\ types = {"list"} => conf_find_list_next(name, last, list, 1) = next
                    /\ types = {"data"} => conf_find_entry_next(name, last, list, 1) = next

-----------------------------------------------------------------------------
(* What the matches promise.                                               *)

\* The strings that one item of a mask stands for, among the beginnings of a
\* string: how many characters they have.
Fits(item, s) ==
    CASE item = <<"*">> -> 0..Len(s)
      [] item # <<"*">> /\ s = <<>> -> {}
      [] item = <<"?">> -> {1}
      [] item[1] = "[" -> IF \E k \in DOMAIN item : Same(item[k], s[1]) \/ item[k] = ":alnum:"
                          THEN {1} ELSE {}
      [] item[1] = "(" -> {Len(a[2]) : a \in {b \in Alternatives(item, Len(item)) :
                            /\ Len(b[2]) <= Len(s)
                            /\ \A k \in DOMAIN b[2] : Lower(b[2][k]) = Lower(s[k])}}
      [] OTHER -> IF Same(item[1], s[1]) THEN {1} ELSE {}

RECURSIVE StandsFor(_, _)
StandsFor(items, s) ==
    IF items = <<>> THEN s = <<>>
    ELSE \E n \in Fits(items[1], s) : StandsFor(SubSeq(items, 2, Len(items)), Drop(s, n))

\* Masks that are followed to the end: as many stars and brackets as the depth
\* allows, no class that is searched for behind itself, and no alternative that
\* begins another one.
Stars(items) == Cardinality({k \in DOMAIN items : items[k] = <<"*">>})
IsClass(items) == \E k \in DOMAIN items : ":alpha:" \in Range(items[k])
IsGreedy(items) ==
    \E k \in DOMAIN items : items[k][1] = "(" /\
        \E a, b \in Alternatives(items[k], Len(items[k])) : a # b /\ IsPrefix(a[2], b[2])

\* A mask matches the strings it stands for and no others.  Only what the depth
\* of the recursion cuts off, and what an alternative that was taken too early
\* keeps from matching, is missed; memory behind a mask is read for the classes.
MatchesWhatItStandsFor ==
    input.kind = "match" =>
        LET mask == FlattenSeq(input.items)
            host == hostmatch(mask, input.string)
            stands == StandsFor(input.items, input.string)
            shallow == Stars(input.items) < MaxMatchDepth
        IN  /\ Range(input.items) \subseteq Items =>
                    LET plain == match(mask, input.string)
                    IN  /\ plain = "yes" => stands
                        /\ stands /\ shallow => plain = "yes"
            /\ ~IsClass(input.items) =>
                    /\ host = "yes" => stands
                    /\ stands /\ shallow /\ ~IsGreedy(input.items) => host = "yes"
                    /\ host # "beyond"

\* Two addresses match when they agree in the bits the mask names: in all of them
\* without a number, or with one that no address has.
Bit(a, k) == (a[(k - 1) \div ByteBits + 1] \div 2^(ByteBits - 1 - ((k - 1) % ByteBits))) % 2

MatchesByBits ==
    input.kind = "address" =>
        LET bits == IF input.bits \in 1..Width(input.wild) THEN input.bits ELSE Width(input.wild)
        IN  ipmatch(input.wild, input.bits, input.str) <=>
                /\ Len(input.wild) = Len(input.str)
                /\ \A k \in 1..bits : Bit(input.wild, k) = Bit(input.str, k)

\* A span of time that is written is read as the same number of seconds.  It is
\* read once only: a second reading finds the number before the first letter.
ReadsSpans ==
    input.kind = "span" =>
        LET text == time_conv_str(input.seconds)
            read == str_conv_time(text)
        IN  /\ read.value = input.seconds
            /\ input.seconds < Minute <=> str_conv_time(read.text).value = input.seconds

\* A string that is cut at a separator is all there still, and what is returned
\* has none.
CutsAtSeparators ==
    input.kind = "match" =>
        \A delim \in {{}, {"a"}, {"a", "h"}} :
            LET cut == strsep(input.string, delim)
            IN  /\ Range(cut.ret) \cap delim = {}
                /\ cut.from = NoMore => cut.ret = input.string
                /\ cut.from # NoMore => \E c \in delim :
                        cut.ret \o <<c>> \o cut.from = input.string

\* Digits stand for the bytes they were made of, whatever is strewn between them,
\* but for the last of all characters, which is read as a digit; if they do not
\* end with a byte there is one more, of what is left.
ReadsDigits ==
    input.kind = "digits" =>
        LET digits == str_base_encode(input.type, input.src)
            place == Min({input.junk, Len(digits)})
            Strewn(c) == SubSeq(digits, 1, place) \o <<c>> \o Drop(digits, place)
            Read(c) == str_base_decode(input.type, Strewn(c))
            back == Read(-1)
        IN  /\ Range(digits) \subseteq 0..(2^input.type - 1)
            /\ IsPrefix(input.src, back)
            /\ Len(back) - Len(input.src) =
                    IF (Len(digits) * input.type) % ByteBits = 0 THEN 0 ELSE 1
            /\ Read(LastChar) = Read(0)

\* The names that a map allows are compared character by character, in the way
\* of an equivalence, without reading behind either of them.
ComparesNames ==
    input.kind = "names" =>
        LET map == istr_map(input.map)
            okay(name) == istr_okay(map.map, name)
            equal(a, b) == istrcmp(map.map, a, b) = "same"
        IN  map.kind = "map" /\ okay(input.one) /\ okay(input.two) =>
                /\ istrcmp(map.map, input.one, input.two) # "beyond"
                /\ equal(input.one, input.two) <=> equal(input.two, input.one)
                /\ equal(input.one, input.two) <=>
                        /\ Len(input.one) = Len(input.two)
                        /\ \A k \in DOMAIN input.one : equal(<<input.one[k]>>, <<input.two[k]>>)

\* The three properties of the run: configurations, strings, and tables.
ConfigurationsRead == ReadsWhatIsWritten /\ FindsAllEntries
StringsMatch ==
    /\ MatchesWhatItStandsFor
    /\ MatchesByBits
    /\ ReadsSpans
    /\ CutsAtSeparators
    /\ ReadsDigits
    /\ ComparesNames

TablesFind == CountsEntries /\ FindsEntries
============================================================================
