------------------------------- MODULE Masks --------------------------------
(***************************************************************************)
(* What the program asks of names, hosts and addresses: the wildcard       *)
(* matches of source/string.c (match, hostmatch, ipmatch), the spans of    *)
(* time its configuration writes, and the character maps by which ircd     *)
(* compares nicknames and channels (modules/ircd/ircstring.c).  A string   *)
(* is a sequence of characters without its NUL.                            *)
(***************************************************************************)
EXTENDS Integers, Sequences, SequencesExt, FiniteSetsExt

CONSTANTS
    MaxMatchDepth,      \* MAX_MATCH_DEPTH and MAX_HOSTMATCH_DEPTH (12 and 32)
    ByteBits, WordBits, \* bits of a byte and of an unsigned int (8 and 32)
    Minute, Hour, Day,  \* seconds of each (60, 3600, 86400)
    Chars,              \* the characters of names, 1..256 less NUL
    Dash, Blank         \* two of them

\* A string behind its first k characters.
Drop(s, k) == SubSeq(s, k + 1, Len(s))

-----------------------------------------------------------------------------
(* match and hostmatch.                                                    *)

\* touppertab: it turns 'H' to 'h' and 'h' to 'H' ('T' and 't' are alike), and
\* leaves 'j' as it is, so these differ from one another.
Fold(c) == CASE c = "a" -> "A" [] c = "h" -> "H" [] c = "H" -> "h" [] OTHER -> c
Same(c, d) == Fold(c) = Fold(d)

\* tolower, which strncasecmp compares by.
Lower(c) == CASE c = "A" -> "a" [] c = "H" -> "h" [] c = "J" -> "j" [] OTHER -> c

Letters == {"a", "A", "h", "H", "j", "J"}

\* How many times c stands at the beginning of a string.
Run(s, c) ==
    LET k == SelectInSeq(s, LAMBDA d : d # c) IN IF k = 0 THEN Len(s) ELSE k - 1

\* "[...]" against the next character: the letters between the brackets, or a
\* class that is named between colons, here one item of the mask.  A class that
\* fits does not end the test: the rest of the mask is then searched for the
\* character too, and what is behind it when it is not there.
InClass(w, s) ==
    LET end == SelectInSeq(w, LAMBDA d : d = "]")
        letters == SubSeq(w, 2, end - 1)
        rest == Drop(w, end)
        again == SelectInSeq(rest, LAMBDA d : Same(d, s[1]))
    IN  CASE end = 0 -> [kind |-> "no"]
          [] end # 0 /\ letters = <<":alnum:">> -> [kind |-> "on", wild |-> rest, used |-> 1]
          [] end # 0 /\ letters = <<":alpha:">> ->
                IF s[1] \notin Letters THEN [kind |-> "no"]
                ELSE IF again = 0 THEN [kind |-> "beyond"]
                ELSE [kind |-> "on", wild |-> rest, used |-> 1]
          [] OTHER ->
                IF \E k \in DOMAIN letters : Same(letters[k], s[1])
                THEN [kind |-> "on", wild |-> rest, used |-> 1]
                ELSE [kind |-> "no"]

\* The alternatives of "(x|y)".
Alternatives(w, end) ==
    LET bars == {k \in 2..end : w[k] \in {"|", ")"}}
    IN  {<<k, SubSeq(w, 1 + Max({1} \cup {j \in bars : j < k}), k - 1)>> : k \in bars}

\* "(x|y)" against the beginning of the string: the first one that fits is
\* taken, for good.
InGroup(w, s) ==
    LET end == SelectInSeq(w, LAMBDA d : d = ")")
        fits == {a \in Alternatives(w, end) :
                    /\ Len(a[2]) <= Len(s)
                    /\ \A k \in DOMAIN a[2] : Lower(a[2][k]) = Lower(s[k])}
        first == CHOOSE a \in fits : \A b \in fits : a[1] <= b[1]
    IN  IF end = 0 \/ fits = {} THEN [kind |-> "no"]
        ELSE [kind |-> "on", wild |-> Drop(w, end), used |-> Len(first[2])]

\* _match and, with brackets and parentheses, _hostmatch, at a depth of
\* recursion that counts from one.  "beyond" says that memory behind the mask
\* was read.
RECURSIVE Wild(_, _, _, _)
Wild(w, s, depth, host) ==
    LET \* behind the stars, and behind the '?' that follow them
        stars == Run(w, "*")
        some == Min({Run(Drop(w, stars), "?"), Len(s)})
        rest == Drop(w, stars + some)
        tail == Drop(s, some)
        nested == host /\ rest[1] \in {"(", "["}
        \* the string is tried from each of its places on
        try == [k \in DOMAIN tail |->
                    IF nested THEN Wild(rest, Drop(tail, k - 1), depth + 1, host)
                    ELSE IF Same(tail[k], rest[1])
                    THEN Wild(Drop(rest, 1), Drop(tail, k), depth + 1, host)
                    ELSE "no"]
        found == {k \in DOMAIN tail : try[k] # "no"}
        step == IF w[1] = "[" THEN InClass(w, s) ELSE InGroup(w, s)
    IN  CASE depth > MaxMatchDepth -> "no"
          [] depth <= MaxMatchDepth /\ w = <<>> -> IF s = <<>> THEN "yes" ELSE "no"
          [] depth <= MaxMatchDepth /\ w # <<>> /\ w[1] = "*" ->
                IF rest = <<>> THEN "yes"
                ELSE IF rest[1] = "*" THEN Wild(rest, tail, depth, host)
                ELSE IF found = {} THEN "no" ELSE try[Min(found)]
          [] OTHER ->
                IF s = <<>> THEN "no"
                ELSE IF host /\ w[1] \in {"[", "("}
                THEN IF step.kind # "on" THEN step.kind
                     ELSE Wild(step.wild, Drop(s, step.used), depth, host)
                ELSE IF w[1] = "?" \/ Same(w[1], s[1])
                THEN Wild(Drop(w, 1), Drop(s, 1), depth, host)
                ELSE "no"

match(wild, string) ==
    IF wild = <<"*">> THEN "yes" ELSE Wild(wild, string, 1, FALSE)

\* Unlike match, it looks for the lone star in the string.
hostmatch(wild, string) ==
    IF string = <<"*">> THEN "yes" ELSE Wild(wild, string, 1, TRUE)

-----------------------------------------------------------------------------
(* ipmatch.  An address is the sequence of its bytes; a mask is an address *)
(* and the number behind its '/'.  Without one all bits count, as they do   *)
(* for a number that is 0, or none.                                        *)

Width(addr) == Len(addr) * ByteBits

\* The bits of each byte that the loop over the number leaves to compare.
Kept(addr, imask) ==
    [k \in DOMAIN addr |->
        LET before == (k - 1) * ByteBits
        IN  IF imask >= k * ByteBits THEN ByteBits ELSE Max({imask - before, 0})]

ipmatch(wild, bits, str) ==
    LET imask == IF bits <= 0 \/ bits > Width(wild)
                 THEN Width(wild) ELSE bits
        masked(v, k) == v \div 2^(ByteBits - Kept(wild, imask)[k])
    IN  /\ Len(wild) = Len(str)
        /\ \A k \in DOMAIN wild : masked(wild[k], k) = masked(str[k], k)

-----------------------------------------------------------------------------
(* Spans of time: a text is a sequence of numbers, each with its letter.   *)

\* time_conv_str
time_conv_str(t) ==
    LET all == << <<t \div Day, "d">>, <<(t % Day) \div Hour, "h">>,
                  <<(t % Hour) \div Minute, "m">>, <<t % Minute, "s">> >>
        some == SelectSeq(all, LAMBDA part : part[1] # 0)
    IN  IF some = <<>> THEN << <<0, "s">> >> ELSE some

\* str_conv_int stops at the first letter.
Number(text) == IF text = <<>> THEN 0 ELSE text[1][1]

\* (a mistake: the text is read from its beginning again)
TakeAgain(acc, letter, seconds) ==
    LET at == SelectInSeq(acc.left, LAMBDA part : part[2] = letter)
    IN  IF at = 0 THEN acc
        ELSE [acc EXCEPT !.sum = @ + Number(acc.left) * seconds]

\* One letter of str_conv_time: the number before it is added, and what is
\* behind it is left.
Take(acc, letter, seconds) ==
    LET at == SelectInSeq(acc.left, LAMBDA part : part[2] = letter)
    IN  IF at = 0 THEN acc
        ELSE [sum |-> acc.sum + Number(acc.left) * seconds, left |-> Drop(acc.left, at)]

\* Each letter that is found is overwritten with a NUL: the caller's text ends
\* where the first of them was.
str_conv_time(text) ==
    LET all == Take(Take(Take([sum |-> 0, left |-> text], "d", Day), "h", Hour), "m", Minute)
        place(letter) == SelectInSeq(text, LAMBDA part : part[2] = letter)
        cut == IF place("d") # 0 THEN place("d")
               ELSE IF place("h") # 0 THEN place("h") ELSE place("m")
    IN  [value |-> all.sum + Number(all.left),
         text |-> IF cut = 0 THEN text
                  ELSE Append(SubSeq(text, 1, cut - 1), <<text[cut][1], "">>)]

-----------------------------------------------------------------------------
(* Strings cut at separators, and strings of digits of so many bits.       *)

\* ith_strsep: what stands before the first of the separators, and what is left
\* behind it, NoMore when there was none.
NoMore == <<"NULL">>

strsep(from, delim) ==
    LET at == SelectInSeq(from, LAMBDA c : c \in delim)
    IN  IF at = 0 THEN [ret |-> from, from |-> NoMore]
        ELSE [ret |-> SubSeq(from, 1, at - 1), from |-> Drop(from, at)]

\* The digits that the bits collected so far are enough for.
RECURSIVE Emit(_, _)
Emit(acc, type) ==
    IF acc.bits < type THEN acc
    ELSE LET left == acc.bits - type
         IN  Emit([bits |-> left, chunk |-> acc.chunk % 2^left,
                   out |-> Append(acc.out, acc.chunk \div 2^left)], type)

\* A last digit is filled up with zeros.
str_base_encode(type, src) ==
    LET Byte(acc, b) == Emit([acc EXCEPT !.chunk = @ * 2^ByteBits + b, !.bits = @ + ByteBits], type)
        all == FoldLeft(Byte, [bits |-> 0, chunk |-> 0, out |-> <<>>], src)
    IN  IF all.bits = 0 THEN all.out
        ELSE Append(all.out, all.chunk * 2^(type - all.bits))

\* A digit is written as its number, and other characters as numbers below 0.
\* The last of all, 0xFF, is a zero too: a comma is missing in base_dmap and in
\* base64_dmap, which are one short.
LastChar == -2
base_dmap(c) == IF c = LastChar THEN 0 ELSE c

\* The bits of a byte that has been put out are turned over, not cleared: what
\* of them is left above the next byte is cut off when that is stored.  Bits
\* that are left at the end are stored as one byte more.
str_base_decode(type, src) ==
    LET Stored(chunk, shift) == (chunk \div 2^shift) % 2^ByteBits
        Digit(acc, c) ==
            LET d == base_dmap(c)
                chunk == (acc.chunk * 2^type + d) % 2^WordBits
                bits == acc.bits + type
                over == bits - ByteBits
            IN  IF d \notin 0..(2^type - 1) THEN acc
                ELSE IF over < 0 THEN [acc EXCEPT !.chunk = chunk, !.bits = bits]
                ELSE [bits |-> over, out |-> Append(acc.out, Stored(chunk, over)),
                      chunk |-> chunk + (2^ByteBits - 1 - 2 * Stored(chunk, over)) * 2^over]
        all == FoldLeft(Digit, [bits |-> 0, chunk |-> 0, out |-> <<>>], src)
    IN  IF all.bits = 0 THEN all.out ELSE Append(all.out, Stored(all.chunk, 0))

-----------------------------------------------------------------------------
(* Character maps.  A character is a number from 1 on, with Dash and Blank *)
(* among them, and -c is c written as "\ddd".                              *)

\* A character as it is or as it is written.
Unescaped(c) == IF c < 0 THEN -c ELSE c

\* istr_translate: the ranges that a text names, a character being one of one.
RECURSIVE Ranges(_)
Ranges(s) ==
    IF s = <<>> THEN <<>>
    ELSE IF Len(s) >= 3 /\ s[2] = Dash THEN << <<s[1], s[3]>> >> \o Ranges(Drop(s, 3))
    ELSE << <<s[1], s[1]>> >> \o Ranges(Drop(s, 1))

istr_translate(from) ==
    LET ranges == Ranges([k \in DOMAIN from |-> Unescaped(from[k])])
    IN  [kind |-> IF \E k \in DOMAIN ranges : ranges[k][1] > ranges[k][2]
                  THEN "null" ELSE "text",
         text |-> FlattenSeq([k \in DOMAIN ranges |->
                    [j \in 1..(ranges[k][2] - ranges[k][1] + 1) |-> ranges[k][1] + j - 1]])]

\* The map of a string "left right": every character of left is itself, and
\* one of right is the one at its place in left.  Without a blank the length of
\* left is taken from a null pointer.
istr_map(string) ==
    LET blank == SelectInSeq(string, LAMBDA c : c = Blank)
        left == istr_translate(SubSeq(string, 1, blank - 1))
        right == istr_translate(Drop(string, blank))
        places(c) == {k \in DOMAIN right.text : right.text[k] = c}
    IN  IF blank = 0 THEN [kind |-> "beyond"]
        ELSE IF "null" \in {left.kind, right.kind} \/ Len(right.text) > Len(left.text)
        THEN [kind |-> "null"]
        ELSE [kind |-> "map",
              map |-> [c \in Chars |->
                        IF places(c) # {} THEN left.text[Max(places(c))]
                        ELSE IF c \in Range(left.text) THEN c ELSE 0]]

istr_okay(map, string) == \A k \in DOMAIN string : map[string[k]] # 0

\* NUL is mapped to 0 like every character that is not okay.  The comparison
\* ends at the NUL of the first string only.
istrcmp(map, one, two) ==
    LET at(string, k) == IF k > Len(string) THEN 0 ELSE map[string[k]]
        stops == {k \in 1..(Len(one) + 1) :
                    k = Len(one) + 1 \/ k > Len(two) + 1 \/ at(one, k) # at(two, k)}
        k == Min(stops)
    IN  IF k > Len(two) + 1 THEN "beyond"
        ELSE IF at(one, k) = at(two, k) THEN "same" ELSE "differ"
============================================================================
