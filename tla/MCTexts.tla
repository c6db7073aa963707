------------------------------ MODULE MCTexts -------------------------------
(* Texts on a small instance: configuration texts of up to five pieces, masks *)
(* of three items, and tables that double twice.                             *)
EXTENDS Texts

MCInclude == <<"$">>
MCFiles == (<<"n">> :> <<"n", " ", "\"", "/", "\"", ";">>)

Word == <<Letter, " ">>
LineComment == <<"#", ";", "\"", NL>>
BlockComment == <<"/", "*", "\"", "{", "*", "/">>
Quote == <<"\"", "\\", "\"", "}", "\\", Letter, "\"">>
Close == <<"}", ";">>

MCComments == {LineComment, BlockComment}
MCPolite == MCComments \cup {Word, <<";">>, <<"{">>, Close, Quote, MCInclude \o <<" ">>}
MCPieces == MCPolite \cup {<<Letter>>, <<"\"">>, <<"\\">>, <<"}">>, <<"\\", Letter>>, <<"/">>, <<"*">>, <<NL>>}

MCItems == {<<"*">>, <<"?">>, <<"a">>, <<"h">>, <<"J">>}
MCHostItems ==
    {<<"[", "a", "h", "]">>, <<"[", ":alpha:", "]">>, <<"[", ":alnum:", "]">>,
     <<"(", "a", "|", "h", "a", ")">>, <<"(", "a", "|", "a", "h", ")">>}
MCHostChars == {"a", "A", "h", "H", "j"}

MCOctets == UNION {[1..n -> 0..7] : n \in 0..3}

MCAddresses == UNION {[1..n -> {0, 1, 4, 6}] : n \in 1..2}

\* Characters 1 and 2 with 3 and 4 as their capitals, and 7 and 8, which only
\* some maps allow.
MCChars == 1..8
MCMapTexts ==
    {<<1, Dash, 2, Blank, 3, Dash, 4>>, <<1, Dash, 2, 8, Blank, 3, 4, 7>>,
     <<2, Dash, 1, Blank, 3>>, <<1, 2>>, <<1, Blank, 3, 4>>, <<1, -Dash, 2, Blank, 3>>}

NickMap == istr_map(<<1, Dash, 2, Blank, 3, Dash, 4>>).map
MCKeys == {<<1>>, <<3>>, <<1, 2>>, <<2>>}
MCEqual(k, l) == istrcmp(NickMap, k, l) = "same"
\* The hash of the key in lower case.
MCHash == [k \in MCKeys |-> FoldLeft(LAMBDA h, c : 2 * h + NickMap[c], 0, k)]
============================================================================
