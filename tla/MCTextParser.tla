---------------------------- MODULE MCTextParser -----------------------------
(* Texts to parse: every short text over the characters that matter, alone   *)
(* and after the beginning of an expression, and the spellings of            *)
(* well-formed pieces.                                                       *)
EXTENDS TextParser

MCAlphabet == {"[", "]", "(", ")", "'", ",", " ", "x"}

MCTexts ==
  LET Short(n) == UNION {[1..k -> MCAlphabet] : k \in 0..n}
  IN  Short(2) \cup {start \o s : s \in Short(3),
                         start \in {<<"[">>, <<"[", "x", "(", "'">>, <<"[", "x", "(", "'", "x", "'">>,
                                    <<"[", "x", "(", "'", "'", Comma, Space, "'", "'", Comma, Space>>}}

MCPieces ==
  {TextToken(t) : t \in {<<"x">>, <<"]">>, <<"'", "(">>}}
    \cup {Expression(n, a, Call(n, a)) : n \in {<<"x">>, <<"x", "x">>},
            a \in {<<>>, << <<"]">> >>, << <<"x", "[">>, <<",", " ">> >>, << <<>> >>}}

MCWritings ==
  {w \in UNION {[1..k -> MCPieces] : k \in 1..3} :
     \A i \in 1..(Len(w) - 1) : w[i].type = "EXPRESSION" \/ w[i + 1].type = "EXPRESSION"}

MCAlnum == {"x"}
=============================================================================
