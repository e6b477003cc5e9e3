---------------------------- MODULE MCPrediction ----------------------------
(***************************************************************************)
(* Files of the fragment of BrightScript.g4, valid and broken ones, and    *)
(* two small grammars for what the fragment does not have: a decision that *)
(* needs the parser's call stack,                                          *)
(*   two : P item X EOF | Q item I X EOF ;      item : I I | I ;           *)
(* and a start rule that calls itself,                                     *)
(*   nested : A A C | A (A | nested B | ) C ;                              *)
(***************************************************************************)
EXTENDS CachedPrediction, BrightScript

two ==
    113 :> Oneof("two", <<114, 117>>)
 @@ 114 :> T("two", "P", 115)
 @@ 115 :> R("two", "item", 116)
 @@ 116 :> T("two", "X", 121)
 @@ 117 :> T("two", "Q", 118)
 @@ 118 :> R("two", "item", 119)
 @@ 119 :> T("two", "I", 120)
 @@ 120 :> T("two", "X", 121)
 @@ 121 :> T("two", "EOF", 122)
 @@ 122 :> Z("two")
item ==
    123 :> Oneof("item", <<124, 126>>)
 @@ 124 :> T("item", "I", 125)
 @@ 125 :> T("item", "I", 127)
 @@ 126 :> T("item", "I", 127)
 @@ 127 :> Z("item")

MCAtn ==
  LET all == grammar @@ two @@ item @@ expressions @@ expression IN [s \in 1..127 |-> all[s]]
MCEntry ==
  LET all == ruleToStartState @@ [two |-> 113, item |-> 123, expressions |-> 73, expression |-> 78]
  IN [r \in DOMAIN all |-> all[r]]

Of(rule, ws) == {[rule |-> rule, w |-> Append(w, "EOF")] : w \in ws}

MCFiles ==
  Of("startRule", {
    <<"SUB", "IDENTIFIER", "FOR", "IDENTIFIER", "FOR", "IDENTIFIER", "NEXT", "END", "FOR", "END", "SUB">>,
    <<"SUB", "IDENTIFIER", "WHILE", "IDENTIFIER", "EXIT", "WHILE", "END", "WHILE", "ENDSUB">>,
    <<"SUB", "IDENTIFIER", "FOR", "IDENTIFIER", "END">>})
  \union Of("two", {<<"P", "I", "I", "X">>, <<"P", "I", "X">>, <<"Q", "I", "I", "X">>,
                   <<"Q", "I", "I", "I", "X">>, <<"Q", "I", "X">>})
  \union Of("expressions", {
    <<"IDENTIFIER", "ADD", "IDENTIFIER", "MULTIPLY", "IDENTIFIER", "ENDSUB">>,
    <<"SUBTRACT", "IDENTIFIER", "OPEN_PARENTHESIS", "ENDSUB">>})

nested ==
      1 :> Oneof("nested", <<2, 5>>)
  @@  2 :> T("nested", "A", 3)
  @@  3 :> T("nested", "A", 4)
  @@  4 :> T("nested", "C", 11)
  @@  5 :> T("nested", "A", 6)
  @@  6 :> Oneof("nested", <<7, 8, 10>>)
  @@  7 :> T("nested", "A", 10)
  @@  8 :> R("nested", "nested", 9)
  @@  9 :> T("nested", "B", 10)
  @@ 10 :> T("nested", "C", 11)
  @@ 11 :> Z("nested")

nestedAtn == [s \in 1..11 |-> nested[s]]
nestedEntry == [nested |-> 1]
nestedFiles == Of("nested", {<<"A", "A", "C", "B", "C">>, <<"A", "A", "C">>})
=============================================================================
