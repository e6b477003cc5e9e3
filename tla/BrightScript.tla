---------------------------- MODULE BrightScript ----------------------------
(***************************************************************************)
(* A fragment of src/grammar/src/BrightScript.g4.  An expression is one    *)
(* identifier, the headers of subs and loops are cut to their keyword and  *)
(* a name, and the other alternatives of componentHead, componentBody and  *)
(* block are left out.  Kept is what makes the grammar hard to predict:    *)
(* END may be a statement or begin the end of a loop or a sub, NEXT and    *)
(* END FOR are optional, and NEXT is a statement too.                      *)
(***************************************************************************)
EXTENDS Integers, Sequences, TLC

T(r, token, next) == [kind |-> "token", rule |-> r, token |-> token, next |-> next]
R(r, callee, next) == [kind |-> "call", rule |-> r, callee |-> callee, next |-> next]
Z(r) == [kind |-> "stop", rule |-> r]
P(r, level, next) == [kind |-> "prec", rule |-> r, level |-> level, next |-> next]
E(r, next) == [kind |-> "epsilon", rule |-> r, next |-> next]
RP(r, callee, precedence, next) == R(r, callee, next) @@ [precedence |-> precedence]
D(r, type, alts, exit) ==
  [kind |-> "decision", rule |-> r, type |-> type, alts |-> alts, exit |-> exit]

Oneof(r, alts) == D(r, "BLOCK_START", alts, 0)
Optional(r, body, rest) == D(r, "BLOCK_START", <<body, rest>>, 2)
LoopEntry(r, body, rest) == D(r, "STAR_LOOP_ENTRY", <<body, rest>>, 2)
BackEdge(r, body, rest) == D(r, "STAR_LOOP_BACK", <<body, rest>>, 2)

startRule ==
      1 :> LoopEntry("startRule", 2, 4)
  @@  2 :> R("startRule", "componentHead", 3)
  @@  3 :> BackEdge("startRule", 2, 4)
  @@  4 :> LoopEntry("startRule", 5, 7)
  @@  5 :> R("startRule", "componentBody", 6)
  @@  6 :> BackEdge("startRule", 5, 7)
  @@  7 :> T("startRule", "EOF", 8)
  @@  8 :> Z("startRule")

componentHead ==
     9 :> R("componentHead", "libraryStatement", 10) @@ 10 :> Z("componentHead")

libraryStatement ==
     11 :> T("libraryStatement", "LIBRARY", 12)
  @@ 12 :> T("libraryStatement", "STRING_LITERAL", 13)
  @@ 13 :> Z("libraryStatement")

componentBody ==
     14 :> R("componentBody", "subDeclaration", 15) @@ 15 :> Z("componentBody")

subDeclaration ==
     16 :> T("subDeclaration", "SUB", 17)
  @@ 17 :> T("subDeclaration", "IDENTIFIER", 18)
  @@ 18 :> LoopEntry("subDeclaration", 19, 21)
  @@ 19 :> R("subDeclaration", "block", 20)
  @@ 20 :> BackEdge("subDeclaration", 19, 21)
  @@ 21 :> Oneof("subDeclaration", <<22, 23>>)
  @@ 22 :> T("subDeclaration", "ENDSUB", 25)
  @@ 23 :> T("subDeclaration", "END", 24)
  @@ 24 :> T("subDeclaration", "SUB", 25)
  @@ 25 :> Z("subDeclaration")

block ==
     26 :> Oneof("block", <<27, 28, 29, 30, 31, 32>>)
  @@ 27 :> R("block", "exitStatement", 33)
  @@ 28 :> R("block", "forStatement", 33)
  @@ 29 :> R("block", "nextStatement", 33)
  @@ 30 :> R("block", "printStatement", 33)
  @@ 31 :> R("block", "whileStatement", 33)
  @@ 32 :> R("block", "endStatement", 33)
  @@ 33 :> Z("block")

exitStatement ==
     34 :> Oneof("exitStatement", <<35, 37, 38>>)
  @@ 35 :> T("exitStatement", "EXIT", 36)
  @@ 36 :> T("exitStatement", "WHILE", 40)
  @@ 37 :> T("exitStatement", "EXITWHILE", 40)
  @@ 38 :> T("exitStatement", "EXIT", 39)
  @@ 39 :> T("exitStatement", "FOR", 40)
  @@ 40 :> Z("exitStatement")

forStatement ==
     41 :> T("forStatement", "FOR", 42)
  @@ 42 :> T("forStatement", "IDENTIFIER", 43)
  @@ 43 :> LoopEntry("forStatement", 44, 46)
  @@ 44 :> R("forStatement", "block", 45)
  @@ 45 :> BackEdge("forStatement", 44, 46)
  @@ 46 :> Optional("forStatement", 47, 48)
  @@ 47 :> R("forStatement", "nextStatement", 48)
  @@ 48 :> Optional("forStatement", 49, 51)
  @@ 49 :> T("forStatement", "END", 50)
  @@ 50 :> T("forStatement", "FOR", 51)
  @@ 51 :> Z("forStatement")

nextStatement == 52 :> T("nextStatement", "NEXT", 53) @@ 53 :> Z("nextStatement")

printStatement ==
     54 :> T("printStatement", "PRINT", 55)
  @@ 55 :> T("printStatement", "IDENTIFIER", 56)
  @@ 56 :> LoopEntry("printStatement", 57, 60)
  @@ 57 :> T("printStatement", "SEMICOLON", 58)
  @@ 58 :> T("printStatement", "IDENTIFIER", 59)
  @@ 59 :> BackEdge("printStatement", 57, 60)
  @@ 60 :> Z("printStatement")

whileStatement ==
     61 :> T("whileStatement", "WHILE", 62)
  @@ 62 :> T("whileStatement", "IDENTIFIER", 63)
  @@ 63 :> LoopEntry("whileStatement", 64, 66)
  @@ 64 :> R("whileStatement", "block", 65)
  @@ 65 :> BackEdge("whileStatement", 64, 66)
  @@ 66 :> Oneof("whileStatement", <<67, 68>>)
  @@ 67 :> T("whileStatement", "ENDWHILE", 70)
  @@ 68 :> T("whileStatement", "END", 69)
  @@ 69 :> T("whileStatement", "WHILE", 70)
  @@ 70 :> Z("whileStatement")

endStatement == 71 :> T("endStatement", "END", 72) @@ 72 :> Z("endStatement")

(* The left-recursive rule expression, with the levels its alternatives    *)
(* have in the file (the last of the 26 is 1), and where it is called: an  *)
(* expression is a block, the last alternative of that rule, and a loop    *)
(* over blocks has nothing between one expression and the next.            *)
(* Cut: the unary and binary operators that differ from these in their     *)
(* token and level only, and the commas of expressionList.                 *)
expressions ==
      73 :> LoopEntry("expressions", 74, 76)
  @@  74 :> RP("expressions", "expression", 0, 75)
  @@  75 :> BackEdge("expressions", 74, 76)
  @@  76 :> T("expressions", "ENDSUB", 77)
  @@  77 :> Z("expressions")

expression ==
      78 :> Oneof("expression", <<79, 80, 83>>)
  @@  79 :> T("expression", "IDENTIFIER", 86)
  @@  80 :> T("expression", "SUBTRACT", 81)
  @@  81 :> RP("expression", "expression", 23, 82)
  @@  82 :> E("expression", 86)
  @@  83 :> T("expression", "OPEN_PARENTHESIS", 84)
  @@  84 :> RP("expression", "expression", 0, 85)
  @@  85 :> T("expression", "CLOSE_PARENTHESIS", 86)
  @@  86 :> LoopEntry("expression", 87, 112)
  @@  87 :> Oneof("expression", <<88, 94, 98, 100, 104, 108>>)
  @@  88 :> P("expression", 21, 89)
  @@  89 :> T("expression", "OPEN_PARENTHESIS", 90)
  @@  90 :> Optional("expression", 91, 93)
  @@  91 :> RP("expression", "expression", 0, 92)
  @@  92 :> E("expression", 93)
  @@  93 :> T("expression", "CLOSE_PARENTHESIS", 86)
  @@  94 :> P("expression", 20, 95)
  @@  95 :> T("expression", "DOT", 96)
  @@  96 :> RP("expression", "expression", 21, 97)
  @@  97 :> E("expression", 86)
  @@  98 :> P("expression", 18, 99)
  @@  99 :> T("expression", "INCREMENT", 86)
  @@ 100 :> P("expression", 16, 101)
  @@ 101 :> T("expression", "MULTIPLY", 102)
  @@ 102 :> RP("expression", "expression", 17, 103)
  @@ 103 :> E("expression", 86)
  @@ 104 :> P("expression", 12, 105)
  @@ 105 :> T("expression", "ADD", 106)
  @@ 106 :> RP("expression", "expression", 13, 107)
  @@ 107 :> E("expression", 86)
  @@ 108 :> P("expression", 11, 109)
  @@ 109 :> T("expression", "SUBTRACT", 110)
  @@ 110 :> RP("expression", "expression", 12, 111)
  @@ 111 :> E("expression", 86)
  @@ 112 :> Z("expression")

grammar ==
  startRule @@ componentHead @@ libraryStatement @@ componentBody @@ subDeclaration
  @@ block @@ exitStatement @@ forStatement @@ nextStatement @@ printStatement
  @@ whileStatement @@ endStatement

atn == LET nodes == grammar IN [s \in 1..72 |-> nodes[s]]

ruleToStartState ==
  [ startRule |-> 1, componentHead |-> 9, libraryStatement |-> 11,
    componentBody |-> 14, subDeclaration |-> 16, block |-> 26,
    exitStatement |-> 34, forStatement |-> 41, nextStatement |-> 52,
    printStatement |-> 54, whileStatement |-> 61, endStatement |-> 71 ]
=============================================================================
