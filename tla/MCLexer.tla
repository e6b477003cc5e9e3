------------------------------ MODULE MCLexer ------------------------------
(***************************************************************************)
(* A fragment of the lexical rules of BrightScript.g4, those that begin    *)
(* alike, refer to one another or have commands; and a small lexer for     *)
(* what these do not have, modes, more, type, a non-greedy loop and EOF:   *)
(*   WORD : 'a'+ ;   C : 'c' ;   LAST : 'c' EOF ;                          *)
(*   NOTE : '<' .*? '>' -> skip ;                                          *)
(*   OPEN : '"' -> more, pushMode(INNER) ;   CLOSE : '}' -> popMode ;      *)
(*   mode INNER;                                                           *)
(*   SHUT : '"' -> type(WORD), popMode ;   HOLE : '{' -> pushMode(OUTER) ; *)
(*   BREAK : '\n' -> mode(OUTER) ;   TEXT : ~["{\n] -> more ;              *)
(* where OUTER is its default mode.                                        *)
(***************************************************************************)
EXTENDS Lexing

Simulation == INSTANCE LexerATN

MCStartConfigs(mode) == Simulation!ComputeStartState(mode)
MCReach(configs, char) == Simulation!ReachableConfigs(configs, char)
MCIsAccepting(configs) == Simulation!IsAccept(configs)
MCTypeOf(configs) == Simulation!Prediction(configs)
MCActionsOf(configs) == Simulation!Actions(configs)

-----------------------------------------------------------------------------
S(r, chars, next) == [kind |-> "set", rule |-> r, chars |-> chars, next |-> next]
R(r, callee, next) == [kind |-> "call", rule |-> r, callee |-> callee, next |-> next]
D(r, alts) == [kind |-> "decision", rule |-> r, alts |-> alts, greedy |-> TRUE]
Lazily(r, alts) == [kind |-> "decision", rule |-> r, alts |-> alts, greedy |-> FALSE]
A(r, do, to, next) ==
  [kind |-> "action", rule |-> r, action |-> [do |-> do, to |-> to], next |-> next]
Z(r) == [kind |-> "stop", rule |-> r]

(* A rule that is a sequence of characters, numbered from k. *)
Word(r, k, chars) ==
  [n \in k..(k + Len(chars)) |->
     IF n = k + Len(chars) THEN Z(r) ELSE S(r, {chars[n - k + 1]}, n + 1)]

LS == "\\u2028"
letters == {"e", "n", "d", "i", "f", "r", "m", "h"}
blanks == {" ", "\n", LS}
others == {"0", "#", "&", "\"", "'", ".", "+", "~"}
alphabet == letters \union blanks \union others

words ==
  Word("END", 1, <<"e", "n", "d">>) @@ Word("ENDIF", 5, <<"e", "n", "d", "i", "f">>)
  @@ Word("IF", 11, <<"i", "f">>) @@ Word("REM", 14, <<"r", "e", "m">>)

literals ==
     18 :> S("STRING_LITERAL", {"\""}, 19)
  @@ 19 :> D("STRING_LITERAL", <<20, 21, 23>>)
  @@ 20 :> S("STRING_LITERAL", alphabet \ {"\"", "\n"}, 19)
  @@ 21 :> S("STRING_LITERAL", {"\""}, 22)
  @@ 22 :> S("STRING_LITERAL", {"\""}, 19)
  @@ 23 :> S("STRING_LITERAL", {"\""}, 24)
  @@ 24 :> Z("STRING_LITERAL")
  @@ 25 :> D("INT_LITERAL", <<26, 30>>)
  @@ 26 :> S("INT_LITERAL", {"0"}, 27)
  @@ 27 :> D("INT_LITERAL", <<26, 28>>)
  @@ 28 :> D("INT_LITERAL", <<29, 35>>)
  @@ 29 :> S("INT_LITERAL", {"&"}, 35)
  @@ 30 :> S("INT_LITERAL", {"&"}, 31)
  @@ 31 :> S("INT_LITERAL", {"h"}, 32)
  @@ 32 :> S("INT_LITERAL", {"0", "d", "e", "f"}, 33)
  @@ 33 :> D("INT_LITERAL", <<32, 34>>)
  @@ 34 :> D("INT_LITERAL", <<36, 35>>)
  @@ 36 :> S("INT_LITERAL", {"&"}, 35)
  @@ 35 :> Z("INT_LITERAL")
  @@ 37 :> D("FLOAT_LITERAL", <<38, 39>>)
  @@ 38 :> S("FLOAT_LITERAL", {"0"}, 37)
  @@ 39 :> S("FLOAT_LITERAL", {"."}, 40)
  @@ 40 :> S("FLOAT_LITERAL", {"0"}, 41)
  @@ 41 :> D("FLOAT_LITERAL", <<40, 42>>)
  @@ 42 :> D("FLOAT_LITERAL", <<43, 47, 48>>)
  @@ 43 :> S("FLOAT_LITERAL", {"d", "e"}, 44)
  @@ 44 :> S("FLOAT_LITERAL", {"+"}, 45)
  @@ 45 :> S("FLOAT_LITERAL", {"0"}, 46)
  @@ 46 :> D("FLOAT_LITERAL", <<45, 48>>)
  @@ 47 :> S("FLOAT_LITERAL", {"#"}, 48)
  @@ 48 :> Z("FLOAT_LITERAL")

names ==
     49 :> S("IDENTIFIER", letters, 50)
  @@ 50 :> D("IDENTIFIER", <<51, 52>>)
  @@ 51 :> S("IDENTIFIER", letters \union {"0"}, 50)
  @@ 52 :> Z("IDENTIFIER")
  @@ 53 :> S("IDENTIFIER_TYPE_DECLARATION", {"#", "&"}, 54)
  @@ 54 :> Z("IDENTIFIER_TYPE_DECLARATION")

HIDDEN == 1
gaps ==
     55 :> D("COMMENT", <<56, 57>>)
  @@ 56 :> R("COMMENT", "SINGLE_QUOTE", 59)
  @@ 57 :> R("COMMENT", "REM", 58)
  @@ 58 :> R("COMMENT", "WS", 59)
  @@ 59 :> D("COMMENT", <<60, 61>>)
  @@ 60 :> S("COMMENT", alphabet \ {"\n", LS}, 59)
  @@ 61 :> A("COMMENT", "channel", HIDDEN, 62)
  @@ 62 :> Z("COMMENT")
  @@ 63 :> S("WS", blanks, 64)
  @@ 64 :> D("WS", <<63, 65>>)
  @@ 65 :> A("WS", "skip", 0, 66)
  @@ 66 :> Z("WS")

rest ==
     67 :> S("CONDITIONAL_ENDIF", {"#"}, 68)
  @@ 68 :> D("CONDITIONAL_ENDIF", <<69, 72>>)
  @@ 69 :> R("CONDITIONAL_ENDIF", "END", 70)
  @@ 70 :> R("CONDITIONAL_ENDIF", "WS", 71)
  @@ 71 :> R("CONDITIONAL_ENDIF", "IF", 73)
  @@ 72 :> R("CONDITIONAL_ENDIF", "ENDIF", 73)
  @@ 73 :> Z("CONDITIONAL_ENDIF")
  @@ Word("SINGLE_QUOTE", 74, <<"'">>) @@ Word("DOT", 76, <<".">>) @@ Word("ADD", 78, <<"+">>)

small ==
     Word("C", 80, <<"c">>) @@ Word("LAST", 82, <<"c", EOF>>)
  @@ 85 :> S("WORD", {"a"}, 86)
  @@ 86 :> D("WORD", <<85, 87>>)
  @@ 87 :> Z("WORD")
  @@ 88 :> S("NOTE", {"<"}, 89)
  @@ 89 :> Lazily("NOTE", <<91, 90>>)
  @@ 90 :> S("NOTE", {"a", "c", "<", ">", "\"", "{", "}", "\n"}, 89)
  @@ 91 :> S("NOTE", {">"}, 92)
  @@ 92 :> A("NOTE", "skip", 0, 93)
  @@ 93 :> Z("NOTE")
  @@ 94 :> S("OPEN", {"\""}, 95)
  @@ 95 :> A("OPEN", "more", 0, 96)
  @@ 96 :> A("OPEN", "pushMode", "INNER", 97)
  @@ 97 :> Z("OPEN")
  @@ 98 :> S("CLOSE", {"}"}, 99)
  @@ 99 :> A("CLOSE", "popMode", 0, 100)
  @@ 100 :> Z("CLOSE")
  @@ 101 :> S("SHUT", {"\""}, 102)
  @@ 102 :> A("SHUT", "type", "WORD", 103)
  @@ 103 :> A("SHUT", "popMode", 0, 104)
  @@ 104 :> Z("SHUT")
  @@ 105 :> S("HOLE", {"{"}, 106)
  @@ 106 :> A("HOLE", "pushMode", "OUTER", 107)
  @@ 107 :> Z("HOLE")
  @@ 108 :> S("BREAK", {"\n"}, 109)
  @@ 109 :> A("BREAK", "mode", "OUTER", 110)
  @@ 110 :> Z("BREAK")
  @@ 111 :> S("TEXT", {"a", "c", "<", ">", "}"}, 112)
  @@ 112 :> A("TEXT", "more", 0, 113)
  @@ 113 :> Z("TEXT")

atn == words @@ literals @@ names @@ gaps @@ rest @@ small
MCAtn == [k \in 1..113 |-> atn[k]]

first ==
  [END |-> 1, ENDIF |-> 5, REM |-> 14, STRING_LITERAL |-> 18, INT_LITERAL |-> 25,
   FLOAT_LITERAL |-> 37, IDENTIFIER |-> 49, IDENTIFIER_TYPE_DECLARATION |-> 53, COMMENT |-> 55,
   WS |-> 63, CONDITIONAL_ENDIF |-> 67, SINGLE_QUOTE |-> 74, DOT |-> 76, ADD |-> 78,
   C |-> 80, LAST |-> 82, WORD |-> 85, NOTE |-> 88, OPEN |-> 94, CLOSE |-> 98,
   SHUT |-> 101, HOLE |-> 105, BREAK |-> 108, TEXT |-> 111] @@ "IF" :> 11
MCEntry == [r \in DOMAIN first |-> first[r]]

MCChar == alphabet \union {"a", "c", "<", ">", "{", "}"}

modes_ ==
  [DEFAULT_MODE |-> <<"END", "ENDIF", "IF", "REM", "STRING_LITERAL", "INT_LITERAL", "FLOAT_LITERAL",
                      "IDENTIFIER", "IDENTIFIER_TYPE_DECLARATION", "COMMENT", "WS",
                      "CONDITIONAL_ENDIF", "SINGLE_QUOTE", "DOT", "ADD">>,
   OUTER |-> <<"WORD", "C", "LAST", "NOTE", "OPEN", "CLOSE">>,
   INNER |-> <<"SHUT", "HOLE", "BREAK", "TEXT">>]
MCWide == {LS}
MCRules == [m \in DOMAIN modes_ |-> modes_[m]]

(* Whatever the modes start with, and what can be reached from there.      *)
RECURSIVE Reachable(_, _)
Reachable(found, new) ==
  IF new = {} THEN found
  ELSE LET next == {MCReach(c, char) : c \in new, char \in MCChar \union {EOF}} \ {<< >>}
       IN Reachable(found \union new, next \ (found \union new))
MCConfigs == Reachable({}, {MCStartConfigs(m) : m \in DOMAIN modes_})

-----------------------------------------------------------------------------
BrightScript(text) == [mode |-> "DEFAULT_MODE", text |-> text]
Small(text) == [mode |-> "OUTER", text |-> text]

lexemes == {<<"e", "n", "d">>, <<"i", "f">>, <<"r", "e", "m">>, <<" ">>, <<"\n">>, <<LS>>, <<"#">>,
            <<"'">>, <<"\"">>, <<"0">>, <<".">>, <<"&", "h">>, <<"e", "+">>, <<"~">>}
Texts(of, n) == {FlattenSeq(w) : w \in BoundedSeq(of, n)}
tangled == {<<"e", "n", "d">>, <<" ">>, <<"i", "f">>, <<"#">>, <<"\"">>, <<"0">>, <<".">>, <<"\n">>}
longer ==
  {<<"#", "e", "n", "d">> \o gap \o end :
     gap \in {<<" ">>, <<LS, "\n">>, << >>}, end \in {<<"i">>, <<"i", "f">>, <<"'", "~">>}}
  \union {<<"r", "e", "m", LS, "0", "\n">>, <<"0", ".", "0", "e", "+">>, <<"0", ".", "0", "e", "+", "0">>,
          <<"&", "h", "d", "&">>, <<"0", "0", "&", "&">>, <<"\"", "\"", "\"", "e">>,
          <<"'", "~", "\n", "~", "i">>, <<"&", "h", "0", "\n", "'">>}
smallTexts ==
  BoundedSeq({"a", "c", "<", ">", "\"", "{", "}", "\n"}, 3)
  \union {<<"\"", "a", "{", "c", "}", ">", "\"", "a">>, <<"<", "<", "a", ">", "c", ">">>,
          <<"\"", "\n", "}", "c">>, <<"\"", "{", "\"", "a", "\"", "}">>, <<"a", "<", "\n", "a">>,
          <<"c", "}", "}", "c">>}

MCPlans ==
  {<<BrightScript(text)>> : text \in Texts(lexemes, 2) \union Texts(tangled, 3) \union longer}
  \union {<<BrightScript(v), BrightScript(w)>> : v \in Texts(lexemes, 1), w \in Texts(lexemes, 1) \union longer}
  \union {<<Small(text)>> : text \in smallTexts}

remarks == {<<BrightScript(<<"r", "e", "m">> \o gap \o <<"e", "n", "d">>)>> : gap \in {<<" ">>, <<"\n">>}}
=============================================================================
