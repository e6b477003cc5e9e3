------------------------------ MODULE MCDriver ------------------------------
(* Two files, one of them found by two arguments; texts of two lexemes.    *)
EXTENDS Driver

clean == [Blank EXCEPT !.size = 2, !.bad = {2}]
broken == [Blank EXCEPT !.size = 2, !.bad = {1, 2}, !.fails = 1]
unfinished == [Blank EXCEPT !.size = 2, !.fails = 2, !.atEOF = TRUE]
latin1 == [Blank EXCEPT !.utf8 = FALSE]
locked == [Blank EXCEPT !.opens = FALSE]
directory == [Blank EXCEPT !.reads = FALSE]

MCPaths == {"a.brs", "b.brs"}
MCTexts == {clean, broken, unfinished, latin1, locked, directory}
MCArgs == << <<"a.brs">>, <<"a.brs", "b.brs">> >>
MCConfigs ==
  {[print_parse_tree |-> p, verbose |-> p, no_lint |-> n] : p \in BOOLEAN, n \in BOOLEAN}
=============================================================================
