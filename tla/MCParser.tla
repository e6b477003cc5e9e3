------------------------------ MODULE MCParser ------------------------------
(***************************************************************************)
(* Files for the parser to be checked on: a few valid ones, and everything *)
(* one edit away from them.                                                *)
(***************************************************************************)
EXTENDS Linting, BrightScript, SequencesExt

CONSTANTS Samples, Typos   (* the valid files, the tokens an edit puts in *)

Prediction == INSTANCE Prediction

MCNextTokens(s) == Prediction!NextTokens(s)
MCNextTokensIn(s, stack) == Prediction!NextTokensIn(s, stack)
MCDecide(m, d, stack, w, i) == Prediction!Decide(m, d, stack, w, i)

Deletions(w) == {RemoveAt(w, i) : i \in 1..Len(w)}
Insertions(w) == {InsertAt(w, i, t) : i \in 1..(Len(w) + 1), t \in Typos}
Replacements(w) == {ReplaceAt(w, i, t) : i \in 1..Len(w), t \in Typos}
Edits(w) == {w} \union Deletions(w) \union Insertions(w) \union Replacements(w)

MCInputs == {Append(w, "EOF") : w \in UNION {Edits(v) : v \in Samples}}

small == {
  << >>,
  <<"LIBRARY", "STRING_LITERAL", "SUB", "IDENTIFIER", "ENDSUB">>,
  <<"SUB", "IDENTIFIER", "PRINT", "IDENTIFIER", "SEMICOLON", "IDENTIFIER", "END", "SUB">>,
  <<"SUB", "IDENTIFIER", "WHILE", "IDENTIFIER", "EXIT", "WHILE", "END", "WHILE", "ENDSUB">>,
  <<"SUB", "IDENTIFIER", "FOR", "IDENTIFIER", "FOR", "IDENTIFIER", "NEXT", "END", "FOR", "END", "SUB">>
}
(* One of them, to lose a token of. *)
printed == {v \in small : \E i \in 1..Len(v) : v[i] = "PRINT"}
nothing == {}
(* The same two mistakes in two subs. *)
twice == {
  <<"SUB", "IDENTIFIER", "WHILE", "IDENTIFIER", "WHILE", "IDENTIFIER", "ENDSUB",
    "SUB", "IDENTIFIER", "WHILE", "IDENTIFIER", "WHILE", "IDENTIFIER", "ENDSUB">>
}
typos == {"IDENTIFIER", "END", "EXIT"}

bail == [handler |-> "bail", mode |-> "SLL"]
terminal == [handler |-> "terminal", mode |-> "LL"]
default == [handler |-> "default", mode |-> "LL"]

defaults == {<<default>>}
lint == {<<bail, terminal>>}
(* bbsl with and without --no-lint, and the parser of the tests. *)
uses == {<<bail, terminal>>, <<bail>>, <<default>>}
=============================================================================
