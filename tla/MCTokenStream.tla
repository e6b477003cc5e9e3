--------------------------- MODULE MCTokenStream ---------------------------
(* Every arrangement of up to MaxWords tokens and comments, then EOF. *)
EXTENDS TokenStream

CONSTANT MaxWords

word == [type |-> "word", channel |-> 0]
comment == [type |-> "word", channel |-> 1]
eof == [type |-> "EOF", channel |-> 0]

MCSources ==
  {Append(s, eof) : s \in UNION {[1..n -> {word, comment}] : n \in 0..MaxWords}}
=============================================================================
