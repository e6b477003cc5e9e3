------------------------------- MODULE Tokens -------------------------------
(***************************************************************************)
(* Tokens as the stream and the parser tell them apart, and what a lexer   *)
(* may deliver (src/antlr/src/Token.h, Lexer.cpp).                         *)
(***************************************************************************)
EXTENDS Integers, Sequences

CONSTANT Channel   (* CommonTokenStream::channel *)

DefaultChannel == 0
Types == {"word", "EOF"}
RawToken == [type : Types, channel : Nat]

IsEOF(t) == t.type = "EOF"

(* The parser sees the tokens of its channel, and EOF on every channel. *)
Visible(t) == t.channel = Channel \/ IsEOF(t)

(* Tokens, then one EOF, which Lexer::emitEOF puts on the default channel. *)
WellFormed(src) ==
  /\ src # << >>
  /\ \A i \in 1..Len(src) : IsEOF(src[i]) <=> i = Len(src)
  /\ src[Len(src)].channel = DefaultChannel
=============================================================================
