------------------------------ MODULE Language ------------------------------
(***************************************************************************)
(* The language of the grammar, as a pushdown automaton accepts it: what   *)
(* the lookahead, the prediction and the parser are compared with.  A      *)
(* configuration is a node and the stack of nodes to return to.  ANTLR     *)
(* takes no grammar that goes round in circles without reading a token, so *)
(* both recursions end.                                                    *)
(***************************************************************************)
EXTENDS Grammar

Configurations == Nodes \X Seq(Nodes)

Moves(c) ==
  LET s == c[1]  stack == c[2] IN
  CASE Token(s) -> {}
    [] Call(s) -> {<<Entry[Atn[s].callee], <<Atn[s].next>> \o stack>>}
    [] Decision(s) -> {<<Atn[s].alts[a], stack>> : a \in DOMAIN Atn[s].alts}
    [] Stop(s) -> IF stack = << >> THEN {} ELSE {<<Head(stack), Tail(stack)>>}
    [] Prec(s) -> IF Atn[s].level >= Precedence(stack) THEN {<<Atn[s].next, stack>>} ELSE {}
    [] Epsilon(s) -> {<<Atn[s].next, stack>>}

AtEnd(c) == Stop(c[1]) /\ c[2] = << >>

(* Whether configuration c accepts the tokens of w from the i-th on. *)
Accepts(w) ==
  LET accepts[p \in Configurations \X (1..(Len(w) + 1))] ==
        LET c == p[1]  i == p[2] IN
        \/ AtEnd(c) /\ i = Len(w) + 1
        \/ /\ Token(c[1]) /\ i <= Len(w) /\ w[i] = Atn[c[1]].token
           /\ accepts[<<<<Atn[c[1]].next, c[2]>>, i + 1>>]
        \/ \E d \in Moves(c) : accepts[<<d, i>>]
  IN accepts

InLanguage(w) == Accepts(w)[<<<<Entry[StartRule], << >>>>, 1>>]

(* The tokens that may come next at node s when the rule was called from   *)
(* the given stack; EOF at the very end.                                   *)
CanFollow(s, stack) ==
  LET next[c \in Configurations] ==
        IF AtEnd(c) THEN {EOF}
        ELSE IF Token(c[1]) THEN {Atn[c[1]].token}
        ELSE UNION {next[d] : d \in Moves(c)}
  IN next[<<s, stack>>]
=============================================================================
