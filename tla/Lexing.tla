------------------------------- MODULE Lexing -------------------------------
(***************************************************************************)
(* What a lexer finds, compared with what its rules say.                   *)
(***************************************************************************)
EXTENDS Lexer

CONSTANTS Atn, Entry, Rules   (* see LexerATN *)

(* The texts a rule matches, as a pushdown automaton reads them: without   *)
(* priorities, without a DFA, each rule for itself.                        *)
Places == (DOMAIN Atn) \X Seq(DOMAIN Atn)

Moves(node, stack) ==
  CASE node.kind = "set" -> {}
    [] node.kind = "call" -> {<<Entry[node.callee], <<node.next>> \o stack>>}
    [] node.kind = "decision" -> {<<a, stack>> : a \in Range(node.alts)}
    [] node.kind = "action" -> {<<node.next, stack>>}
    [] node.kind = "stop" -> IF stack = << >> THEN {} ELSE {<<Head(stack), Tail(stack)>>}

Spread(C) ==
  LET spread[D \in SUBSET Places] ==
        LET all == D \union UNION {Moves(Atn[c[1]], c[2]) : c \in D}
        IN IF all = D THEN D ELSE spread[all]
  IN spread[C]

After(C, char) ==
  Spread({<<Atn[c[1]].next, c[2]>> :
            c \in {c \in C : Atn[c[1]].kind = "set" /\ char \in Atn[c[1]].chars}})
Accepts(C) == \E c \in C : Atn[c[1]].kind = "stop" /\ c[2] = << >>

(* How many characters of w a match of rule r may have. *)
Lengths(r, w) ==
  LET lengths[p \in (SUBSET Places) \X (0..Len(w))] ==
        LET C == p[1]  n == p[2] IN
        (IF Accepts(C) THEN {n} ELSE {})
          \union IF C = {} \/ n = Len(w) THEN {} ELSE lengths[<<After(C, w[n + 1]), n + 1>>]
  IN lengths[<<Spread({<<Entry[r], << >>>>}), 0>>]

NodesOf(r) == {k \in DOMAIN Atn : Atn[k].rule = r}
Lazy(r) == \E k \in NodesOf(r) : Atn[k].kind = "decision" /\ ~Atn[k].greedy

(* A rule with a non-greedy loop offers its shortest match only. *)
Shortest(lengths) == IF lengths = {} THEN {} ELSE {Min(lengths)}
Offers(r, w) == IF Lazy(r) THEN Shortest(Lengths(r, w)) ELSE Lengths(r, w)

Commands(r) ==
  LET acting == SetToSortSeq({k \in NodesOf(r) : Atn[k].kind = "action"}, <)
  IN [k \in DOMAIN acting |-> Atn[acting[k]].action]

(* The longest match of w in a mode, and of equally long ones that of the  *)
(* rule written first, with the commands of that rule and none of those it *)
(* refers to.  EOF can be matched behind w.                                *)
Offered(mode, w) == [k \in DOMAIN Rules[mode] |-> Offers(Rules[mode][k], Append(w, EOF))]
Matchless(mode, w) == UNION Range(Offered(mode, w)) = {}
FirstOf(rules, offered, length) == rules[Min({k \in DOMAIN offered : length \in offered[k]})]
IsMatchOf(r, configs) == TypeOf(configs) = r /\ ActionsOf(configs) = Commands(r)
Best(rules, offered, length, configs) ==
  /\ length \in UNION Range(offered) /\ \A n \in UNION Range(offered) : n <= length
  /\ IsMatchOf(FirstOf(rules, offered, length), configs)
Wins(mode, w, length, configs) == Best(Rules[mode], Offered(mode, w), length, configs)

(* What a match finds is the longest of the first rule, whatever was       *)
(* matched before it, in this text or another, and however far the         *)
(* simulation read on.                                                     *)
Rest == SubSeq(Text, startIndex + 1, Len(Text))
IndexAfter(n) == Min({startIndex + n, Len(Text)})
LongestMatch ==
  phase = "fail" =>
    IF prevAccept.state = NOSTATE THEN Matchless(Mode, Rest)
    ELSE \E n \in 0..(Len(Rest) + 1) :
           prevAccept.at.index = IndexAfter(n) /\ Wins(Mode, Rest, n, AcceptedConfigs)

-----------------------------------------------------------------------------
(* The simulation with nothing kept from earlier matches: where each       *)
(* character of w leads to, and then EOF, from the start of a mode.        *)
CharAt(w, n) == IF n <= Len(w) THEN w[n] ELSE EOF
Simulated(mode, w) ==
  LET c[n \in Nat] ==
        IF n = 0 THEN StartConfigs(mode)
        ELSE LET before == c[n - 1]
             IN IF before = << >> THEN << >> ELSE Reach(before, CharAt(w, n))
  IN c

(* When it stops, and after how many characters rules had ended by then.   *)
Over(c, w, n) == c[n] = << >> \/ (n > Len(w) /\ IsAccepting(c[n]))
Stops(c, w, n) == n > 0 /\ Over(c, w, n) /\ \A k \in 1..(n - 1) : ~Over(c, w, k)
EndsBy(c, n) == {k \in 0..n : c[k] # << >> /\ IsAccepting(c[k])}

(* What the rules are, for the texts that are lexed, is what is simulated: *)
(* the last end of a rule there is that of the longest match.              *)
Remainders == UNION {UNION {Suffixes(p[k].text) : k \in DOMAIN p} : p \in Plans}
ASSUME SimulationAssumption ==
  \A w \in Remainders, mode \in ModeNames :
    \E n \in 1..(Len(w) + 1) :
      LET c == Simulated(mode, w)
          ends == EndsBy(c, n)
      IN /\ Stops(c, w, n)
         /\ IF ends = {} THEN Matchless(mode, w) ELSE Wins(mode, w, Max(ends), c[Max(ends)])

(* With the DFA, and on it all the states and edges of earlier matches and *)
(* texts, a match ends where the simulation from nothing does and keeps    *)
(* the last end of a rule on the way, with the configurations there.       *)
FindsLastEnd ==
  phase = "fail" =>
    \E n \in Nat :
      LET c == Simulated(Mode, Rest)
          ends == EndsBy(c, n)
      IN /\ Stops(c, Rest, n)
         /\ IF ends = {} THEN prevAccept.state = NOSTATE
            ELSE /\ prevAccept.state # NOSTATE /\ prevAccept.at.index = IndexAfter(Max(ends))
                 /\ AcceptedConfigs = c[Max(ends)]

(* BrightScript.g4:514 ends a comment at its line, ~[\r\n\u2028\u2029]*,   *)
(* and src/test/resources/test.brs:5-7 has three comments on three lines,  *)
(* the middle one a bare REM: no comment reaches into the next line.       *)
CommentsEndWithLine ==
  \A k \in DOMAIN pieces : pieces[k].type = "COMMENT" =>
    \A n \in (pieces[k].start.index + 1)..(pieces[k].last + 1) : Text[n] # LineFeed
=============================================================================
