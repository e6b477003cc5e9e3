------------------------------ MODULE LexerATN ------------------------------
(***************************************************************************)
(* The simulation of a lexer's ATN (src/antlr/src/atn/LexerATNSimulator):  *)
(* which configurations a mode starts with and where a character leads.    *)
(* A configuration knows the rule it belongs to by its place in the mode   *)
(* (alt), the calls it is in, the actions met in its own rule, and whether *)
(* it came through a non-greedy decision.  Their order is their priority.  *)
(*                                                                         *)
(* Nodes are those of a lexer grammar with chains of epsilon collapsed:    *)
(*   set       a transition on a set of characters, EOF among them or not  *)
(*   call, decision, stop   as in a parser's grammar                       *)
(*   action    a lexer command                                             *)
(* Predicates and custom actions, which BrightScript.g4 does not have, are *)
(* left out.                                                               *)
(***************************************************************************)
EXTENDS Integers, Sequences, FiniteSets, SequencesExt

CONSTANTS
  Atn,     (* node number -> node                                *)
  Entry,   (* rule, fragments included -> its first node         *)
  Rules    (* mode -> its rules, fragments left out, in order    *)

EOF == "EOF"

Set(s) == Atn[s].kind = "set"
Stop(s) == Atn[s].kind = "stop"
NonGreedy(s) == Atn[s].kind = "decision" /\ ~Atn[s].greedy

(* F of the value of x, which is computed once. *)
With(x, F(_)) == CHOOSE y \in {F(v) : v \in {x}} : TRUE

Config(s, alt) == [s |-> s, alt |-> alt, stack |-> << >>, actions |-> << >>, lazy |-> FALSE]
To(c, s) == [c EXCEPT !.s = s, !.lazy = @ \/ NonGreedy(s)]
Pushed(c, s) == [c EXCEPT !.stack = <<s>> \o @]
Popped(c) == [c EXCEPT !.stack = Tail(@)]

(* Actions count in the token's own rule only. *)
Acting(c, action) == IF c.stack = << >> THEN [c EXCEPT !.actions = Append(@, action)] ELSE c

EpsilonTargets(c, eof) ==
  LET node == Atn[c.s] IN
  CASE node.kind = "set" -> IF eof /\ EOF \in node.chars THEN <<To(c, node.next)>> ELSE << >>
    [] node.kind = "call" -> <<To(Pushed(c, node.next), Entry[node.callee])>>
    [] node.kind = "decision" -> [a \in DOMAIN node.alts |-> To(c, node.alts[a])]
    [] node.kind = "action" -> <<To(Acting(c, node.action), node.next)>>
    [] node.kind = "stop" -> IF c.stack = << >> THEN << >> ELSE <<To(Popped(c), Head(c.stack))>>

(* OrderedATNConfigSet: the hash covers everything a configuration has. *)
Added(configs, c) == IF Contains(configs, c) THEN configs ELSE Append(configs, c)

(* closure, which says whether the rule has reached its end. *)
Visited(c, acc) ==
  IF Stop(c.s) /\ c.stack = << >>
  THEN [configs |-> Added(acc.configs, c), reached |-> TRUE]
  ELSE IF Set(c.s) /\ ~(acc.reached /\ c.lazy) THEN [acc EXCEPT !.configs = Added(@, c)]
  ELSE acc

RECURSIVE Closure(_, _, _)
Closure(todo, eof, acc) ==
  IF todo = << >> THEN acc
  ELSE With(Visited(Head(todo), acc), LAMBDA next :
         Closure(EpsilonTargets(Head(todo), eof) \o Tail(todo), eof, next))

RECURSIVE FromEachRule(_, _, _)
FromEachRule(rules, alt, configs) ==
  IF alt > Len(rules) THEN configs
  ELSE With(Closure(<<Config(Entry[rules[alt]], alt)>>, FALSE,
                    [configs |-> configs, reached |-> FALSE]), LAMBDA next :
         FromEachRule(rules, alt + 1, next.configs))

ComputeStartState(mode) == FromEachRule(Rules[mode], 1, << >>)

(* getReachableConfigSet: behind a configuration whose rule has ended,     *)
(* those of the same rule that came through a non-greedy decision give up. *)
RECURSIVE Moved(_, _, _, _)
Moved(from, t, skipAlt, configs) ==
  IF from = << >> THEN configs
  ELSE LET c == Head(from)
           node == Atn[c.s]
           over == c.alt = skipAlt
       IN IF Set(c.s) /\ t \in node.chars /\ ~(over /\ c.lazy)
          THEN With(Closure(<<To(c, node.next)>>, t = EOF,
                            [configs |-> configs, reached |-> over]), LAMBDA next :
                 Moved(Tail(from), t, IF next.reached THEN c.alt ELSE skipAlt, next.configs))
          ELSE Moved(Tail(from), t, skipAlt, configs)

INVALID_ALT_NUMBER == 0
ReachableConfigs(configs, t) == Moved(configs, t, INVALID_ALT_NUMBER, << >>)

(* addDFAState: the first configuration at the end of a rule decides. *)
Ended(configs) == SelectSeq(configs, LAMBDA c : Stop(c.s))
IsAccept(configs) == Ended(configs) # << >>
Prediction(configs) == Atn[Head(Ended(configs)).s].rule
Actions(configs) == Head(Ended(configs)).actions
=============================================================================
