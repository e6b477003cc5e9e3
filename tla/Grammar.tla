------------------------------ MODULE Grammar ------------------------------
(***************************************************************************)
(* A grammar as the runtime walks it: the ATN (src/antlr/src/atn), with    *)
(* chains of epsilon states collapsed.  A node is                          *)
(*                                                                         *)
(*   token     one labelled transition, matched by Parser::match           *)
(*   call      a RuleTransition to callee, with its followState            *)
(*   decision  epsilon transitions, one per alternative; exit is the one   *)
(*             that leaves a loop or skips an optional part, 0 if none     *)
(*   stop      RULE_STOP                                                   *)
(*   prec      a PrecedencePredicateTransition with its level              *)
(*   epsilon   a followState of its own, where calls have to be told apart *)
(*                                                                         *)
(* A rule with prec nodes is one whose left recursion was turned into a    *)
(* loop; a call of it carries the precedence it is entered with.           *)
(*                                                                         *)
(* The decisions of a loop are two nodes, as in the ATN: its STAR_LOOP_    *)
(* ENTRY and its STAR_LOOP_BACK, with the same alternatives.               *)
(***************************************************************************)
EXTENDS Integers, Sequences, FiniteSets

CONSTANTS
  Atn,        (* node number -> node                  *)
  Entry,      (* rule -> its first node               *)
  StartRule   (* the rule main asks for               *)

Nodes == DOMAIN Atn
Rules == DOMAIN Entry

INVALID == 0           (* INVALID_STATE_NUMBER, INVALID_ALT_NUMBER, EMPTY *)
EOF == "EOF"
EPSILON == "EPSILON"

Token(s) == Atn[s].kind = "token"
Call(s) == Atn[s].kind = "call"
Decision(s) == Atn[s].kind = "decision"
Stop(s) == Atn[s].kind = "stop"
Prec(s) == Atn[s].kind = "prec"
Epsilon(s) == Atn[s].kind = "epsilon"

(* F of the value of x, which is computed once. *)
With(x, F(_)) == CHOOSE y \in {F(v) : v \in {x}} : TRUE

(* A set of numbers in ascending order. *)
Sorted(S) == [k \in 1..Cardinality(S) |-> CHOOSE x \in S : Cardinality({y \in S : y < x}) = k - 1]

callsOf == [r \in Rules |-> {s \in Nodes : Call(s) /\ Atn[s].callee = r}]
Calls(r) == callsOf[r]

LeftRecursiveRules == {Atn[s].rule : s \in {s \in Nodes : Prec(s)}}
LeftRecursive(r) == r \in LeftRecursiveRules
Recursions == {s \in Nodes : Call(s) /\ LeftRecursive(Atn[s].callee)}

(* isPrecedenceDecision: the loop's own decision, to go on or to end the   *)
(* rule (markPrecedenceDecisions).                                         *)
PrecedenceDecision(s) ==
  /\ Decision(s) /\ Atn[s].type = "STAR_LOOP_ENTRY"
  /\ LeftRecursive(Atn[s].rule) /\ Stop(Atn[s].alts[Len(Atn[s].alts)])

(* _precedenceStack.back() under the given call stack (followStates, top   *)
(* first): the precedence of the innermost call of a left-recursive rule.  *)
Precedence(stack) ==
  LET under(j) == {k \in Recursions : Atn[k].next = stack[j]}
      at == {j \in DOMAIN stack : under(j) # {}}
      top == CHOOSE j \in at : \A k \in at : j <= k
  IN IF at = {} THEN 0 ELSE Atn[CHOOSE k \in under(top) : TRUE].precedence

ASSUME GrammarAssumption ==
  /\ Nodes \subseteq Nat \ {INVALID}
  /\ StartRule \in Rules
  /\ \A r \in Rules : Entry[r] \in Nodes /\ Atn[Entry[r]].rule = r
  /\ \A s \in Nodes :
       /\ Atn[s].rule \in Rules
       /\ Token(s) \/ Call(s) \/ Decision(s) \/ Stop(s) \/ Prec(s) \/ Epsilon(s)
       /\ Token(s) \/ Call(s) \/ Prec(s) \/ Epsilon(s) =>
            Atn[s].next \in Nodes /\ Atn[Atn[s].next].rule = Atn[s].rule
       /\ Prec(s) => Atn[s].level \in Nat \ {0}
       /\ s \in Recursions =>
            /\ Atn[s].precedence \in Nat
            /\ \A k \in Nodes : Call(k) /\ Atn[k].next = Atn[s].next => k = s
       /\ Token(s) => Atn[s].token # EPSILON
       /\ Call(s) => Atn[s].callee \in Rules
       /\ Decision(s) =>
            /\ Atn[s].type \in {"BLOCK_START", "STAR_LOOP_ENTRY", "STAR_LOOP_BACK"}
            /\ Atn[s].exit \in 0..Len(Atn[s].alts)
            /\ \A a \in DOMAIN Atn[s].alts :
                 /\ Atn[s].alts[a] \in Nodes
                 /\ Atn[Atn[s].alts[a]].rule = Atn[s].rule
=============================================================================
