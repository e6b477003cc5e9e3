------------------------------- MODULE Asking -------------------------------
(***************************************************************************)
(* Everywhere the runtime may be in the grammar when it asks what comes    *)
(* next: the walk of ParserInterpreter and of the generated parsers (one   *)
(* node after the other, into a rule and back to the caller's followState) *)
(* without any input, so that lookahead is compared with the language at   *)
(* every node under every call stack, not only where some file leads to.   *)
(***************************************************************************)
EXTENDS Prediction, Language

CONSTANT MaxDepth   (* bound: calls on the stack *)
ASSUME MaxDepthAssumption == MaxDepth \in Nat

VARIABLES node, stack   (* where the parser is, the followStates above it *)
vars == <<node, stack>>

MatchToken ==
  /\ Token(node)
  /\ node' = Atn[node].next
  /\ UNCHANGED stack

EnterRule ==
  /\ Call(node) /\ Len(stack) < MaxDepth
  /\ node' = Entry[Atn[node].callee]
  /\ stack' = <<Atn[node].next>> \o stack

TakeAlt ==
  /\ Decision(node)
  /\ \E a \in DOMAIN Atn[node].alts : node' = Atn[node].alts[a]
  /\ UNCHANGED stack

ExitRule ==
  /\ Stop(node) /\ stack # << >>
  /\ node' = Head(stack)
  /\ stack' = Tail(stack)

Init == node = Entry[StartRule] /\ stack = << >>
Next == MatchToken \/ EnterRule \/ TakeAlt \/ ExitRule
Spec == Init /\ [][Next]_vars

-----------------------------------------------------------------------------
(* LL1Analyzer.h:51-52: LOOK returns "the set of tokens that can follow s  *)
(* in the ATN", with EPSILON where the end of the rule is reached.  The    *)
(* cached set of a state is what sync and single-token deletion trust.     *)
LookIsComplete == NextTokens(node) = FirstSets[node]

(* The same under a call stack: LOOK walks out of nullable tails into the  *)
(* callers, and no further than they really go on.                         *)
LookIsExactInContext == NextTokensIn(node, stack) = CanFollow(node, stack)

(* Where the generated code tests a single token, that token never leads   *)
(* into an alternative from which, under this stack, it cannot come next   *)
(* when another alternative, or the exit, could take it.                   *)
LL1Sound ==
  Decision(node) /\ LL1Decision[node] =>
    \A a \in DOMAIN Atn[node].alts :
      \A t \in CanFollow(Atn[node].alts[a], stack) : LL1Alt(node, t) = a
=============================================================================
