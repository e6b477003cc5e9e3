----------------------------- MODULE Prediction -----------------------------
(***************************************************************************)
(* ParserATNSimulator::adaptivePredict (src/antlr/src/atn): which          *)
(* alternative of a decision the coming tokens ask for.  All alternatives  *)
(* are simulated at once, first ignoring who called the current rule (SLL);*)
(* in LL mode a conflict is decided again with the real call stack.        *)
(*                                                                         *)
(* A configuration is a node, the alternative it came from, one stack of   *)
(* follow states (top first; the graph-structured stacks of the code are   *)
(* sets of these) and whether it fell off the decision's rule.  The DFA    *)
(* cache is left out, and a precedence predicate is evaluated where it is  *)
(* met.                                                                    *)
(***************************************************************************)
EXTENDS Lookahead

At(c, s, stack, out) == [c EXCEPT !.s = s, !.stack = stack, !.out = out]

Empty(c) == c.stack = << >>
AtStop(c) == Stop(c.s)

(* getEpsilonTarget over the transitions of c.s, and the pop of            *)
(* closureCheckingStopState.  Without a stack a full-context configuration *)
(* stays at the stop state; an SLL one may return to any caller.           *)
EpsilonTargets(full, eof, precedence, c) ==
  CASE Decision(c.s) -> {At(c, Atn[c.s].alts[a], c.stack, c.out) : a \in DOMAIN Atn[c.s].alts}
    [] Call(c.s) -> {At(c, Entry[Atn[c.s].callee], <<Atn[c.s].next>> \o c.stack, c.out)}
    [] Token(c.s) -> IF eof /\ Atn[c.s].token = EOF
                     THEN {At(c, Atn[c.s].next, c.stack, c.out)} ELSE {}
    [] Stop(c.s) -> IF ~Empty(c) THEN {At(c, Head(c.stack), Tail(c.stack), c.out)}
                    ELSE IF full THEN {}
                    ELSE {At(c, Atn[k].next, << >>, TRUE) : k \in Calls(Atn[c.s].rule)}
    [] Prec(c.s) -> IF Empty(c) /\ Atn[c.s].level < precedence THEN {}
                    ELSE {At(c, Atn[c.s].next, c.stack, c.out)}
    [] Epsilon(c.s) -> {At(c, Atn[c.s].next, c.stack, c.out)}

(* closure_ keeps the states that are not epsilon-only. *)
Kept(full, c) ==
  \/ Token(c.s)
  \/ AtStop(c) /\ Empty(c) /\ (full \/ Calls(Atn[c.s].rule) = {})

(* ATNConfigSet::add merges the configurations of one state and one        *)
(* alternative.  Without full context the empty stack is a wildcard, which *)
(* swallows every stack it is the bottom of.                               *)
Swallows(short, long) ==
  Len(short) < Len(long) /\ short = SubSeq(long, 1, Len(short))

Same(c, d) == c.s = d.s /\ c.alt = d.alt

Merged(full, configs) ==
  With(configs, LAMBDA C :
    {[c EXCEPT !.out = \E d \in C : Same(c, d) /\ d.out] :
       c \in {c \in C : full \/ ~\E d \in C : Same(c, d) /\ Swallows(d.stack, c.stack)}})

RECURSIVE Reachable(_, _, _, _, _)
Reachable(full, eof, precedence, done, new) ==
  IF new = {} THEN done
  ELSE With(done \union new, LAMBDA all :
         With(UNION {EpsilonTargets(full, eof, precedence, c) : c \in new} \ all, LAMBDA next :
           Reachable(full, eof, precedence, all, next)))

Settled(full, eof, precedence, C) ==
  {c \in Reachable(full, eof, precedence, {}, C) : Kept(full, c)}

Closure(full, eof, C) == Merged(full, Settled(full, eof, 0, C))

(* computeStartState: predicates count in the rule that asks only (depth   *)
(* is 0 there), so first to the tokens and the stop state of that rule,    *)
(* as if nobody had called it, and then on under the stack.                *)
Home(d, precedence) ==
  Settled(TRUE, FALSE, precedence,
    {[s |-> Atn[d].alts[a], alt |-> a, stack |-> << >>, out |-> FALSE] : a \in DOMAIN Atn[d].alts})

StartState(full, d, stack, precedence) ==
  Closure(full, FALSE, {At(c, c.s, c.stack \o stack, FALSE) : c \in Home(d, precedence)})

(* computeReachSet: {} stands for its null.  A configuration at a stop     *)
(* state waits: with full context for want of a longer match, otherwise    *)
(* only for EOF.  After EOF nothing but stop states is of interest.        *)
Moved(full, C, t) ==
  Merged(full, {At(c, Atn[c.s].next, c.stack, c.out) :
                  c \in {c \in C : Token(c.s) /\ Atn[c.s].token = t}})

Reach(full, C, t) ==
  LET skipped == {c \in C : AtStop(c) /\ (full \/ t = EOF)} IN
  With({c \in Closure(full, t = EOF, Moved(full, C, t)) : t = EOF => AtStop(c)},
       LAMBDA reach :
         IF skipped # {} /\ (~full \/ ~\E c \in reach : AtStop(c))
         THEN Merged(full, reach \union skipped) ELSE reach)

-----------------------------------------------------------------------------
Least(alts) == CHOOSE a \in alts : \A b \in alts : a <= b
Alts(C) == {c.alt : c \in C}

Stacks(C, s, a) == {c.stack : c \in {c \in C : c.s = s /\ c.alt = a}}

(* getConflictingAltSubsets: the alternatives in one state with one        *)
(* (merged) context.                                                       *)
AltSubsets(C) ==
  {{a \in Alts(C) : Stacks(C, c.s, a) = Stacks(C, c.s, c.alt)} : c \in C}

(* Mutant: without hasStateAssociatedWithOneAlt. *)
ConflictTooSoon(C) ==
  \/ \A c \in C : AtStop(c)
  \/ \E alts \in AltSubsets(C) : Cardinality(alts) > 1

ConflictTerminates(C) ==
  \/ \A c \in C : AtStop(c)
  \/ /\ \E alts \in AltSubsets(C) : Cardinality(alts) > 1
     /\ ~\E c \in C : \A d \in C : d.s = c.s => d.alt = c.alt

(* Mutant: only the last alternative is kept. *)
LastAlt(C) == {CHOOSE a \in Alts(C) : \A b \in Alts(C) : b <= a}

(* getConflictingAlts: the union of the subsets, so every alternative. *)
ConflictingAlts(C) == Alts(C)

(* getAltThatFinishedDecisionEntryRule, INVALID when no viable alternative *)
AltThatFinished(C) ==
  LET alts == Alts({c \in C : c.out \/ (AtStop(c) /\ Empty(c))})
  IN IF alts = {} THEN INVALID ELSE Least(alts)

LA(w, i) == w[IF i <= Len(w) THEN i ELSE Len(w)]

RECURSIVE FullContext(_, _, _), Simulate(_, _, _, _, _, _)

(* What a prediction comes to: the alternative, INVALID when there is none,*)
(* and the token LT(1) it was known at: that of a NoViableAltException.    *)
Answer(alt, w, i) == [alt |-> alt, at |-> IF i <= Len(w) THEN i ELSE Len(w)]

(* execATNWithFullContext, from the configurations C at token i *)
FullContext(C, w, i) ==
  With(Reach(TRUE, C, LA(w, i)), LAMBDA reach :
    LET viable == {Least(alts) : alts \in AltSubsets(reach)} IN
    IF reach = {} THEN Answer(AltThatFinished(C), w, i)
    ELSE IF Cardinality(Alts(reach)) = 1 THEN Answer(Least(Alts(reach)), w, i)
    ELSE IF Cardinality(viable) = 1 THEN Answer(Least(viable), w, i)
    ELSE FullContext(reach, w, i + 1))

(* execATN, from the configurations C at token i; start is where the       *)
(* prediction began and stack the parser's own call stack.                 *)
Simulate(mode, start, C, d, w, i) ==
  With(Reach(FALSE, C, LA(w, i)), LAMBDA reach :
    IF reach = {} THEN Answer(AltThatFinished(C), w, i)
    ELSE IF Cardinality(Alts(reach)) = 1 THEN Answer(Least(Alts(reach)), w, i)
    ELSE IF ~ConflictTerminates(reach) THEN Simulate(mode, start, reach, d, w, i + 1)
    ELSE IF mode = "SLL" THEN Answer(Least(ConflictingAlts(reach)), w, i)
    ELSE FullContext(StartState(TRUE, d, start.stack, Precedence(start.stack)), w, start.i))

(* applyPrecedenceFilter: the loop of a left-recursive rule, alternative 1,*)
(* goes before its exit where both lead to the same; unless the exit leads *)
(* there out of a call that takes any precedence.                          *)
Filtered(d, C, precedence) ==
  LET outermost == {Atn[k].next : k \in {k \in Calls(Atn[d].rule) : Atn[k].precedence = 0}}
      suppressed == Closure(FALSE, FALSE, {At(c, s, << >>, TRUE) :
                      c \in {c \in Home(d, precedence) : AtStop(c)}, s \in outermost})
  IN {c \in C : \/ c.alt = 1 \/ \E e \in suppressed : Same(c, e)
                \/ Stacks(C, c.s, c.alt) # Stacks(C, c.s, 1)}

SLLStart == [d \in {s \in Nodes : Decision(s)} |->
               [p \in {0} \union {Atn[k].precedence : k \in Calls(Atn[d].rule) \intersect Recursions} |->
                  With(StartState(FALSE, d, << >>, p), LAMBDA C :
                    IF PrecedenceDecision(d) THEN Filtered(d, C, p) ELSE C)]]

AdaptivePredict(mode, d, stack, w, i) ==
  LET p == IF LeftRecursive(Atn[d].rule) THEN Precedence(stack) ELSE 0
  IN Simulate(mode, [stack |-> stack, i |-> i], SLLStart[d][p], d, w, i)

(* How the generated code takes decision d; where it tests one token, the  *)
(* exception is about that one.                                            *)
LL1Decision == [d \in {s \in Nodes : Decision(s)} |-> LL1(d)]
Decide(mode, d, stack, w, i) ==
  IF LL1Decision[d] THEN Answer(LL1Alt(d, LA(w, i)), w, i) ELSE AdaptivePredict(mode, d, stack, w, i)
=============================================================================
