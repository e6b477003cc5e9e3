----------------------------- MODULE Lookahead -----------------------------
(***************************************************************************)
(* One-token lookahead computed from the ATN (src/antlr/src/atn): the LOOK *)
(* walk of LL1Analyzer and the nextTokens of ATN.                          *)
(*                                                                         *)
(* A context is the sequence of followStates to return to, top first.  It  *)
(* ends in << >> for a null context (look no further than the rule), in    *)
(* <<EMPTY>> for the outermost one, and in <<FOLLOW>> for the outermost    *)
(* one without addEOF, which goes on in whatever may follow the rule.      *)
(***************************************************************************)
EXTENDS Grammar, SequencesExt

EMPTY == INVALID
FOLLOW == -1
HIT_PRED == "HIT_PRED"

(* Mutant: the context stays where it is. *)
NotPopped(ctx) == ctx

Popped(ctx) == SubSeq(ctx, 2, Len(ctx))

Followers(r) == Sorted({Atn[k].next : k \in Calls(r)})

(* _LOOK: what it has added to look, and lookBusy, which the whole walk    *)
(* shares, and seeThruPreds.  called is calledRuleStack, undone on the way *)
(* out of each call.                                                       *)
Adds(acc, t) == [acc EXCEPT !.look = @ \union {t}]

RECURSIVE Walk(_, _, _, _), WalkAll(_, _, _, _)

Walk(s, ctx, called, acc) ==
  IF <<s, ctx>> \in acc.busy THEN acc
  ELSE With([acc EXCEPT !.busy = @ \union {<<s, ctx>>}], LAMBDA seen :
    CASE Stop(s) /\ ctx = << >> -> Adds(seen, EPSILON)
      [] Stop(s) /\ ctx = <<EMPTY>> -> Adds(seen, EOF)
      [] Stop(s) /\ ctx = <<FOLLOW>> -> WalkAll(Followers(Atn[s].rule), ctx, called, seen)
      [] Stop(s) /\ ctx \notin {<< >>, <<EMPTY>>, <<FOLLOW>>} ->
           Walk(ctx[1], Popped(ctx), called \ {Atn[ctx[1]].rule}, seen)
      [] Call(s) ->
           IF Atn[s].callee \in called THEN seen
           ELSE Walk(Entry[Atn[s].callee], <<Atn[s].next>> \o ctx,
                     called \union {Atn[s].callee}, seen)
      [] Token(s) -> Adds(seen, Atn[s].token)
      [] Decision(s) -> WalkAll(Atn[s].alts, ctx, called, seen)
      [] Prec(s) /\ ~seen.seeThruPreds -> Adds(seen, HIT_PRED)
      [] (Prec(s) /\ seen.seeThruPreds) \/ Epsilon(s) -> Walk(Atn[s].next, ctx, called, seen))

WalkAll(alts, ctx, called, acc) ==
  IF alts = << >> THEN acc
  ELSE With(Walk(Head(alts), ctx, called, acc), LAMBDA seen :
         WalkAll(Tail(alts), ctx, called, seen))

LookFrom(s, ctx, seeThruPreds) ==
  Walk(s, ctx, {}, [look |-> {}, busy |-> {}, seeThruPreds |-> seeThruPreds]).look
LOOK(s, ctx) == LookFrom(s, ctx, TRUE)

(* Mutant: the outermost context instead of none. *)
nextTokenToEOF == [s \in Nodes |-> LOOK(s, <<EMPTY>>)]

(* ATN::nextTokens(s), cached in the state, and nextTokens(s, ctx). *)
nextTokenWithinRule == [s \in Nodes |-> LOOK(s, << >>)]
NextTokens(s) == nextTokenWithinRule[s]
NextTokensIn(s, follow) == LOOK(s, follow \o <<EMPTY>>)

(* Mutant: a null context, so the lookahead ends where the rule does. *)
DecisionLookInRule == [d \in {s \in Nodes : Decision(s)} |->
                         [a \in DOMAIN Atn[d].alts |-> LOOK(Atn[d].alts[a], << >>)]]

(* getDecisionLookahead, one set for each alternative; none is found where *)
(* a predicate may decide.                                                 *)
DecisionLook ==
  LET unpredicated(look) == IF HIT_PRED \in look THEN {} ELSE look
  IN [d \in {s \in Nodes : Decision(s)} |->
        [a \in DOMAIN Atn[d].alts |-> unpredicated(LookFrom(Atn[d].alts[a], <<FOLLOW>>, FALSE))]]

(* The generated code tests one token where that is enough to tell the     *)
(* alternatives apart; no test passing is the exit.                        *)
LL1(d) == \A a, b \in DOMAIN Atn[d].alts :
            /\ DecisionLook[d][a] # {}
            /\ a # b => DecisionLook[d][a] \intersect DecisionLook[d][b] = {}

LL1Alt(d, t) ==
  LET fits == {a \in DOMAIN Atn[d].alts \ {Atn[d].exit} : t \in DecisionLook[d][a]}
  IN IF fits = {} THEN Atn[d].exit ELSE CHOOSE a \in fits : TRUE

-----------------------------------------------------------------------------
(* What LOOK is for: the tokens that may come next inside the rule of s,   *)
(* by the usual fixpoint over the grammar, with no walk and no stack.      *)
Grow(first) ==
  [s \in Nodes |->
     CASE Token(s) -> {Atn[s].token}
       [] Stop(s) -> {EPSILON}
       [] Call(s) -> LET f == first[Entry[Atn[s].callee]] IN
            (f \ {EPSILON}) \union (IF EPSILON \in f THEN first[Atn[s].next] ELSE {})
       [] Decision(s) -> UNION {first[t] : t \in {Atn[s].alts[a] : a \in DOMAIN Atn[s].alts}}
       [] Prec(s) \/ Epsilon(s) -> first[Atn[s].next]]

RECURSIVE Grown(_)
Grown(first) == IF Grow(first) = first THEN first ELSE Grown(Grow(first))
FirstSets == Grown([s \in Nodes |-> {}])

=============================================================================
