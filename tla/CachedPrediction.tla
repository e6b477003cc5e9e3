-------------------------- MODULE CachedPrediction --------------------------
(***************************************************************************)
(* ParserATNSimulator as it runs (src/antlr/src/atn): the DFA of one       *)
(* decision, which outlives the parser, the mergeCache, which lives as     *)
(* long as a prediction, and configurations whose stacks are graphs.       *)
(*                                                                         *)
(* Prediction says what is decided with sets of stacks and nothing cached; *)
(* here the same is computed step by step, in the order of the code, while *)
(* predictions in SLL and LL mode for any files follow one another.        *)
(***************************************************************************)
EXTENDS Grammar, PredictionContexts

CONSTANTS
  Files,      (* the rule asked for and the tokens, the last of them EOF *)
  MaxCalls    (* bound: predictions in a row                                    *)

Plain == INSTANCE Prediction
Language == INSTANCE Language

ASSUME CallsAssumption ==
  /\ MaxCalls \in Nat
  /\ \A f \in Files : f.rule \in Rules /\ f.w[Len(f.w)] = EOF

-----------------------------------------------------------------------------
(* What a parser asks on the way through a file, up to its first error. *)
(* A loop asks for the decision of its entry, the first time and again. *)
DecisionOf(s) == CHOOSE d \in {d \in Nodes : Decision(d)} :
                   Atn[d].type # "STAR_LOOP_BACK" /\ Atn[d].alts = Atn[s].alts

(* The parser's next position: node, calls and token. *)
Position(s, stack, k) == [s |-> s, stack |-> stack, k |-> k]
Chosen(w, p) == Plain!AdaptivePredict("LL", p.s, p.stack, w, p.k).alt
Onwards(w, p) ==
  CASE Token(p.s) -> IF Atn[p.s].token # w[p.k] THEN {}
                     ELSE {Position(Atn[p.s].next, p.stack, IF w[p.k] = EOF THEN p.k ELSE p.k + 1)}
    [] Prec(p.s) -> IF Atn[p.s].level < Precedence(p.stack) THEN {}   (* precpred *)
                    ELSE {Position(Atn[p.s].next, p.stack, p.k)}
    [] Epsilon(p.s) -> {Position(Atn[p.s].next, p.stack, p.k)}
    [] Call(p.s) -> {Position(Entry[Atn[p.s].callee], <<Atn[p.s].next>> \o p.stack, p.k)}
    [] Stop(p.s) -> IF p.stack = << >> THEN {}
                    ELSE {Position(Head(p.stack), Tail(p.stack), p.k)}
    [] Decision(p.s) -> {Position(Atn[p.s].alts[a], p.stack, p.k) :
                           a \in {Chosen(w, p)} \ {INVALID}}

RECURSIVE Passed(_, _)
Passed(w, at_) ==
  IF at_ = {} THEN {}
  ELSE at_ \union With(UNION {Onwards(w, p) : p \in at_}, LAMBDA next : Passed(w, next))

Asked(f) == {[d |-> DecisionOf(p.s), stack |-> p.stack, w |-> f.w, i |-> p.k] :
               p \in {p \in Passed(f.w, {Position(Entry[f.rule], << >>, 1)}) :
                        Decision(p.s) /\ ~Plain!LL1Decision[p.s]}}

(* The requests about one decision each. *)
Requests ==
  With(UNION {Asked(f) : f \in Files}, LAMBDA all : {{r \in all : r.d = e.d} : e \in all})

VARIABLES
  asks,      (* the requests about one decision: they never change        *)
  dfa,       (* the DFA of that decision: states by number, edges, and    *)
             (* the start states: s0, or one for each precedence          *)
  request,   (* the prediction under way or made last, with its mode      *)
  phase,     (* idle, exec, target, full, answer                          *)
  at,        (* the DFA state reached (previousD) and the next one (D)    *)
  configs,   (* with full context: previous                               *)
  i,         (* input->index()                                            *)
  memo,      (* mergeCache                                                *)
  answer,    (* the alternative, INVALID for NoViableAltException         *)
  count      (* predictions begun                                         *)

vars == <<asks, dfa, request, phase, at, configs, i, memo, answer, count>>

ERROR == 0          (* ATNSimulator::ERROR; states are numbered from 1 *)
NONE == {}          (* SemanticContext::NONE                              *)
None == [configs |-> << >>, dips |-> FALSE, hasSemanticContext |-> FALSE]   (* an ATNConfigSet *)
NoRequest == << >>

-----------------------------------------------------------------------------
(* A configuration: node, alternative, context, semantic context and       *)
(* reachesIntoOuterContext, whose highest bit says that the precedence     *)
(* filter does not apply to it.                                            *)
SUPPRESS_PRECEDENCE_FILTER == 2^30
IsPrecedenceFilterSuppressed(c) == c.outer >= SUPPRESS_PRECEDENCE_FILTER
GetOuterContextDepth(c) == c.outer % SUPPRESS_PRECEDENCE_FILTER
Suppressed(c) ==
  IF IsPrecedenceFilterSuppressed(c) THEN c ELSE [c EXCEPT !.outer = @ + SUPPRESS_PRECEDENCE_FILTER]

(* What ATNConfig == compares: not how far out, only whether suppressed. *)
Known(c) == [c EXCEPT !.outer = IF IsPrecedenceFilterSuppressed(c) THEN 1 ELSE 0]

(* SemanticContext: the levels a precedence has to be no greater than.     *)
(* precpred of all of them; AND keeps them all.                            *)
Eval(sem, precedence) == \A level \in sem : level >= precedence
And(sem, level) == sem \union {level}

(* SemanticContext::hashCode: 31 * 1 + level for one, and for NONE a       *)
(* number far from those.  (Predicates are collected up to the first       *)
(* token, and no rule asks for two levels before it: none has more.)       *)
SemanticHash(sem) == IF sem = NONE THEN 10^8 ELSE 31 + CHOOSE level \in sem : TRUE

(* ATNConfigSet::add finds the configuration to merge with by its hash     *)
(* alone.                                                                  *)
Hash(c) == 31 * (31 * (31 * 7 + c.s) + c.alt) + SemanticHash(c.sem)

Outer(existing, c) == IF c.outer > existing.outer THEN c.outer ELSE existing.outer

Add(acc, c, full) ==
  LET set == acc.set
      same == {k \in DOMAIN set.configs : Hash(set.configs[k]) = Hash(c)}
      flags == [dips |-> set.dips \/ GetOuterContextDepth(c) > 0,
                hasSemanticContext |-> set.hasSemanticContext \/ c.sem # NONE]
  IN IF same = {}
     THEN [acc EXCEPT !.set = flags @@ [configs |-> Append(set.configs, c)]]
     ELSE LET k == CHOOSE k \in same : TRUE
              old == set.configs[k]
              merged == Merge(old.ctx, c.ctx, ~full, acc.memo)
              new == [old EXCEPT !.ctx = merged.ctx, !.outer = Outer(old, c)]
          IN [acc EXCEPT !.set = flags @@ [configs |-> [set.configs EXCEPT ![k] = new]],
                         !.memo = merged.memo]

-----------------------------------------------------------------------------
(* closureCheckingStopState and closure_, depth first: acc is the set so   *)
(* far, closureBusy and the mergeCache.  how gathers their parameters and  *)
(* what they ask the simulator: full, eof, collectPredicates, the parser's *)
(* precedence and the decision.  A step is a configuration to visit next   *)
(* and its depth; once marks those closureBusy is asked about, out those   *)
(* that leave a rule nobody is known to have called, suppress those of     *)
(* them that return from a call with precedence 0.                         *)
Begun(m) == [set |-> None, busy |-> {}, memo |-> m]
Follows == [r \in Rules |-> Sorted({Atn[k].next : k \in Calls(r)})]

OutermostPrecedenceReturn(s) ==
  \E k \in Recursions : Atn[k].next = s /\ Atn[k].precedence = 0

Step(c, s, ctx, depth) ==
  [c |-> [c EXCEPT !.s = s, !.ctx = ctx], depth |-> depth,
   once |-> FALSE, out |-> FALSE, suppress |-> FALSE]
Once(step) == [step EXCEPT !.once = TRUE]
Out(step, suppress) == [step EXCEPT !.once = TRUE, !.out = TRUE, !.suppress = suppress]

(* Pop every return state; without a context, return to any caller. *)
Fall(c, depth, how) ==
  LET f == Follows[Atn[c.s].rule]
      suppress(s) == /\ PrecedenceDecision(how.d) /\ Atn[how.d].rule = Atn[c.s].rule
                     /\ OutermostPrecedenceReturn(s)
  IN [k \in DOMAIN f |-> Out(Step(c, f[k], c.ctx, depth - 1), suppress(f[k]))]
Pop(c, e, depth, how) ==
  IF e.state # EMPTY_RETURN_STATE THEN <<Step(c, e.state, e.parent, depth - 1)>>
  ELSE IF how.full THEN <<Step(c, c.s, EMPTY, depth)>> ELSE Fall(c, depth, how)

(* canDropLoopEntryEdgeInLeftRecursiveRule: whoever called goes on with    *)
(* the same loop, so what the loop can do is found there.                  *)
CanDropLoopEntryEdge(c) ==
  /\ PrecedenceDecision(c.s) /\ ~HasEmptyPath(c.ctx)
  /\ \A e \in ToSet(c.ctx) : Epsilon(e.state) /\ Atn[e.state].next = c.s

(* precedenceTransition, in the rule that asks *)
Predicated(c, depth, how) ==
  LET on == Step(c, Atn[c.s].next, c.ctx, depth) IN
  IF ~how.collectPredicates \/ depth # 0 THEN <<on>>
  ELSE IF ~how.full THEN <<[on EXCEPT !.c.sem = And(@, Atn[c.s].level)]>>
  ELSE IF Eval({Atn[c.s].level}, how.precedence) THEN <<on>> ELSE << >>

Steps(c, depth, how) ==
  CASE Decision(c.s) ->
         LET alts == [a \in DOMAIN Atn[c.s].alts |-> Step(c, Atn[c.s].alts[a], c.ctx, depth)]
         IN IF CanDropLoopEntryEdge(c) THEN Tail(alts) ELSE alts
    [] Call(c.s) -> <<Step(c, Entry[Atn[c.s].callee], <<Edge(Atn[c.s].next, c.ctx)>>,
                           IF depth >= 0 THEN depth + 1 ELSE depth)>>
    [] Token(c.s) -> IF how.eof /\ Atn[c.s].token = EOF
                     THEN <<Once(Step(c, Atn[c.s].next, c.ctx, depth))>> ELSE << >>
    [] Stop(c.s) -> IF c.ctx # EMPTY
                    THEN FlattenSeq([k \in DOMAIN c.ctx |-> Pop(c, c.ctx[k], depth, how)])
                    ELSE IF how.full THEN << >> ELSE Fall(c, depth, how)
    [] Prec(c.s) -> Predicated(c, depth, how)
    [] Epsilon(c.s) -> <<Step(c, Atn[c.s].next, c.ctx, depth)>>

Kept(c, full) ==
  \/ Token(c.s)
  \/ Stop(c.s) /\ c.ctx = EMPTY /\ (full \/ Calls(Atn[c.s].rule) = {})

(* closureBusy is asked before a configuration is suppressed, and holds it *)
(* as it is after.                                                         *)
RECURSIVE Closure(_, _, _), Visit(_, _, _)
Closure(steps, how, acc) ==
  IF steps = << >> THEN acc
  ELSE With(Visit(Head(steps), how, acc), LAMBDA next : Closure(Tail(steps), how, next))

Visit(step, how, acc) ==
  LET found == IF step.suppress THEN Suppressed(step.c) ELSE step.c
      c == IF step.out THEN [found EXCEPT !.outer = @ + 1] ELSE found
      seen == IF step.once THEN [acc EXCEPT !.busy = @ \union {Known(c)}] ELSE acc
      left == [seen EXCEPT !.set.dips = @ \/ step.out]
  IN IF step.once /\ Known(step.c) \in acc.busy THEN acc
     ELSE With(IF Kept(c, how.full) THEN Add(left, c, how.full) ELSE left, LAMBDA next :
            Closure(Steps(c, step.depth, how), how, next))

(* computeStartState *)
RECURSIVE FromEachAlt(_, _, _, _)
FromEachAlt(a, ctx, how, acc) ==
  IF a \notin DOMAIN Atn[how.d].alts THEN acc
  ELSE LET c == [s |-> Atn[how.d].alts[a], alt |-> a, ctx |-> ctx, sem |-> NONE, outer |-> 0]
       IN With(Closure(<<Step(c, c.s, c.ctx, 0)>>, how, [acc EXCEPT !.busy = {}]), LAMBDA next :
            FromEachAlt(a + 1, ctx, how, next))

ComputeStartState(d, ctx, full, precedence, m) ==
  FromEachAlt(1, ctx, [full |-> full, eof |-> FALSE, collectPredicates |-> TRUE,
                       precedence |-> precedence, d |-> d], Begun(m))

-----------------------------------------------------------------------------
AltsOf(set) == {set.configs[k].alt : k \in DOMAIN set.configs}
AtStop(c) == Stop(c.s)
AllAtStop(set) == \A k \in DOMAIN set.configs : AtStop(set.configs[k])

RECURSIVE AddAll(_, _, _)
AddAll(configs_, full, acc) ==
  IF configs_ = << >> THEN acc
  ELSE With(Add(acc, Head(configs_), full), LAMBDA next : AddAll(Tail(configs_), full, next))

(* applyPrecedenceFilter: the first alternative, the loop, where its       *)
(* predicates hold; of the others what it has not in the same context.     *)
Filtered(configs_, precedence) ==
  LET first == SelectSeq(configs_, LAMBDA c : c.alt = 1 /\ Eval(c.sem, precedence))
      latest(k) == \A j \in DOMAIN first : first[j].s = first[k].s => j <= k
      loops(c) == \E k \in DOMAIN first : latest(k) /\ first[k].s = c.s /\ first[k].ctx = c.ctx
  IN [k \in DOMAIN first |-> [first[k] EXCEPT !.sem = NONE]]
       \o SelectSeq(configs_, LAMBDA c :
            c.alt # 1 /\ (IsPrecedenceFilterSuppressed(c) \/ ~loops(c)))

ApplyPrecedenceFilter(set, precedence, m) ==
  AddAll(Filtered(set.configs, precedence), FALSE, Begun(m))

(* computeReachSet: no closure where one alternative is left.  (The set    *)
(* is empty where the code returns null.)                                  *)
Reach(set, t, d, full, m) ==
  LET how == [full |-> full, eof |-> t = EOF, collectPredicates |-> FALSE, precedence |-> 0, d |-> d]
      waiting == SelectSeq(set.configs, LAMBDA c : AtStop(c) /\ (full \/ t = EOF))
      moving == SelectSeq(set.configs, LAMBDA c : Token(c.s) /\ Atn[c.s].token = t)
      moved == [k \in DOMAIN moving |-> [moving[k] EXCEPT !.s = Atn[@].next]]
  IN
  With(AddAll(moved, full, Begun(m)), LAMBDA intermediate :
  With(IF waiting = << >> /\ t # EOF /\ Cardinality(AltsOf(intermediate.set)) = 1
       THEN intermediate
       ELSE Closure([k \in DOMAIN intermediate.set.configs |->
                       LET c == intermediate.set.configs[k] IN Step(c, c.s, c.ctx, 0)],
                    how, Begun(intermediate.memo)), LAMBDA reach :
  With(IF t = EOF /\ ~AllAtStop(reach.set)
       THEN AddAll(SelectSeq(reach.set.configs, AtStop), full, Begun(reach.memo))
       ELSE reach, LAMBDA ended :
  IF full /\ \E k \in DOMAIN ended.set.configs : AtStop(ended.set.configs[k])
  THEN ended ELSE AddAll(waiting, full, ended))))

-----------------------------------------------------------------------------
(* PredictionMode *)
Least(alts) == CHOOSE a \in alts : \A b \in alts : a <= b
AltsWith(set, c) ==
  {e.alt : e \in {e \in ToSet(set.configs) : e.s = c.s /\ e.ctx = c.ctx}}
AltSubsets(set) == {AltsWith(set, c) : c \in ToSet(set.configs)}

(* In LL mode without the predicates, full context can still tell. *)
Tossed(set) ==
  AddAll([k \in DOMAIN set.configs |-> [set.configs[k] EXCEPT !.sem = NONE]], TRUE,
         Begun(NoMerges)).set

ConflictTerminates(set, mode) ==
  \/ AllAtStop(set)
  \/ With(IF mode = "LL" /\ set.hasSemanticContext THEN Tossed(set) ELSE set, LAMBDA dup :
       /\ \E alts \in AltSubsets(dup) : Cardinality(alts) > 1
       /\ ~\E c \in ToSet(dup.configs) : \A e \in ToSet(dup.configs) : e.s = c.s => e.alt = c.alt)

(* getSynValidOrSemInvalidAltThatFinishedDecisionEntryRule *)
AltThatFinished(set, precedence) ==
  LET finished == {c \in ToSet(set.configs) :
                     GetOuterContextDepth(c) > 0 \/ (AtStop(c) /\ HasEmptyPath(c.ctx))}
      valid == {c.alt : c \in {c \in finished : Eval(c.sem, precedence)}}
      alts == {c.alt : c \in finished}
  IN IF valid # {} THEN Least(valid) ELSE IF alts # {} THEN Least(alts) ELSE INVALID

-----------------------------------------------------------------------------
(* DFAState: what computeTargetState makes of a set in the mode of the     *)
(* prediction that needs it first.  prediction is its least alternative in *)
(* both cases, the unique one and the conflict.                            *)
Conflicting(set, mode) == Cardinality(AltsOf(set)) > 1 /\ ConflictTerminates(set, mode)

(* predicateDFAState: what each of the alternatives depends on, if any     *)
(* does; it is any one of the semantic contexts (OR).                      *)
Predicates(set) ==
  LET pred == [a \in AltsOf(set) |-> {c.sem : c \in {c \in ToSet(set.configs) : c.alt = a}}]
  IN IF \E a \in AltsOf(set) : NONE \notin pred[a] THEN pred ELSE << >>

DFAState(set, conflict) ==
  LET unique == AltsOf(set) \ {Least(AltsOf(set))} = {}
      accept == unique \/ conflict
  IN
  [set |-> set,
   uniqueAlt |-> IF unique THEN Least(AltsOf(set)) ELSE INVALID,
   conflictingAlts |-> IF conflict THEN UNION AltSubsets(set) ELSE {},
   isAcceptState |-> accept,
   requiresFullContext |-> conflict,
   predicates |-> IF accept THEN Predicates(set) ELSE << >>,
   prediction |-> IF accept THEN Least(AltsOf(set)) ELSE INVALID]

StartDFAState(set) ==
  [set |-> set, uniqueAlt |-> INVALID, conflictingAlts |-> {}, isAcceptState |-> FALSE,
   requiresFullContext |-> FALSE, predicates |-> << >>, prediction |-> INVALID]

(* Mutant: states are told apart by their alternatives only. *)
EqualAlts(D, E) == AltsOf(D.set) = AltsOf(E.set)

(* DFAState and ATNConfigSet ==: the configurations in their order,        *)
(* without how far each is out of the rule.                                *)
Equal(D, E) ==
  /\ D.uniqueAlt = E.uniqueAlt /\ D.conflictingAlts = E.conflictingAlts
  /\ D.set.dips = E.set.dips /\ D.set.hasSemanticContext = E.set.hasSemanticContext
  /\ [k \in DOMAIN D.set.configs |-> Known(D.set.configs[k])]
       = [k \in DOMAIN E.set.configs |-> Known(E.set.configs[k])]

(* Mutant: the new state is not kept. *)
AddNothing(states, D) == [number |-> Len(states) + 1, states |-> states]

(* addDFAState: the number of the state and the states with it. *)
Existing(states, D) == {k \in DOMAIN states : Equal(states[k], D)}
AddDFAState(states, D) ==
  IF Existing(states, D) # {}
  THEN [number |-> CHOOSE k \in Existing(states, D) : TRUE, states |-> states]
  ELSE [number |-> Len(states) + 1, states |-> Append(states, D)]

-----------------------------------------------------------------------------
LA(k) == request.w[IF k <= Len(request.w) THEN k ELSE Len(request.w)]
t == LA(i)
Onward == IF t = EOF THEN i ELSE i + 1

precedence == Precedence(request.stack)   (* of the parser *)

(* Mutant: one start state for every precedence. *)
OneStart(r) == 0

(* adaptivePredict: the start state is computed once, ignoring who called, *)
(* or once for each precedence where the loop of a left-recursive rule is  *)
(* decided.                                                                *)
StartingAt(r) == IF PrecedenceDecision(r.d) THEN Precedence(r.stack) ELSE 0

ComputeStart(r) ==
  With(ComputeStartState(r.d, EMPTY, FALSE, Precedence(r.stack), memo), LAMBDA start :
    IF PrecedenceDecision(r.d)
    THEN ApplyPrecedenceFilter(start.set, Precedence(r.stack), start.memo) ELSE start)

AdaptivePredict ==
  /\ phase = "idle" /\ count < MaxCalls
  /\ \E r \in asks, mode \in {"SLL", "LL"} :
       /\ request' = r @@ [mode |-> mode]
       /\ i' = r.i
       /\ IF StartingAt(r) \in DOMAIN dfa.s0
          THEN at' = [previous |-> dfa.s0[StartingAt(r)], D |-> ERROR] /\ UNCHANGED <<dfa, memo>>
          ELSE \E start \in {ComputeStart(r)} :
                 LET added == AddDFAState(dfa.states, StartDFAState(start.set)) IN
                 /\ dfa' = [dfa EXCEPT !.s0 = StartingAt(r) :> added.number @@ @,
                                       !.states = added.states]
                 /\ at' = [previous |-> added.number, D |-> ERROR]
                 /\ memo' = start.memo
  /\ phase' = "exec"
  /\ count' = count + 1
  /\ UNCHANGED <<asks, configs, answer>>

(* execATN: getExistingTargetState, *)
EdgeNow == <<at.previous, t>>
ExistingTargetState ==
  /\ phase = "exec" /\ EdgeNow \in DOMAIN dfa.edges
  /\ at' = [at EXCEPT !.D = dfa.edges[EdgeNow]]
  /\ phase' = "target"
  /\ UNCHANGED <<asks, dfa, request, configs, i, memo, answer, count>>

(* or computeTargetState, which adds the edge. *)
ComputeTargetState ==
  /\ phase = "exec" /\ EdgeNow \notin DOMAIN dfa.edges
  /\ \E reach \in {Reach(dfa.states[at.previous].set, t, request.d, FALSE, memo)} :
     \E conflict \in {Conflicting(reach.set, request.mode)} :
     \E added \in {IF reach.set.configs = << >> THEN [number |-> ERROR, states |-> dfa.states]
                   ELSE AddDFAState(dfa.states, DFAState(reach.set, conflict))} :
       /\ dfa' = [dfa EXCEPT !.states = added.states, !.edges = EdgeNow :> added.number @@ @]
       /\ at' = [at EXCEPT !.D = added.number]
       /\ memo' = reach.memo
  /\ phase' = "target"
  /\ UNCHANGED <<asks, request, configs, i, answer, count>>

Target == dfa.states[at.D]
Answering(alt) ==
  /\ phase' = "answer" /\ answer' = alt
  /\ UNCHANGED <<asks, dfa, request, at, configs, memo, count>>

NoTarget ==
  /\ phase = "target" /\ at.D = ERROR
  /\ Answering(AltThatFinished(dfa.states[at.previous].set, precedence))
  /\ i' = request.i

(* evalSemanticContext: the alternatives whose predicates hold; all of     *)
(* them where none has any.                                                *)
ByPredicates == {a \in DOMAIN Target.predicates :
                   \E sem \in Target.predicates[a] : Eval(sem, precedence)}

NeedsFullContext ==
  /\ Target.requiresFullContext /\ request.mode # "SLL"
  /\ Target.predicates = << >> \/ Cardinality(ByPredicates) # 1

Accept ==
  /\ phase = "target" /\ at.D # ERROR
  /\ ~NeedsFullContext /\ Target.isAcceptState
  /\ Answering(IF Target.predicates = << >> THEN Target.prediction
               ELSE IF ByPredicates = {} THEN INVALID ELSE Least(ByPredicates))
  /\ i' = IF Target.predicates = << >> THEN i ELSE request.i

GoOn ==
  /\ phase = "target" /\ at.D # ERROR
  /\ ~NeedsFullContext /\ ~Target.isAcceptState
  /\ at' = [previous |-> at.D, D |-> ERROR]
  /\ i' = Onward
  /\ phase' = "exec"
  /\ UNCHANGED <<asks, dfa, request, configs, memo, answer, count>>

(* The conflict is decided from the start again, with the parser's stack. *)
FullContext ==
  /\ phase = "target" /\ at.D # ERROR /\ NeedsFullContext
  /\ \E start \in {ComputeStartState(dfa.decision, FromRuleContext(request.stack), TRUE, precedence, memo)} :
       configs' = start.set /\ memo' = start.memo
  /\ i' = request.i
  /\ phase' = "full"
  /\ UNCHANGED <<asks, dfa, request, at, answer, count>>

(* execATNWithFullContext, one token *)
FullStep ==
  /\ phase = "full"
  /\ \E reach \in {Reach(configs, t, request.d, TRUE, memo)} :
       LET viable == {Least(alts) : alts \in AltSubsets(reach.set)} IN
       /\ memo' = reach.memo
       /\ CASE reach.set.configs = << >> ->
                 /\ phase' = "answer" /\ answer' = AltThatFinished(configs, precedence)
                 /\ i' = request.i
                 /\ UNCHANGED configs
            [] Cardinality(viable) = 1 ->   (* a unique alternative is one, too *)
                 /\ phase' = "answer" /\ answer' = Least(viable)
                 /\ UNCHANGED <<configs, i>>
            [] Cardinality(viable) > 1 ->
                 /\ configs' = reach.set
                 /\ i' = Onward
                 /\ UNCHANGED <<phase, answer>>
  /\ UNCHANGED <<asks, dfa, request, at, count>>

(* finally: the merge cache is cleared and the input is where it was. *)
Return ==
  /\ phase = "answer"
  /\ phase' = "idle"
  /\ memo' = NoMerges
  /\ i' = request.i
  /\ configs' = None
  /\ at' = [previous |-> ERROR, D |-> ERROR]
  /\ UNCHANGED <<asks, dfa, request, answer, count>>

Finished == phase = "idle" /\ count = MaxCalls /\ UNCHANGED vars

Init ==
  /\ asks \in Requests
  /\ dfa = [decision |-> (CHOOSE r \in asks : TRUE).d,
            s0 |-> << >>, states |-> << >>, edges |-> << >>]
  /\ request = NoRequest
  /\ i = 1
  /\ phase = "idle"
  /\ at = [previous |-> ERROR, D |-> ERROR]
  /\ configs = None
  /\ memo = NoMerges
  /\ answer = INVALID
  /\ count = 0

Next ==
  \/ AdaptivePredict \/ ExistingTargetState \/ ComputeTargetState
  \/ NoTarget \/ Accept \/ GoOn \/ FullContext \/ FullStep \/ Return \/ Finished

Spec == Init /\ [][Next]_vars

-----------------------------------------------------------------------------
(* The ranges of the cache, the prediction and its mergeCache. *)
TypeOK ==
  /\ \A r \in asks : r.d = dfa.decision
  /\ phase \in {"idle", "exec", "target", "full", "answer"}
  /\ \A p \in DOMAIN dfa.s0 : p \in Nat /\ dfa.s0[p] \in DOMAIN dfa.states
  /\ \A e \in DOMAIN dfa.edges : e[1] \in DOMAIN dfa.states /\ dfa.edges[e] \in 0..Len(dfa.states)
  /\ at.previous \in 0..Len(dfa.states) /\ at.D \in 0..Len(dfa.states)
  /\ phase # "idle" => request.i <= i /\ i <= Len(request.w)
  /\ answer \in 0..Len(Atn[dfa.decision].alts)
  /\ count \in 0..MaxCalls

(* Whatever was predicted before, in either mode, for this file or another *)
(* and under whatever calls: the answer is the one computed from nothing,  *)
(* with sets of stacks for graphs.                                         *)
CacheIsTransparent ==
  phase = "answer" =>
    answer = Plain!AdaptivePredict(request.mode, request.d, request.stack, request.w, request.i).alt

(* PredictionMode.h:50-51: in LL mode "the parser will make correct        *)
(* decisions for all syntactically-correct grammar and input combinations" *)
(* where the rest of the file can be parsed, the answer is the first       *)
(* alternative it can be parsed by, under the calls made so far.           *)
Parses(a, r) ==
  \E w \in {SubSeq(r.w, r.i, Len(r.w) - 1), SubSeq(r.w, r.i, Len(r.w))} :
    Language!Accepts(w)[<<<<Atn[r.d].alts[a], r.stack>>, 1>>]

LLDecidesCorrectly ==
  phase = "answer" /\ request.mode = "LL" =>
    With({a \in DOMAIN Atn[request.d].alts : Parses(a, request)}, LAMBDA viable :
      viable # {} => answer = Least(viable))

(* What a set of configurations stands for, one stack each. *)
Denoted(set) ==
  UNION {{[s |-> c.s, alt |-> c.alt, stack |-> stack, out |-> GetOuterContextDepth(c) > 0] :
            stack \in StacksOf(c.ctx)} : c \in ToSet(set.configs)}

(* The edge followed, cached or new, leads to what its token leads to with *)
(* every stack: no merge, no lookup by hash and no sharing of a state that *)
(* is equal loses one or makes one up.  (Where one alternative is left the *)
(* closure is spared, and a loop is not entered under a caller that goes   *)
(* on with the same loop: such callers are not told apart.)                *)
SetOf(k) == IF k = ERROR THEN {} ELSE Denoted(dfa.states[k].set)
ReturnsToLoop(s) == Epsilon(s) /\ PrecedenceDecision(Atn[s].next)
Unwound(C) ==
  {[c EXCEPT !.stack = SelectSeq(@, LAMBDA s : ~ReturnsToLoop(s))] : c \in C}
EdgesAreReaches ==
  phase = "target" =>
    LET plain == Plain!Reach(FALSE, SetOf(at.previous), t)
        cached == SetOf(at.D)
    IN IF Cardinality(Plain!Alts(plain)) = 1 THEN Plain!Alts(cached) = Plain!Alts(plain)
       ELSE Unwound(cached) = Unwound(plain)

(* Contexts are compared by their edges, so the same stacks must be the    *)
(* same edges, sorted, with the empty one last; and no merge meets a null. *)
RECURSIVE WellFormed(_)
WellFormed(ctx) ==
  /\ ctx # NULL
  /\ \A j, k \in DOMAIN ctx : j < k => ctx[j].state < ctx[k].state
  /\ \A e \in ToSet(ctx) : IF e.state = EMPTY_RETURN_STATE THEN e.parent = NULL
                           ELSE WellFormed(e.parent)
AllConfigs == UNION {ToSet(dfa.states[k].set.configs) : k \in DOMAIN dfa.states}
ContextsCanonical ==
  /\ ~memo.failed
  /\ phase = "full" =>
       \A c, e \in ToSet(configs.configs) : StacksOf(c.ctx) = StacksOf(e.ctx) => c.ctx = e.ctx
  /\ phase = "target" /\ at.D # ERROR =>
       \A c \in ToSet(Target.set.configs) :
         /\ WellFormed(c.ctx)
         /\ \A e \in AllConfigs : StacksOf(c.ctx) = StacksOf(e.ctx) => c.ctx = e.ctx
=============================================================================
