------------------------------- MODULE Parser -------------------------------
(***************************************************************************)
(* One file through the parser: BrightScriptParser run on Parser and an    *)
(* error strategy (src/antlr/src), as many times as main.cpp does.         *)
(*                                                                         *)
(* A pass walks the grammar as the generated code does.  bbsl's first pass *)
(* predicts with SLL and bails out of the first syntax error; only then a  *)
(* second one predicts with LL, reports the errors and recovers from them. *)
(*                                                                         *)
(* The parser sees the visible tokens only, through a cursor (TokenStream  *)
(* implements it); lookahead and prediction are parameters, so that what   *)
(* is proved here does not depend on how they are computed.                *)
(***************************************************************************)
EXTENDS Grammar

CONSTANTS
  Inputs,                      (* token sequences, each ended by its one EOF *)
  Plans,                       (* sequences of passes, each tried when the   *)
                               (* one before bails out: handler and mode     *)
  nextTokens(_),               (* ATN::nextTokens(s)                         *)
  nextTokensIn(_, _),          (* ATN::nextTokens(s, ctx)                    *)
  visitDecision(_, _, _, _, _) (* of mode, node, stack, input and token: the *)
                               (* alternative taken, or INVALID, and how far *)
                               (* was looked to tell                         *)

Handlers == {"bail", "default", "terminal"}

ASSUME InputAssumption ==
  \A w \in Inputs : /\ w \in Seq(STRING) /\ w # << >>
                    /\ \A i \in 1..Len(w) : w[i] = EOF <=> i = Len(w)
(* Left recursion is not modelled here: no precedences to keep. *)
ASSUME NoRecursionAssumption ==
  \A s \in Nodes : Token(s) \/ Call(s) \/ Decision(s) \/ Stop(s)
Pass == [handler : Handlers, mode : {"SLL", "LL"}]
ASSUME PlanAssumption ==
  \A plan \in Plans : plan \in Seq(Pass) /\ plan # << >>

(* startRule: ... EOF;  Nothing else asks for EOF and nothing calls it.    *)
Final(s) == Stop(s) /\ Atn[s].rule = StartRule
ASSUME EOFAssumption ==
  /\ Calls(StartRule) = {} /\ ~Stop(Entry[StartRule])
  /\ \A s \in Nodes :
       /\ Token(s) => (Atn[s].token = EOF <=> Final(Atn[s].next))
       /\ Call(s) => ~Final(Atn[s].next)
       /\ Decision(s) => (\A a \in DOMAIN Atn[s].alts : ~Final(Atn[s].alts[a]))

(* All that is assumed of lookahead: what it says where a token is asked   *)
(* for, and at the very end.                                               *)
ASSUME LookAssumption ==
  \A s \in Nodes :
    /\ Token(s) => nextTokens(s) = {Atn[s].token}
    /\ Final(s) => nextTokensIn(s, << >>) = {EOF}

VARIABLES
  input,    (* the file                                                     *)
  cur,      (* the token LT(1)                                              *)
  pc,       (* what runs: start, run, decide, catch, unwind, done, canceled *)
  node,     (* where the generated code is                                  *)
  state,    (* _stateNumber                                                 *)
  ctx,      (* _ctx and its parents, outermost first                        *)
  eh,       (* the error strategy's fields                                  *)
  out,      (* reports made to the listener, leaves added to the tree, and  *)
            (* (history) where recover was called                           *)
  mark,     (* _matchedEOF, the stop token of the context left last, and    *)
            (* the token the exception thrown last is about                 *)
  passes    (* the passes left, the one under way first                     *)

vars == <<input, cur, pc, node, state, ctx, eh, out, mark, passes>>

handler == passes[1].handler
mode == passes[1].mode

-----------------------------------------------------------------------------
(* The token stream *)
At(i) == IF i <= Len(input) THEN i ELSE Len(input)
LA(k) == input[At(cur + k - 1)]
(* Mutant: EOF is consumed like any other token. *)
PastEOF(i) == i + 1

Onward(i) == IF input[i] = EOF THEN i ELSE i + 1

(* Mutant: consumes nothing. *)
NoUntil(i, set) == i

(* Where consumeUntil(set) stops. *)
Until(i, set) ==
  CHOOSE j \in i..Len(input) : /\ input[j] \in set \union {EOF}
                               /\ \A k \in i..(j - 1) : input[k] \notin set \union {EOF}

(* The leaves Parser::consume adds: error nodes while recovering. *)
Leaves(i, j, recovering) == [k \in 1..(j - i) |-> [at |-> i + k - 1, error |-> recovering]]

-----------------------------------------------------------------------------
(* The call stack *)
Depth == Len(ctx)
Follow(j) == Atn[ctx[j].invokingState].next
Stack == [j \in 1..(Depth - 1) |-> Follow(Depth + 1 - j)]

(* Mutant: a caller's follow set is left out unless it may end too. *)
ExpectedTooNear(s) ==
  LET within == nextTokens(s)
      ends(j) == EPSILON \in nextTokens(Follow(j))
      reached(j) == EPSILON \in within /\ \A k \in j..Depth : ends(k)
  IN ((within \union UNION {nextTokens(Follow(j)) : j \in {j \in 2..Depth : reached(j)}})
        \ {EPSILON}) \union (IF reached(2) THEN {EOF} ELSE {})

(* ATN::getExpectedTokens(state, ctx): outward as long as the rule may end *)
Expected(s) ==
  LET within == nextTokens(s)
      ends(j) == EPSILON \in nextTokens(Follow(j))
      reached(j) == EPSILON \in within /\ \A k \in (j + 1)..Depth : ends(k)
  IN ((within \union UNION {nextTokens(Follow(j)) : j \in {j \in 2..Depth : reached(j)}})
        \ {EPSILON}) \union (IF reached(1) THEN {EOF} ELSE {})

(* DefaultErrorStrategy::getErrorRecoverySet *)
RecoverySet == UNION {nextTokens(Follow(j)) : j \in 2..Depth} \ {EPSILON}

-----------------------------------------------------------------------------
(* The error strategy *)
Calm == [recovering |-> FALSE, lastErrorIndex |-> -1, lastErrorStates |-> {}]

(* endErrorCondition: it forgets the index, not the states. *)
Ended(h) == [h EXCEPT !.recovering = FALSE, !.lastErrorIndex = -1]

(* Mutant: errorRecoveryMode is never set. *)
NeverBegun(h) == h

Begun(h) == [h EXCEPT !.recovering = TRUE]

(* reportUnwantedToken and reportMissingToken: bbsl's own overrides neither *)
(* ask whether an error is being recovered from nor say that one is.        *)
Noted(h) == IF handler = "terminal" THEN h ELSE Begun(h)

(* Mutant: reports while recovering instead of otherwise. *)
NotesInverted(h) == h.recovering

Notes(h) == handler = "terminal" \/ ~h.recovering

(* A report is about a token; from (history) is where the parser was.      *)
Report(o, i) == IF handler = "bail" THEN o   (* removeErrorListeners *)
                ELSE [o EXCEPT !.reports = Append(@, [at |-> i, from |-> cur])]
Grown(o, leaves) == [o EXCEPT !.leaves = @ \o leaves]

(* singleTokenDeletion reports and skips one token. *)
CanDelete(s) == LA(2) \in Expected(s)
DeletedOut(h) == Grown(IF Notes(h) THEN Report(out, cur) ELSE out,
                       Leaves(cur, cur + 1, Noted(h).recovering))

-----------------------------------------------------------------------------
(* Mutant: the state of the rule left stays. *)
ExitKeepingState ==
  /\ state' = state
  /\ ctx' = SubSeq(ctx, 1, Depth - 1)

(* exitRule: back in the caller, after the call. *)
Exit ==
  /\ state' = ctx[Depth].invokingState
  /\ ctx' = SubSeq(ctx, 1, Depth - 1)

(* Mutant: the stop token is LT(-1) even when EOF was matched. *)
StopBeforeEOF(i, matched) == i - 1

StopToken(i, matched) == IF matched THEN i ELSE i - 1   (* LT(1) or LT(-1) *)

Leave ==
  /\ Exit
  /\ IF Depth = 1 THEN pc' = "done" /\ UNCHANGED node
                  ELSE pc' = "run" /\ node' = Follow(Depth)

(* startRule(): the invoking state is whatever the last pass left behind. *)
Begin ==
  /\ pc = "start"
  /\ ctx' = <<[rule |-> StartRule, invokingState |-> state]>>
  /\ state' = Entry[StartRule]
  /\ node' = Entry[StartRule]
  /\ pc' = "run"
  /\ UNCHANGED <<input, cur, eh, out, mark, passes>>

Enter ==
  /\ pc = "run" /\ Call(node)
  /\ ctx' = Append(ctx, [rule |-> Atn[node].callee, invokingState |-> node])
  /\ state' = Entry[Atn[node].callee]
  /\ node' = Entry[Atn[node].callee]
  /\ UNCHANGED <<input, cur, pc, eh, out, mark, passes>>

Return ==
  /\ pc = "run" /\ Stop(node)
  /\ Leave
  /\ mark' = [mark EXCEPT !.stop = StopToken(cur, mark.matchedEOF)]
  /\ UNCHANGED <<input, cur, eh, out, passes>>

(* getOffendingToken of the exception being thrown *)
About(i) == [mark EXCEPT !.offending = i]

-----------------------------------------------------------------------------
(* match(t) *)
AtToken == pc = "run" /\ Token(node) /\ state' = node
Matches == LA(1) = Atn[node].token
Next1 == node' = Atn[node].next /\ UNCHANGED <<input, pc, ctx, passes>>

Match ==
  /\ AtToken /\ Matches
  /\ eh' = Ended(eh)
  /\ cur' = Onward(cur)
  /\ out' = Grown(out, Leaves(cur, cur + 1, FALSE))
  /\ mark' = [mark EXCEPT !.matchedEOF = @ \/ LA(1) = EOF]
  /\ Next1

(* recoverInline: drop the token before the wanted one, *)
Delete ==
  /\ AtToken /\ ~Matches /\ handler # "bail"
  /\ CanDelete(node)
  /\ eh' = Ended(Noted(eh))
  /\ cur' = Onward(Onward(cur))
  /\ out' = Grown(DeletedOut(eh), Leaves(Onward(cur), Onward(cur) + 1, FALSE))
  /\ UNCHANGED mark
  /\ Next1

(* or make up the wanted one, *)
Missing == [at |-> 0, error |-> TRUE]
Insert ==
  /\ AtToken /\ ~Matches /\ handler # "bail"
  /\ ~CanDelete(node)
  /\ LA(1) \in nextTokensIn(Atn[node].next, Stack)
  /\ eh' = Noted(eh)
  /\ out' = Grown(IF Notes(eh) THEN Report(out, cur) ELSE out, <<Missing>>)
  /\ UNCHANGED <<cur, mark>>
  /\ Next1

(* or throw: InputMismatchException, or ParseCancellation when bailing out *)
Mismatch ==
  /\ AtToken /\ ~Matches
  /\ \/ handler = "bail" /\ pc' = "unwind"
     \/ /\ handler # "bail" /\ pc' = "catch"
        /\ ~CanDelete(node) /\ LA(1) \notin nextTokensIn(Atn[node].next, Stack)
  /\ mark' = About(cur)
  /\ UNCHANGED <<input, cur, node, ctx, eh, out, passes>>

-----------------------------------------------------------------------------
(* sync(), before each decision *)
AtDecision == pc = "run" /\ Decision(node) /\ state' = node
InSync ==
  \/ handler = "bail"
  \/ eh.recovering
  \/ nextTokens(node) \intersect {EPSILON, LA(1)} # {}
LoopBack == Atn[node].type = "STAR_LOOP_BACK"

Sync ==
  /\ AtDecision /\ InSync
  /\ pc' = "decide"
  /\ UNCHANGED <<input, cur, node, ctx, eh, out, mark, passes>>

SyncDelete ==
  /\ AtDecision /\ ~InSync /\ ~LoopBack
  /\ CanDelete(node)
  /\ pc' = "decide"
  /\ eh' = Ended(Noted(eh))
  /\ cur' = Onward(cur)
  /\ out' = DeletedOut(eh)
  /\ UNCHANGED <<input, node, ctx, mark, passes>>

SyncThrow ==
  /\ AtDecision /\ ~InSync /\ ~LoopBack
  /\ ~CanDelete(node)
  /\ pc' = "catch"
  /\ mark' = About(cur)
  /\ UNCHANGED <<input, cur, node, ctx, eh, out, passes>>

(* Between two iterations: skip to something the loop or a caller can use. *)
SyncSkip ==
  /\ AtDecision /\ ~InSync /\ LoopBack
  /\ pc' = "decide"
  /\ eh' = Noted(eh)
  /\ cur' = Until(cur, Expected(node) \union RecoverySet)
  /\ out' = Grown(Report(out, cur), Leaves(cur, cur', Noted(eh).recovering))
  /\ UNCHANGED <<input, node, ctx, mark, passes>>

Choice == visitDecision(mode, node, Stack, input, cur)

Take ==
  /\ pc = "decide"
  /\ LET alt == Choice.alt IN alt \in DOMAIN Atn[node].alts /\ node' = Atn[node].alts[alt]
  /\ pc' = "run"
  /\ UNCHANGED <<input, cur, state, ctx, eh, out, mark, passes>>

(* The exception is about the token the prediction failed at, LT(1) before *)
(* the stream is set back to where the decision is.                        *)
NoViableAlt ==
  /\ pc = "decide"
  /\ LET choice == Choice IN
     /\ choice.alt = INVALID /\ choice.at \in cur..Len(input)
     /\ mark' = About(choice.at)
  /\ pc' = "catch"
  /\ UNCHANGED <<input, cur, node, state, ctx, eh, out, passes>>

-----------------------------------------------------------------------------
(* Mutant: no failsafe. *)
NeverStuck == FALSE

(* catch (RecognitionException): reportError about the offending token,    *)
(* recover from where the parser is, and leave the rule.                   *)
Stuck == eh.lastErrorIndex = cur /\ state \in eh.lastErrorStates

Recover ==
  LET from == IF Stuck THEN Onward(cur) ELSE cur
      upto == Until(from, RecoverySet)
      failsafe == IF Stuck THEN Leaves(cur, cur + 1, TRUE) ELSE << >>
  IN
  /\ pc = "catch" /\ handler # "bail"
  /\ cur' = upto
  /\ eh' = [recovering |-> TRUE, lastErrorIndex |-> from,
            lastErrorStates |-> eh.lastErrorStates \union {state}]
  /\ out' = [Grown(IF eh.recovering THEN out ELSE Report(out, mark.offending),
                   failsafe \o Leaves(from, upto, TRUE))
                EXCEPT !.errors = @ \union {<<from, state>>}]
  /\ Leave
  /\ mark' = [mark EXCEPT !.stop = StopToken(upto, mark.matchedEOF)]
  /\ UNCHANGED <<input, passes>>

(* BailErrorStrategy::recover throws ParseCancellationException instead. *)
Bail ==
  /\ pc = "catch" /\ handler = "bail"
  /\ eh' = Begun(eh)
  /\ pc' = "unwind"
  /\ UNCHANGED <<input, cur, node, state, ctx, out, mark, passes>>

(* Nobody but main catches that; each rule left on the way runs exitRule. *)
Unwind ==
  /\ pc = "unwind" /\ Depth > 0
  /\ Exit
  /\ mark' = [mark EXCEPT !.stop = StopToken(cur, mark.matchedEOF)]
  /\ UNCHANGED <<input, cur, pc, node, eh, out, passes>>

Fresh == [matchedEOF |-> FALSE, stop |-> 0, offending |-> 0]
Blank == [reports |-> << >>, leaves |-> << >>, errors |-> {}]

(* Mutant: the second pass goes on where the first gave up. *)
AgainWithoutReset ==
  /\ pc = "unwind" /\ Depth = 0 /\ Len(passes) > 1
  /\ passes' = Tail(passes)
  /\ eh' = Calm
  /\ mark' = Fresh
  /\ out' = [out EXCEPT !.leaves = << >>]
  /\ pc' = "start"
  /\ UNCHANGED <<input, cur, node, state, ctx>>

(* parseFiles: tokens.reset, parser.reset, a new handler, and once more *)
Again ==
  /\ pc = "unwind" /\ Depth = 0 /\ Len(passes) > 1
  /\ passes' = Tail(passes)
  /\ cur' = 1
  /\ eh' = Calm
  /\ mark' = Fresh
  /\ out' = [out EXCEPT !.leaves = << >>]
  /\ pc' = "start"
  /\ UNCHANGED <<input, node, state, ctx>>

Cancel ==
  /\ pc = "unwind" /\ Depth = 0 /\ Len(passes) = 1
  /\ pc' = "canceled"
  /\ UNCHANGED <<input, cur, node, state, ctx, eh, out, mark, passes>>

-----------------------------------------------------------------------------
Init ==
  /\ input \in Inputs
  /\ cur = 1
  /\ pc = "start"
  /\ node = Entry[StartRule]
  /\ state = INVALID
  /\ ctx = << >>
  /\ eh = Calm
  /\ out = Blank
  /\ mark = Fresh
  /\ passes \in Plans

Finished == pc \in {"done", "canceled"} /\ UNCHANGED vars   (* main goes on *)

Next ==
  \/ Begin \/ Enter \/ Return
  \/ Match \/ Delete \/ Insert \/ Mismatch
  \/ Sync \/ SyncDelete \/ SyncThrow \/ SyncSkip
  \/ Take \/ NoViableAlt
  \/ Recover \/ Bail \/ Unwind \/ Again \/ Cancel
  \/ Finished

(* The parser is one thread that runs while it can: WF_vars(Next), spelled *)
(* out with what Next being disabled comes to.                             *)
Over == pc \in {"done", "canceled"}
Fairness == []<>Over \/ []<><<Next>>_vars

Spec == Init /\ [][Next]_vars /\ Fairness

-----------------------------------------------------------------------------
Frame == [rule : Rules, invokingState : Nodes \union {INVALID}]
Leaf == [at : Nat, error : BOOLEAN]
Complaint == [at : Nat, from : Nat]

(* The ranges of the parser's and the strategy's fields. *)
TypeOK ==
  /\ input \in Inputs
  /\ cur \in 1..Len(input)
  /\ pc \in {"start", "run", "decide", "catch", "unwind", "done", "canceled"}
  /\ node \in Nodes
  /\ state \in Nodes \union {INVALID}
  /\ ctx \in Seq(Frame)
  /\ eh \in [recovering : BOOLEAN, lastErrorIndex : Nat \union {-1},
              lastErrorStates : SUBSET Nodes]
  /\ out \in [reports : Seq(Complaint), leaves : Seq(Leaf), errors : SUBSET (Nat \X Nodes)]
  /\ mark \in [matchedEOF : BOOLEAN, stop : Nat, offending : Nat]
  /\ passes \in Seq(Pass) /\ passes # << >>

(* Every invoking state up the stack is a call to the rule of its context, *)
(* out of the rule below, and only the outermost is invalid, in each pass: *)
(* getErrorRecoverySet and getExpectedTokens follow them without a check.  *)
StackFollowsAtn ==
  /\ pc \notin {"start", "done", "canceled"} /\ pc # "unwind" =>
       Depth > 0 /\ Atn[node].rule = ctx[Depth].rule
  /\ Depth > 0 => ctx[1] = [rule |-> StartRule, invokingState |-> INVALID]
  /\ \A j \in 2..Depth :
       /\ ctx[j].invokingState \in Calls(ctx[j].rule)
       /\ Atn[ctx[j].invokingState].rule = ctx[j - 1].rule

(* Inside a rule the state is one of the ATN and there is a context; with  *)
(* the last context gone the state is back to the invalid one it was.      *)
StateFollowsStack ==
  /\ pc \in {"run", "decide", "catch"} => Depth > 0 /\ state \in Nodes
  /\ pc \in {"start", "done", "canceled"} => Depth = 0
  /\ pc = "decide" => Decision(node)
  /\ Depth = 0 => state = INVALID

(* The three together are inductive, whatever lookahead and prediction say. *)
IInv == TypeOK /\ StackFollowsAtn /\ StateFollowsStack

(* Each token the cursor has passed is one leaf of the tree, in order, be  *)
(* it matched, deleted, skipped or consumed by the failsafe, and nothing   *)
(* of a pass given up is left in the tree of the next.  (EOF is consumed   *)
(* without moving on, and a token made up stands nowhere in the file.)     *)
Keeps(leaves, i) ==
  LET read == {k \in DOMAIN leaves : leaves[k].at # 0 /\ input[leaves[k].at] # EOF}
  IN /\ {leaves[k].at : k \in read} = 1..(i - 1)
     /\ \A k, l \in read : k < l => leaves[k].at < leaves[l].at

TreeKeepsTokens == Keeps(out.leaves, cur)

(* A parse that returns has read the file to its end, however broken. *)
WholeFileRead == pc = "done" => input[cur] = EOF

(* A clean parse ends its tree at EOF, the last leaf. *)
CleanTreeSpansFile ==
  pc = "done" /\ out.reports = << >> =>
    /\ mark.stop = Len(input)
    /\ Len(out.leaves) = Len(input)
    /\ \A i \in 1..Len(input) : out.leaves[i] = [at |-> i, error |-> FALSE]

(* DefaultErrorStrategy.cpp:57-58: "If we've already reported an error and *)
(* have not matched a token yet successfully, don't report any errors."    *)
(* So the parser never stands where it stood at the report before,         *)
ReportsMoveOn ==
  \A i, j \in 1..Len(out.reports) : i < j => out.reports[i].from < out.reports[j].from

(* which DefaultErrorStrategy itself keeps; and a report is never about a  *)
(* token already passed.  It may be about one ahead, where a prediction    *)
(* failed: two reports of one token, with matches between, are possible.   *)
DefaultReportsMoveOn ==
  handler = "default" =>
    /\ ReportsMoveOn
    /\ \A k \in 1..Len(out.reports) : out.reports[k].from <= out.reports[k].at

(* DefaultErrorStrategy.cpp:79-82: a token is dropped in recover because   *)
(* of "another error at same token index and previously-visited state in   *)
(* ATN; must be a case where LT(1) is in the recovery token set so nothing *)
(* got consumed".  That is, this state failed at this very token before.   *)
FailsafeOnlyWhenStuck ==
  pc = "catch" /\ Stuck => <<cur, state>> \in out.errors

(* Error recovery always comes to an end. *)
Terminates == <>Over
=============================================================================
