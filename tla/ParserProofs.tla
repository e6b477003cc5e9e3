---------------------------- MODULE ParserProofs ----------------------------
(***************************************************************************)
(* Proofs about Parser, for every grammar, every file, every sequence of   *)
(* passes and whatever lookahead and prediction answer.  The argument: the *)
(* state number is always that of the node the parser is at or was called  *)
(* from, so what enterRule stores and exitRule restores is a call to the   *)
(* rule of the context, out of the rule below; unwinding restores all of   *)
(* them, so a second pass begins like the first.  The tree keeps the file  *)
(* because all consumption goes through leaves for a stretch of it.        *)
(***************************************************************************)
EXTENDS Parser, SequenceTheorems, WellFoundedInduction, TLAPS

Strategy == [recovering : BOOLEAN, lastErrorIndex : Nat \union {-1},
             lastErrorStates : SUBSET Nodes]
Output == [reports : Seq(Complaint), leaves : Seq(Leaf), errors : SUBSET (Nat \X Nodes)]
Marks == [matchedEOF : BOOLEAN, stop : Nat, offending : Nat]
Places == {"start", "run", "decide", "catch", "unwind", "done", "canceled"}

-----------------------------------------------------------------------------
(* A non-empty set of naturals has a least element. *)
LEMMA LeastIndex ==
  ASSUME NEW S \in SUBSET Nat, S # {}
  PROVE  \E j \in S : \A m \in S : j <= m
<1>1. PICK j \in S : \A m \in S : ~(<<m, j>> \in OpToRel(<, Nat))
  BY WFMin, NatLessThanWellFounded, Zenon
<1>2. \A m \in S : ~(m < j)
  BY <1>1 DEF OpToRel
<1> QED BY <1>2

(* A file is a non-empty sequence whose only EOF is its last token. *)
LEMMA InputFacts ==
  ASSUME TypeOK
  PROVE  /\ input \in Seq(STRING)
         /\ Len(input) \in Nat \ {0}
         /\ \A i \in 1..Len(input) : input[i] = EOF <=> i = Len(input)
         /\ cur \in 1..Len(input)
BY InputAssumption DEF TypeOK

(* The shape of the grammar, one fact for each kind of node. *)
LEMMA NodeFacts ==
  ASSUME NEW s \in Nodes
  PROVE  /\ s \in Nat /\ s # INVALID
         /\ Atn[s].rule \in Rules
         /\ Token(s) \/ Call(s) =>
              Atn[s].next \in Nodes /\ Atn[Atn[s].next].rule = Atn[s].rule
         /\ Call(s) => /\ Atn[s].callee \in Rules
                       /\ Entry[Atn[s].callee] \in Nodes
                       /\ Atn[Entry[Atn[s].callee]].rule = Atn[s].callee
         /\ Decision(s) => \A a \in DOMAIN Atn[s].alts :
              Atn[s].alts[a] \in Nodes /\ Atn[Atn[s].alts[a]].rule = Atn[s].rule
BY GrammarAssumption

(* consume and consumeUntil stay inside the file. *)
LEMMA OnwardInFile ==
  ASSUME TypeOK, NEW i \in 1..Len(input)
  PROVE  Onward(i) \in 1..Len(input) /\ i <= Onward(i)
BY InputFacts DEF Onward

LEMMA UntilInFile ==
  ASSUME TypeOK, NEW i \in 1..Len(input), NEW set
  PROVE  Until(i, set) \in i..Len(input)
<1> DEFINE good == {j \in i..Len(input) : input[j] \in set \union {EOF}}
<1>1. Len(input) \in good
  BY InputFacts
<1>2. good \in SUBSET Nat
  BY InputFacts
<1>3. PICK j \in good : \A m \in good : j <= m
  BY <1>1, <1>2, LeastIndex
<1>4. \A k \in i..(j - 1) : input[k] \notin set \union {EOF}
  <2> TAKE k \in i..(j - 1)
  <2>1. k < j /\ k \in i..Len(input)
    BY <1>3, InputFacts
  <2> QED BY <2>1, <1>2, <1>3
<1>5. j \in i..Len(input) /\ input[j] \in set \union {EOF}
  BY <1>3
<1> QED BY <1>4, <1>5 DEF Until

-----------------------------------------------------------------------------
(* Reports and leaves. *)
LEMMA LeavesType ==
  ASSUME NEW i \in Nat, NEW j \in Nat, i <= j, NEW r \in BOOLEAN
  PROVE  Leaves(i, j, r) \in Seq(Leaf)
<1>1. \A k \in 1..(j - i) : [at |-> i + k - 1, error |-> r] \in Leaf
  BY DEF Leaf
<1>2. j - i \in Nat
  OBVIOUS
<1> QED BY <1>1, <1>2 DEF Leaves

LEMMA OneLeafType ==
  ASSUME NEW i \in Nat
  PROVE  /\ Leaves(i, i + 1, FALSE) \in Seq(Leaf)
         /\ Leaves(i, i + 1, TRUE) \in Seq(Leaf)
<1>1. i + 1 \in Nat /\ i <= i + 1 /\ FALSE \in BOOLEAN /\ TRUE \in BOOLEAN
  OBVIOUS
<1>2. \A r \in BOOLEAN : Leaves(i, i + 1, r) \in Seq(Leaf)
  BY <1>1, LeavesType
<1> QED BY <1>1, <1>2

LEMMA GrownType ==
  ASSUME NEW o \in Output, NEW l \in Seq(Leaf)
  PROVE  Grown(o, l) \in Output
<1>1. o.leaves \o l \in Seq(Leaf)
  BY DEF Output
<1> QED BY <1>1 DEF Grown, Output

LEMMA ReportType ==
  ASSUME TypeOK, NEW o \in Output, NEW i \in Nat
  PROVE  Report(o, i) \in Output
<1>1. [at |-> i, from |-> cur] \in Complaint
  BY InputFacts DEF Complaint
<1>2. Append(o.reports, [at |-> i, from |-> cur]) \in Seq(Complaint)
  BY <1>1 DEF Output
<1> QED BY <1>2 DEF Report, Output

LEMMA StrategyType ==
  ASSUME NEW h \in Strategy
  PROVE  /\ Ended(h) \in Strategy /\ Begun(h) \in Strategy /\ Noted(h) \in Strategy
         /\ Noted(h).recovering \in BOOLEAN
BY DEF Ended, Begun, Noted, Strategy

LEMMA MarkType ==
  ASSUME NEW m \in Marks, NEW i \in Nat \ {0}
  PROVE  [m EXCEPT !.stop = StopToken(i, m.matchedEOF)] \in Marks
BY DEF Marks, StopToken

(* The exception thrown is about a token of the file. *)
LEMMA AboutType ==
  ASSUME TypeOK, NEW i \in Nat
  PROVE  About(i) \in Marks
BY DEF TypeOK, Marks, About

(* What deleting one token leaves in the tree. *)
LEMMA DeletedOutType ==
  ASSUME TypeOK
  PROVE  DeletedOut(eh) \in Output
<1>1. cur \in Nat /\ cur + 1 \in Nat /\ cur <= cur + 1
  BY InputFacts
<1>2. out \in Output /\ eh \in Strategy
  BY DEF TypeOK, Output, Strategy
<1>3. Leaves(cur, cur + 1, Noted(eh).recovering) \in Seq(Leaf)
  BY <1>1, <1>2, StrategyType, LeavesType
<1>4. (IF Notes(eh) THEN Report(out, cur) ELSE out) \in Output
  BY <1>1, <1>2, ReportType
<1> QED BY <1>3, <1>4, GrownType DEF DeletedOut

-----------------------------------------------------------------------------
(* The call stack. *)
LEMMA ContextFacts ==
  ASSUME TypeOK
  PROVE  /\ Depth \in Nat
         /\ \A j \in 1..Depth : ctx[j] \in Frame
BY DEF TypeOK, Depth

(* exitRule pops one context and leaves the rest; the state is the call    *)
(* that led into the rule, and none after the outermost.                   *)
LEMMA ExitFacts ==
  ASSUME IInv, Depth > 0, Exit
  PROVE  /\ ctx' \in Seq(Frame)
         /\ Depth' = Depth - 1
         /\ \A j \in 1..(Depth - 1) : ctx'[j] = ctx[j]
         /\ state' \in Nodes \union {INVALID}
         /\ Depth = 1 => state' = INVALID
         /\ Depth > 1 => /\ state' \in Nodes
                         /\ Follow(Depth) \in Nodes
                         /\ Atn[Follow(Depth)].rule = ctx[Depth - 1].rule
<1> USE DEF IInv
<1>1. ctx \in Seq(Frame) /\ Depth \in Nat /\ Depth = Len(ctx)
  BY DEF TypeOK, Depth
<1>2. ctx' = SubSeq(ctx, 1, Depth - 1) /\ state' = ctx[Depth].invokingState
  BY DEF Exit
<1>3. /\ ctx' \in Seq(Frame) /\ Len(ctx') = Depth - 1
      /\ \A j \in 1..(Depth - 1) : ctx'[j] = ctx[j]
  BY <1>1, <1>2
<1>4. state' \in Nodes \union {INVALID}
  <2>1. Depth \in 1..Depth /\ ctx[Depth] \in Frame
    BY <1>1
  <2> QED BY <2>1, <1>2 DEF Frame
<1>5. ASSUME Depth = 1 PROVE state' = INVALID
  BY <1>2, <1>5 DEF StackFollowsAtn
<1>6. ASSUME Depth > 1
      PROVE  /\ state' \in Nodes
             /\ Follow(Depth) \in Nodes
             /\ Atn[Follow(Depth)].rule = ctx[Depth - 1].rule
  <2>1. Depth \in 2..Depth
    BY <1>1, <1>6
  <2>2. /\ ctx[Depth].invokingState \in Calls(ctx[Depth].rule)
        /\ Atn[ctx[Depth].invokingState].rule = ctx[Depth - 1].rule
    BY <2>1 DEF StackFollowsAtn
  <2>3. ctx[Depth].rule \in Rules
    <3>1. ctx[Depth] \in Frame
      BY <1>1, <2>1
    <3> QED BY <3>1 DEF Frame
  <2>4. Calls(ctx[Depth].rule) = {s \in Nodes : Call(s) /\ Atn[s].callee = ctx[Depth].rule}
    BY <2>3 DEF Calls, callsOf
  <2>5. state' \in Nodes /\ Call(state')
    BY <1>2, <2>2, <2>4
  <2> QED BY <1>2, <2>2, <2>5, NodeFacts DEF Follow
<1> QED BY <1>1, <1>3, <1>4, <1>5, <1>6 DEF Depth

(* What the actions that leave the contexts alone have to show. *)
LEMMA SameStack ==
  ASSUME IInv, UNCHANGED ctx, Depth > 0,
         pc' \in {"run", "decide", "catch", "unwind"},
         pc' # "unwind" => /\ node' \in Nodes /\ Atn[node'].rule = ctx[Depth].rule
                           /\ state' \in Nodes,
         pc' = "decide" => Decision(node')
  PROVE  StackFollowsAtn' /\ StateFollowsStack'
<1> USE DEF IInv
<1>1. Depth' = Depth
  BY DEF Depth
<1>2. StackFollowsAtn'
  BY <1>1 DEF StackFollowsAtn
<1>3. StateFollowsStack'
  BY <1>1, ContextFacts DEF StateFollowsStack
<1> QED BY <1>2, <1>3

(* Where the parser is when it runs, decides or catches. *)
LEMMA InRule ==
  ASSUME IInv, pc \in {"run", "decide", "catch"}
  PROVE  /\ node \in Nodes /\ state \in Nodes
         /\ Depth \in Nat /\ Depth > 0
         /\ ctx[Depth] \in Frame
         /\ Atn[node].rule = ctx[Depth].rule
<1>1. Depth > 0 /\ state \in Nodes
  BY DEF IInv, StateFollowsStack
<1>2. node \in Nodes
  BY DEF IInv, TypeOK
<1>3. Atn[node].rule = ctx[Depth].rule
  BY DEF IInv, StackFollowsAtn
<1> QED BY <1>1, <1>2, <1>3, ContextFacts DEF IInv

-----------------------------------------------------------------------------
(* One lemma for each action. *)
LEMMA InitInv == Init => IInv
<1> SUFFICES ASSUME Init PROVE IInv
  OBVIOUS
<1>1. input \in Inputs /\ 1 \in 1..Len(input)
  BY InputAssumption DEF Init
<1>2. Entry[StartRule] \in Nodes
  BY GrammarAssumption
<1>3. passes \in Seq(Pass) /\ passes # << >>
  BY PlanAssumption DEF Init
<1>4. TypeOK
  BY <1>1, <1>2, <1>3 DEF Init, TypeOK, Calm, Blank, Fresh
<1>5. Depth = 0
  BY DEF Init, Depth
<1> QED BY <1>4, <1>5 DEF Init, IInv, StackFollowsAtn, StateFollowsStack

LEMMA BeginStep ==
  ASSUME IInv, Begin
  PROVE  IInv'
<1> USE DEF IInv
<1>1. Depth = 0 /\ state = INVALID
  BY DEF Begin, StateFollowsStack
<1>2. Entry[StartRule] \in Nodes /\ Atn[Entry[StartRule]].rule = StartRule
  BY GrammarAssumption
<1>3. /\ ctx' = <<[rule |-> StartRule, invokingState |-> INVALID]>>
      /\ state' = Entry[StartRule] /\ node' = Entry[StartRule] /\ pc' = "run"
      /\ UNCHANGED <<input, cur, eh, out, mark, passes>>
  BY <1>1 DEF Begin
<1>4. [rule |-> StartRule, invokingState |-> INVALID] \in Frame
  BY GrammarAssumption DEF Frame
<1>5. TypeOK'
  BY <1>2, <1>3, <1>4 DEF TypeOK
<1>6. Depth' = 1 /\ ctx'[1] = [rule |-> StartRule, invokingState |-> INVALID]
  BY <1>3 DEF Depth
<1>7. StackFollowsAtn'
  BY <1>2, <1>3, <1>6 DEF StackFollowsAtn
<1>8. StateFollowsStack'
  BY <1>2, <1>3, <1>6 DEF StateFollowsStack
<1> QED BY <1>5, <1>7, <1>8

LEMMA EnterStep ==
  ASSUME IInv, Enter
  PROVE  IInv'
<1> DEFINE callee == Atn[node].callee
           frame == [rule |-> callee, invokingState |-> node]
<1>1. pc = "run" /\ Call(node)
  BY DEF Enter
<1>2. /\ node \in Nodes /\ Depth \in Nat /\ Depth > 0
      /\ Atn[node].rule = ctx[Depth].rule
  BY <1>1, InRule
<1>3. callee \in Rules /\ Entry[callee] \in Nodes /\ Atn[Entry[callee]].rule = callee
  BY <1>1, <1>2, NodeFacts
<1>4. frame \in Frame
  BY <1>2, <1>3 DEF Frame
<1>5. /\ ctx' = Append(ctx, frame)
      /\ state' = Entry[callee] /\ node' = Entry[callee] /\ pc' = "run"
      /\ UNCHANGED <<input, cur, eh, out, mark, passes>>
  BY DEF Enter
<1>6. TypeOK'
  BY <1>3, <1>4, <1>5 DEF IInv, TypeOK
<1>7. /\ Depth' = Depth + 1 /\ ctx'[Depth + 1] = frame
      /\ \A j \in 1..Depth : ctx'[j] = ctx[j]
  BY <1>4, <1>5 DEF IInv, TypeOK, Depth
<1>8. StackFollowsAtn'
  <2>1. Atn[node'].rule = ctx'[Depth'].rule
    <3>1. ctx'[Depth'] = frame
      BY <1>7
    <3>2. Atn[node'].rule = callee
      BY <1>3, <1>5
    <3> QED BY <3>1, <3>2
  <2>2. ctx'[1] = [rule |-> StartRule, invokingState |-> INVALID]
    BY <1>2, <1>7 DEF IInv, StackFollowsAtn
  <2>3. ASSUME NEW j \in 2..Depth'
        PROVE  /\ ctx'[j].invokingState \in Calls(ctx'[j].rule)
               /\ Atn[ctx'[j].invokingState].rule = ctx'[j - 1].rule
    <3>1. CASE j \in 2..Depth
      <4>1. ctx'[j] = ctx[j] /\ ctx'[j - 1] = ctx[j - 1]
        BY <3>1, <1>2, <1>7
      <4> QED BY <3>1, <4>1 DEF IInv, StackFollowsAtn
    <3>2. CASE j = Depth + 1
      <4>1. ctx'[j] = frame /\ ctx'[j - 1] = ctx[Depth]
        BY <3>2, <1>2, <1>7
      <4>2. node \in Calls(callee)
        BY <1>1, <1>2, NodeFacts DEF Calls, callsOf
      <4> QED BY <4>1, <4>2, <1>2
    <3> QED BY <3>1, <3>2, <1>2, <1>7
  <2> QED BY <1>2, <1>7, <2>1, <2>2, <2>3 DEF StackFollowsAtn
<1>9. StateFollowsStack'
  BY <1>2, <1>3, <1>5, <1>7 DEF StateFollowsStack
<1> QED BY <1>6, <1>8, <1>9 DEF IInv

(* match and recoverInline go on to the next node of the same rule. *)
LEMMA NextNode ==
  ASSUME IInv, AtToken, Next1
  PROVE  /\ node' \in Nodes /\ state' \in Nodes /\ pc' = "run"
         /\ StackFollowsAtn' /\ StateFollowsStack'
<1>1. /\ pc = "run" /\ Token(node) /\ state' = node
      /\ node' = Atn[node].next /\ pc' = "run" /\ ctx' = ctx
  BY DEF AtToken, Next1
<1>2. /\ node \in Nodes /\ Depth > 0 /\ Atn[node].rule = ctx[Depth].rule
  BY <1>1, InRule
<1>3. node' \in Nodes /\ Atn[node'].rule = Atn[node].rule
  BY <1>1, <1>2, NodeFacts
<1>4. StackFollowsAtn' /\ StateFollowsStack'
  BY <1>1, <1>2, <1>3, SameStack
<1> QED BY <1>1, <1>2, <1>3, <1>4

LEMMA MatchStep ==
  ASSUME IInv, Match
  PROVE  IInv'
<1>1. AtToken /\ Next1
  BY DEF Match
<1>2. /\ node' \in Nodes /\ state' \in Nodes /\ pc' = "run"
      /\ StackFollowsAtn' /\ StateFollowsStack'
  BY <1>1, NextNode
<1>3. UNCHANGED <<input, ctx, passes>>
  BY <1>1 DEF Next1
<1>4. /\ TypeOK /\ cur \in 1..Len(input) /\ cur \in Nat
      /\ eh \in Strategy /\ out \in Output /\ mark \in Marks
  BY InputFacts DEF IInv, TypeOK, Strategy, Output, Marks
<1>5. cur' \in 1..Len(input)
  BY <1>4, OnwardInFile DEF Match
<1>6. eh' \in Strategy
  BY <1>4, StrategyType DEF Match
<1>7. out' \in Output
  <2>1. Leaves(cur, cur + 1, FALSE) \in Seq(Leaf)
    BY <1>4, OneLeafType
  <2> QED BY <2>1, <1>4, GrownType DEF Match
<1>8. mark' \in Marks
  BY <1>4 DEF Match, Marks
<1>9. TypeOK'
  BY <1>2, <1>3, <1>4, <1>5, <1>6, <1>7, <1>8 DEF TypeOK, Strategy, Output, Marks
<1> QED BY <1>2, <1>9 DEF IInv

LEMMA DeleteStep ==
  ASSUME IInv, Delete
  PROVE  IInv'
<1>1. AtToken /\ Next1
  BY DEF Delete
<1>2. /\ node' \in Nodes /\ state' \in Nodes /\ pc' = "run"
      /\ StackFollowsAtn' /\ StateFollowsStack'
  BY <1>1, NextNode
<1>3. UNCHANGED <<input, ctx, passes, mark>>
  BY <1>1 DEF Next1, Delete
<1>4. /\ TypeOK /\ cur \in 1..Len(input) /\ eh \in Strategy
  BY InputFacts DEF IInv, TypeOK, Strategy
<1>5. /\ Onward(cur) \in 1..Len(input) /\ Onward(cur) \in Nat
  BY <1>4, OnwardInFile, InputFacts
<1>6. cur' \in 1..Len(input)
  BY <1>4, <1>5, OnwardInFile DEF Delete
<1>7. eh' \in Strategy
  BY <1>4, StrategyType DEF Delete
<1>8. out' \in Output
  <2>1. Leaves(Onward(cur), Onward(cur) + 1, FALSE) \in Seq(Leaf)
    BY <1>5, OneLeafType
  <2>2. DeletedOut(eh) \in Output
    BY <1>4, DeletedOutType
  <2> QED BY <2>1, <2>2, GrownType DEF Delete
<1>9. TypeOK'
  BY <1>2, <1>3, <1>4, <1>6, <1>7, <1>8 DEF TypeOK, Strategy, Output
<1> QED BY <1>2, <1>9 DEF IInv

LEMMA InsertStep ==
  ASSUME IInv, Insert
  PROVE  IInv'
<1>1. AtToken /\ Next1
  BY DEF Insert
<1>2. /\ node' \in Nodes /\ state' \in Nodes /\ pc' = "run"
      /\ StackFollowsAtn' /\ StateFollowsStack'
  BY <1>1, NextNode
<1>3. UNCHANGED <<input, ctx, passes, cur, mark>>
  BY <1>1 DEF Next1, Insert
<1>4. /\ TypeOK /\ cur \in Nat /\ eh \in Strategy /\ out \in Output
  BY InputFacts DEF IInv, TypeOK, Strategy, Output
<1>5. eh' \in Strategy
  BY <1>4, StrategyType DEF Insert
<1>6. out' \in Output
  <2>1. <<Missing>> \in Seq(Leaf)
    BY DEF Missing, Leaf
  <2>2. (IF Notes(eh) THEN Report(out, cur) ELSE out) \in Output
    BY <1>4, ReportType
  <2> QED BY <2>1, <2>2, GrownType DEF Insert
<1>7. TypeOK'
  BY <1>2, <1>3, <1>4, <1>5, <1>6 DEF TypeOK, Strategy, Output
<1> QED BY <1>2, <1>7 DEF IInv

LEMMA MismatchStep ==
  ASSUME IInv, Mismatch
  PROVE  IInv'
<1>1. /\ pc = "run" /\ state' = node /\ pc' \in {"unwind", "catch"}
      /\ mark' = About(cur)
      /\ UNCHANGED <<input, cur, node, ctx, eh, out, passes>>
  BY DEF Mismatch, AtToken
<1>2. node \in Nodes /\ Depth > 0 /\ Atn[node].rule = ctx[Depth].rule
  BY <1>1, InRule
<1>3. StackFollowsAtn' /\ StateFollowsStack'
  BY <1>1, <1>2, SameStack
<1>4. mark' \in Marks
  BY <1>1, AboutType, InputFacts DEF IInv
<1>5. TypeOK'
  BY <1>1, <1>2, <1>4 DEF IInv, TypeOK, Marks
<1> QED BY <1>3, <1>5 DEF IInv

-----------------------------------------------------------------------------
(* sync stays at the decision. *)
LEMMA SameDecision ==
  ASSUME IInv, AtDecision, UNCHANGED <<node, ctx>>, pc' \in {"decide", "catch"}
  PROVE  /\ node' \in Nodes /\ state' \in Nodes
         /\ StackFollowsAtn' /\ StateFollowsStack'
<1>1. pc = "run" /\ Decision(node) /\ state' = node /\ node' = node
  BY DEF AtDecision
<1>2. node \in Nodes /\ Depth > 0 /\ Atn[node].rule = ctx[Depth].rule
  BY <1>1, InRule
<1>3. StackFollowsAtn' /\ StateFollowsStack'
  BY <1>1, <1>2, SameStack
<1> QED BY <1>1, <1>2, <1>3

LEMMA SyncStep ==
  ASSUME IInv, Sync \/ SyncThrow
  PROVE  IInv'
<1>1. /\ AtDecision /\ pc' \in {"decide", "catch"}
      /\ mark' = mark \/ mark' = About(cur)
      /\ UNCHANGED <<input, cur, node, ctx, eh, out, passes>>
  BY DEF Sync, SyncThrow
<1>2. /\ node' \in Nodes /\ state' \in Nodes
      /\ StackFollowsAtn' /\ StateFollowsStack'
  BY <1>1, SameDecision
<1>3. mark' \in Marks
  <2>1. mark \in Marks
    BY DEF IInv, TypeOK, Marks
  <2>2. About(cur) \in Marks
    BY AboutType, InputFacts DEF IInv
  <2> QED BY <1>1, <2>1, <2>2
<1>4. TypeOK'
  BY <1>1, <1>2, <1>3 DEF IInv, TypeOK, Marks
<1> QED BY <1>2, <1>4 DEF IInv

LEMMA SyncDeleteStep ==
  ASSUME IInv, SyncDelete
  PROVE  IInv'
<1>1. /\ AtDecision /\ pc' = "decide"
      /\ UNCHANGED <<input, node, ctx, mark, passes>>
  BY DEF SyncDelete
<1>2. /\ node' \in Nodes /\ state' \in Nodes
      /\ StackFollowsAtn' /\ StateFollowsStack'
  BY <1>1, SameDecision
<1>3. TypeOK /\ cur \in 1..Len(input) /\ eh \in Strategy
  BY InputFacts DEF IInv, TypeOK, Strategy
<1>4. cur' \in 1..Len(input)
  BY <1>3, OnwardInFile DEF SyncDelete
<1>5. eh' \in Strategy
  BY <1>3, StrategyType DEF SyncDelete
<1>6. out' \in Output
  BY <1>3, DeletedOutType DEF SyncDelete
<1>7. TypeOK'
  BY <1>1, <1>2, <1>3, <1>4, <1>5, <1>6 DEF TypeOK, Strategy, Output
<1> QED BY <1>2, <1>7 DEF IInv

LEMMA SyncSkipStep ==
  ASSUME IInv, SyncSkip
  PROVE  IInv'
<1>1. /\ AtDecision /\ pc' = "decide"
      /\ UNCHANGED <<input, node, ctx, mark, passes>>
  BY DEF SyncSkip
<1>2. /\ node' \in Nodes /\ state' \in Nodes
      /\ StackFollowsAtn' /\ StateFollowsStack'
  BY <1>1, SameDecision
<1>3. TypeOK /\ cur \in 1..Len(input) /\ eh \in Strategy /\ out \in Output
  BY InputFacts DEF IInv, TypeOK, Strategy, Output
<1>4. cur' \in cur..Len(input)
  BY <1>3, UntilInFile DEF SyncSkip
<1>5. /\ cur \in Nat /\ cur' \in Nat /\ cur <= cur' /\ cur' \in 1..Len(input)
  BY <1>3, <1>4, InputFacts
<1>6. eh' \in Strategy /\ Noted(eh).recovering \in BOOLEAN
  BY <1>3, StrategyType DEF SyncSkip
<1>7. out' \in Output
  <2>1. Leaves(cur, cur', Noted(eh).recovering) \in Seq(Leaf)
    BY <1>5, <1>6, LeavesType
  <2>2. Report(out, cur) \in Output
    BY <1>3, <1>5, ReportType
  <2> QED BY <2>1, <2>2, GrownType DEF SyncSkip
<1>8. TypeOK'
  BY <1>1, <1>2, <1>3, <1>5, <1>6, <1>7 DEF TypeOK, Strategy, Output
<1> QED BY <1>2, <1>8 DEF IInv

LEMMA TakeStep ==
  ASSUME IInv, Take
  PROVE  IInv'
<1>1. /\ pc = "decide" /\ Choice.alt \in DOMAIN Atn[node].alts
      /\ pc' = "run" /\ node' = Atn[node].alts[Choice.alt]
      /\ UNCHANGED <<input, cur, state, ctx, eh, out, mark, passes>>
  BY DEF Take
<1>2. /\ node \in Nodes /\ state \in Nodes /\ Depth > 0
      /\ Atn[node].rule = ctx[Depth].rule
  BY <1>1, InRule
<1>3. Decision(node)
  BY <1>1 DEF IInv, StateFollowsStack
<1>4. node' \in Nodes /\ Atn[node'].rule = Atn[node].rule
  BY <1>1, <1>2, <1>3, NodeFacts
<1>5. StackFollowsAtn' /\ StateFollowsStack'
  BY <1>1, <1>2, <1>4, SameStack
<1>6. TypeOK'
  BY <1>1, <1>4 DEF IInv, TypeOK
<1> QED BY <1>5, <1>6 DEF IInv

LEMMA NoViableAltStep ==
  ASSUME IInv, NoViableAlt
  PROVE  IInv'
<1>1. /\ pc = "decide" /\ pc' = "catch"
      /\ Choice.at \in cur..Len(input) /\ mark' = About(Choice.at)
      /\ UNCHANGED <<input, cur, node, state, ctx, eh, out, passes>>
  BY DEF NoViableAlt
<1>2. /\ node \in Nodes /\ state \in Nodes /\ Depth > 0
      /\ Atn[node].rule = ctx[Depth].rule
  BY <1>1, InRule
<1>3. StackFollowsAtn' /\ StateFollowsStack'
  BY <1>1, <1>2, SameStack
<1>4. mark' \in Marks
  <2>1. Choice.at \in Nat
    BY <1>1, InputFacts DEF IInv
  <2> QED BY <1>1, <2>1, AboutType DEF IInv
<1>5. TypeOK'
  BY <1>1, <1>4 DEF IInv, TypeOK, Marks
<1> QED BY <1>3, <1>5 DEF IInv

-----------------------------------------------------------------------------
(* A rule that returns or recovers goes on in its caller, or is the last.  *)
LEMMA LeaveStack ==
  ASSUME IInv, pc \in {"run", "catch"}, Leave
  PROVE  /\ ctx' \in Seq(Frame) /\ node' \in Nodes
         /\ state' \in Nodes \union {INVALID} /\ pc' \in {"run", "done"}
         /\ StackFollowsAtn' /\ StateFollowsStack'
<1>1. node \in Nodes /\ Depth \in Nat /\ Depth > 0
  BY InRule
<1>2. Exit
  BY DEF Leave
<1>3. /\ ctx' \in Seq(Frame) /\ Depth' = Depth - 1
      /\ \A j \in 1..(Depth - 1) : ctx'[j] = ctx[j]
      /\ state' \in Nodes \union {INVALID}
      /\ Depth = 1 => state' = INVALID
      /\ Depth > 1 => /\ state' \in Nodes
                      /\ Follow(Depth) \in Nodes
                      /\ Atn[Follow(Depth)].rule = ctx[Depth - 1].rule
  BY <1>1, <1>2, ExitFacts
<1>4. \A j \in 2..(Depth - 1) :
        /\ ctx'[j].invokingState \in Calls(ctx'[j].rule)
        /\ Atn[ctx'[j].invokingState].rule = ctx'[j - 1].rule
  <2> TAKE j \in 2..(Depth - 1)
  <2>1. ctx'[j] = ctx[j] /\ ctx'[j - 1] = ctx[j - 1] /\ j \in 2..Depth
    BY <1>1, <1>3
  <2> QED BY <2>1 DEF IInv, StackFollowsAtn
<1>5. Depth > 1 => ctx'[1] = [rule |-> StartRule, invokingState |-> INVALID]
  <2>1. Depth > 1 => ctx'[1] = ctx[1]
    BY <1>1, <1>3
  <2> QED BY <1>1, <2>1 DEF IInv, StackFollowsAtn
<1>6. CASE Depth = 1
  <2>1. pc' = "done" /\ node' = node /\ Depth' = 0
    BY <1>1, <1>3, <1>6 DEF Leave
  <2> QED BY <1>1, <1>3, <1>6, <2>1 DEF StackFollowsAtn, StateFollowsStack
<1>7. CASE Depth > 1
  <2>1. pc' = "run" /\ node' = Follow(Depth)
    BY <1>1, <1>7 DEF Leave
  <2>2. Depth' > 0 /\ ctx'[Depth'] = ctx[Depth - 1]
    BY <1>1, <1>3, <1>7
  <2>3. node' \in Nodes /\ Atn[node'].rule = ctx'[Depth'].rule
    BY <1>3, <1>7, <2>1, <2>2
  <2>4. StackFollowsAtn'
    BY <1>3, <1>4, <1>5, <1>7, <2>1, <2>2, <2>3 DEF StackFollowsAtn
  <2>5. StateFollowsStack'
    BY <1>3, <1>7, <2>1, <2>2 DEF StateFollowsStack
  <2> QED BY <1>3, <2>1, <2>3, <2>4, <2>5
<1> QED BY <1>1, <1>6, <1>7

(* exitRule notes a stop token of the file. *)
LEMMA StopMark ==
  ASSUME TypeOK, NEW i \in 1..Len(input),
         mark' = [mark EXCEPT !.stop = StopToken(i, mark.matchedEOF)]
  PROVE  mark' \in Marks
<1>1. i \in Nat \ {0} /\ mark \in Marks
  BY InputFacts DEF TypeOK, Marks
<1> QED BY <1>1, MarkType

LEMMA ReturnStep ==
  ASSUME IInv, Return
  PROVE  IInv'
<1>1. /\ pc = "run" /\ Leave
      /\ mark' = [mark EXCEPT !.stop = StopToken(cur, mark.matchedEOF)]
      /\ UNCHANGED <<input, cur, eh, out, passes>>
  BY DEF Return
<1>2. /\ ctx' \in Seq(Frame) /\ node' \in Nodes
      /\ state' \in Nodes \union {INVALID} /\ pc' \in {"run", "done"}
      /\ StackFollowsAtn' /\ StateFollowsStack'
  BY <1>1, LeaveStack
<1>3. TypeOK /\ cur \in 1..Len(input)
  BY InputFacts DEF IInv
<1>4. mark' \in Marks
  BY <1>1, <1>3, StopMark
<1>5. TypeOK'
  BY <1>1, <1>2, <1>3, <1>4 DEF TypeOK, Marks
<1> QED BY <1>2, <1>5 DEF IInv

LEMMA RecoverStep ==
  ASSUME IInv, Recover
  PROVE  IInv'
<1> DEFINE from == IF Stuck THEN Onward(cur) ELSE cur
           upto == Until(from, RecoverySet)
           failsafe == IF Stuck THEN Leaves(cur, cur + 1, TRUE) ELSE << >>
           leaves == failsafe \o Leaves(from, upto, TRUE)
           told == IF eh.recovering THEN out ELSE Report(out, mark.offending)
<1>1. /\ pc = "catch" /\ Leave
      /\ cur' = upto
      /\ eh' = [recovering |-> TRUE, lastErrorIndex |-> from,
                lastErrorStates |-> eh.lastErrorStates \union {state}]
      /\ out' = [Grown(told, leaves) EXCEPT !.errors = @ \union {<<from, state>>}]
      /\ mark' = [mark EXCEPT !.stop = StopToken(upto, mark.matchedEOF)]
      /\ UNCHANGED <<input, passes>>
  BY DEF Recover
<1>2. /\ ctx' \in Seq(Frame) /\ node' \in Nodes
      /\ state' \in Nodes \union {INVALID} /\ pc' \in {"run", "done"}
      /\ StackFollowsAtn' /\ StateFollowsStack'
  BY <1>1, LeaveStack
<1>3. /\ TypeOK /\ cur \in 1..Len(input) /\ cur \in Nat /\ state \in Nodes
      /\ eh \in Strategy /\ out \in Output
  BY <1>1, InRule, InputFacts DEF IInv, TypeOK, Strategy, Output
<1>4. from \in 1..Len(input)
  BY <1>3, OnwardInFile
<1>5. upto \in from..Len(input)
  BY <1>3, <1>4, UntilInFile
<1>6. from \in Nat /\ upto \in Nat /\ from <= upto /\ upto \in 1..Len(input)
  <2> HIDE DEF from, upto
  <2> QED BY <1>3, <1>4, <1>5, InputFacts
<1>7. leaves \in Seq(Leaf)
  <2>1. failsafe \in Seq(Leaf)
    <3>1. Leaves(cur, cur + 1, TRUE) \in Seq(Leaf)
      BY <1>3, OneLeafType
    <3>2. << >> \in Seq(Leaf)
      OBVIOUS
    <3> QED BY <3>1, <3>2, Zenon
  <2>2. Leaves(from, upto, TRUE) \in Seq(Leaf)
    <3> HIDE DEF from, upto
    <3> QED BY <1>6, LeavesType
  <2>3. \A f, l \in Seq(Leaf) : f \o l \in Seq(Leaf)
    OBVIOUS
  <2> QED BY <2>1, <2>2, <2>3, Zenon
<1>8. told \in Output
  <2>1. mark.offending \in Nat
    BY <1>3 DEF TypeOK
  <2> QED BY <1>3, <2>1, ReportType
<1>9. Grown(told, leaves) \in Output
  <2> HIDE DEF told, leaves
  <2> QED BY <1>7, <1>8, GrownType
<1>10. out' \in Output
  <2>1. <<from, state>> \in Nat \X Nodes
    <3> HIDE DEF from
    <3> QED BY <1>3, <1>6
  <2> HIDE DEF told, leaves, from
  <2> QED BY <1>1, <1>9, <2>1 DEF Output
<1>11. eh' \in Strategy
  <2> HIDE DEF from
  <2> QED BY <1>1, <1>3, <1>6 DEF Strategy
<1>12. mark' \in Marks /\ cur' \in 1..Len(input)
  <2> HIDE DEF upto
  <2> QED BY <1>1, <1>3, <1>6, StopMark
<1>13. TypeOK'
  <2>1. UNCHANGED <<input, passes>>
    BY <1>1
  <2> QED BY <1>2, <1>3, <1>10, <1>11, <1>12, <2>1 DEF TypeOK, Strategy, Output, Marks
<1> QED BY <1>2, <1>13 DEF IInv

LEMMA BailStep ==
  ASSUME IInv, Bail
  PROVE  IInv'
<1>1. /\ pc = "catch" /\ pc' = "unwind" /\ eh' = Begun(eh)
      /\ UNCHANGED <<input, cur, node, state, ctx, out, mark, passes>>
  BY DEF Bail
<1>2. Depth > 0
  BY <1>1, InRule
<1>3. StackFollowsAtn' /\ StateFollowsStack'
  BY <1>1, <1>2, SameStack
<1>4. TypeOK /\ eh \in Strategy
  BY DEF IInv, TypeOK, Strategy
<1>5. eh' \in Strategy
  BY <1>1, <1>4, StrategyType
<1>6. TypeOK'
  BY <1>1, <1>4, <1>5 DEF TypeOK, Strategy
<1> QED BY <1>3, <1>6 DEF IInv

LEMMA UnwindStep ==
  ASSUME IInv, Unwind
  PROVE  IInv'
<1>1. /\ pc = "unwind" /\ pc' = "unwind" /\ Depth > 0 /\ Exit
      /\ mark' = [mark EXCEPT !.stop = StopToken(cur, mark.matchedEOF)]
      /\ UNCHANGED <<input, cur, node, eh, out, passes>>
  BY DEF Unwind
<1>2. TypeOK /\ cur \in 1..Len(input) /\ Depth \in Nat
  BY InputFacts, ContextFacts DEF IInv
<1>3. /\ ctx' \in Seq(Frame) /\ Depth' = Depth - 1
      /\ \A j \in 1..(Depth - 1) : ctx'[j] = ctx[j]
      /\ state' \in Nodes \union {INVALID}
      /\ Depth = 1 => state' = INVALID
  BY <1>1, ExitFacts
<1>4. \A j \in 2..(Depth - 1) :
        /\ ctx'[j].invokingState \in Calls(ctx'[j].rule)
        /\ Atn[ctx'[j].invokingState].rule = ctx'[j - 1].rule
  <2> TAKE j \in 2..(Depth - 1)
  <2>1. ctx'[j] = ctx[j] /\ ctx'[j - 1] = ctx[j - 1] /\ j \in 2..Depth
    BY <1>2, <1>3
  <2> QED BY <2>1 DEF IInv, StackFollowsAtn
<1>5. Depth' > 0 => ctx'[1] = [rule |-> StartRule, invokingState |-> INVALID]
  <2>1. Depth' > 0 => ctx'[1] = ctx[1]
    BY <1>2, <1>3
  <2> QED BY <1>1, <2>1 DEF IInv, StackFollowsAtn
<1>6. StackFollowsAtn'
  BY <1>1, <1>3, <1>4, <1>5 DEF StackFollowsAtn
<1>7. StateFollowsStack'
  <2>1. Depth' = 0 => state' = INVALID
    BY <1>2, <1>3
  <2> QED BY <1>1, <2>1 DEF StateFollowsStack
<1>8. mark' \in Marks
  BY <1>1, <1>2, StopMark
<1>9. TypeOK'
  BY <1>1, <1>2, <1>3, <1>8 DEF TypeOK, Marks
<1> QED BY <1>6, <1>7, <1>9 DEF IInv

(* The second pass finds the state as invalid as the first did. *)
LEMMA AgainStep ==
  ASSUME IInv, Again
  PROVE  IInv'
<1>1. /\ pc' = "start" /\ Depth = 0
      /\ passes' = Tail(passes) /\ Len(passes) > 1
      /\ cur' = 1 /\ eh' = Calm /\ mark' = Fresh
      /\ out' = [out EXCEPT !.leaves = << >>]
      /\ UNCHANGED <<input, node, state, ctx>>
  BY DEF Again
<1>2. TypeOK /\ out \in Output
  BY DEF IInv, TypeOK, Output
<1>3. passes' \in Seq(Pass) /\ passes' # << >>
  <2>1. passes \in Seq(Pass) /\ Len(passes) > 1 /\ passes' = Tail(passes)
    BY <1>1, <1>2 DEF TypeOK
  <2>2. Tail(passes) \in Seq(Pass) /\ Len(Tail(passes)) = Len(passes) - 1
    BY <2>1
  <2> QED BY <2>1, <2>2
<1>4. cur' \in 1..Len(input)
  BY <1>1, <1>2, InputFacts
<1>5. eh' \in Strategy /\ mark' \in Marks /\ out' \in Output
  <2>1. eh' \in Strategy /\ mark' \in Marks
    BY <1>1 DEF Calm, Fresh, Strategy, Marks
  <2>2. << >> \in Seq(Leaf)
    OBVIOUS
  <2>3. out' \in Output
    BY <1>1, <1>2, <2>2 DEF Output
  <2> QED BY <2>1, <2>3
<1>6. TypeOK'
  BY <1>1, <1>2, <1>3, <1>4, <1>5 DEF TypeOK, Strategy, Marks, Output
<1>7. Depth' = 0
  BY <1>1 DEF Depth
<1>8. StackFollowsAtn' /\ StateFollowsStack'
  BY <1>1, <1>7 DEF IInv, StackFollowsAtn, StateFollowsStack
<1> QED BY <1>6, <1>8 DEF IInv

LEMMA CancelStep ==
  ASSUME IInv, Cancel
  PROVE  IInv'
<1>1. /\ pc' = "canceled" /\ Depth = 0
      /\ UNCHANGED <<input, cur, node, state, ctx, eh, out, mark, passes>>
  BY DEF Cancel
<1>2. TypeOK'
  BY <1>1 DEF IInv, TypeOK
<1>3. Depth' = 0
  BY <1>1 DEF Depth
<1>4. StackFollowsAtn' /\ StateFollowsStack'
  BY <1>1, <1>3 DEF IInv, StackFollowsAtn, StateFollowsStack
<1> QED BY <1>2, <1>4 DEF IInv

LEMMA StutterStep ==
  ASSUME IInv, UNCHANGED vars
  PROVE  IInv'
<1>1. UNCHANGED <<input, cur, pc, node, state, ctx, eh, out, mark, passes>>
  BY DEF vars
<1>2. Depth' = Depth
  BY <1>1 DEF Depth
<1> QED BY <1>1, <1>2 DEF IInv, TypeOK, StackFollowsAtn, StateFollowsStack

-----------------------------------------------------------------------------
LEMMA NextInv ==
  ASSUME IInv, [Next]_vars
  PROVE  IInv'
<1>1. CASE Begin \/ Enter \/ Return
  BY <1>1, BeginStep, EnterStep, ReturnStep
<1>2. CASE Match \/ Delete \/ Insert \/ Mismatch
  BY <1>2, MatchStep, DeleteStep, InsertStep, MismatchStep
<1>3. CASE Sync \/ SyncDelete \/ SyncThrow \/ SyncSkip
  BY <1>3, SyncStep, SyncDeleteStep, SyncSkipStep
<1>4. CASE Take \/ NoViableAlt
  BY <1>4, TakeStep, NoViableAltStep
<1>5. CASE Recover \/ Bail \/ Unwind \/ Again \/ Cancel
  BY <1>5, RecoverStep, BailStep, UnwindStep, AgainStep, CancelStep
<1>6. CASE Finished \/ UNCHANGED vars
  BY <1>6, StutterStep DEF Finished
<1> QED BY <1>1, <1>2, <1>3, <1>4, <1>5, <1>6 DEF Next

(* Whatever the grammar, the file, the passes, and the answers of lookahead *)
(* and prediction, the three invariants below hold together in every state. *)
THEOREM ParserInvariant == Spec => []IInv
<1>1. Init => IInv
  BY InitInv
<1>2. IInv /\ [Next]_vars => IInv'
  BY NextInv
<1> QED BY <1>1, <1>2, PTL DEF Spec

(* Parser and error strategy keep their fields in range; above all, no      *)
(* consume, deletion, skip or failsafe leaves the file.                     *)
THEOREM ParserTypeOK == Spec => []TypeOK
<1>1. IInv => TypeOK
  BY DEF IInv
<1> QED BY <1>1, ParserInvariant, PTL

(* Every invoking state on the stack is a call to the rule of its context   *)
(* out of the rule below, in every pass, however many contexts recovery or  *)
(* bailing out have unwound: what getErrorRecoverySet and getExpectedTokens *)
(* take for granted when they follow them.                                  *)
THEOREM ParserStackFollowsAtn == Spec => []StackFollowsAtn
<1>1. IInv => StackFollowsAtn
  BY DEF IInv
<1> QED BY <1>1, ParserInvariant, PTL

-----------------------------------------------------------------------------
(* TreeKeepsTokens *)
(* What concatenation does, for sequences of leaves. *)
LEMMA LeafConcat ==
  ASSUME NEW s \in Seq(Leaf), NEW t \in Seq(Leaf)
  PROVE  /\ s \o t \in Seq(Leaf)
         /\ DOMAIN s = 1..Len(s) /\ DOMAIN (s \o t) = 1..(Len(s) + Len(t))
         /\ \A k \in 1..Len(s) : (s \o t)[k] = s[k]
         /\ \A k \in (Len(s) + 1)..(Len(s) + Len(t)) : (s \o t)[k] = t[k - Len(s)]
OBVIOUS

LEMMA LeafAssoc ==
  ASSUME NEW s \in Seq(Leaf), NEW t \in Seq(Leaf), NEW u \in Seq(Leaf)
  PROVE  (s \o t) \o u = s \o (t \o u)
BY ConcatAssociative

(* Leaves for the tokens from i up to n come out in order; up to m they    *)
(* count, and a token after that is EOF.                                   *)
LEMMA KeepsStretch ==
  ASSUME TypeOK, NEW leaves \in Seq(Leaf), NEW r \in BOOLEAN,
         NEW i \in 1..Len(input), NEW m \in i..Len(input), NEW n \in Nat,
         n = m \/ (m = Len(input) /\ n = m + 1),
         Keeps(leaves, i)
  PROVE  Keeps(leaves \o Leaves(i, n, r), m)
<1> DEFINE L == Len(leaves)
           more == Leaves(i, n, r)
           all == leaves \o more
           read == {k \in DOMAIN leaves : leaves[k].at # 0 /\ input[leaves[k].at] # EOF}
           readAll == {k \in DOMAIN all : all[k].at # 0 /\ input[all[k].at] # EOF}
<1>1. /\ Len(input) \in Nat /\ i \in Nat /\ m \in Nat /\ i <= m /\ m <= n /\ 1 <= i
      /\ n - i \in Nat /\ L \in Nat /\ n <= Len(input) + 1
  BY InputFacts
<1>2. more \in Seq(Leaf)
  BY <1>1, LeavesType
<1>3. Len(more) = n - i /\ \A k \in 1..(n - i) : more[k].at = i + k - 1
  BY <1>1 DEF Leaves
<1>4. /\ DOMAIN leaves = 1..L /\ DOMAIN all = 1..(L + (n - i))
      /\ \A k \in 1..L : all[k] = leaves[k]
      /\ \A k \in (L + 1)..(L + (n - i)) : all[k].at = i + (k - L) - 1
  <2>1. /\ DOMAIN leaves = 1..L /\ DOMAIN all = 1..(L + Len(more))
        /\ \A k \in 1..L : all[k] = leaves[k]
        /\ \A k \in (L + 1)..(L + Len(more)) : all[k] = more[k - L]
    <3> HIDE DEF more
    <3> QED BY <1>2, LeafConcat
  <2> HIDE DEF more, all, L
  <2>2. \A k \in (L + 1)..(L + (n - i)) : k - L \in 1..(n - i)
    BY <1>1
  <2>3. \A k \in (L + 1)..(L + (n - i)) : all[k] = more[k - L]
    BY <1>3, <2>1
  <2> QED BY <1>3, <2>1, <2>2, <2>3
<1> HIDE DEF more, all, L
(* What the old and the new leaves that count are. *)
<1>5. \A k \in 1..L : k \in readAll <=> k \in read
  BY <1>1, <1>4
<1>6. \A k \in (L + 1)..(L + (n - i)) : k \in readAll <=> k - L <= m - i
  <2> TAKE k \in (L + 1)..(L + (n - i))
  <2>1. all[k].at = i + (k - L) - 1
    BY <1>4
  <2>2. all[k].at \in 1..Len(input)
    BY <1>1, <2>1
  <2>3. k \in readAll <=> all[k].at # Len(input)
    <3>1. k \in 1..(L + (n - i))
      BY <1>1
    <3>2. k \in DOMAIN all
      BY <1>4, <3>1
    <3>3. all[k].at # 0 /\ (input[all[k].at] = EOF <=> all[k].at = Len(input))
      BY <2>2, InputFacts
    <3> QED BY <3>2, <3>3
  <2>4. \A d \in 1..(n - i) : i + d - 1 # Len(input) <=> d <= m - i
    BY <1>1
  <2>5. k - L \in 1..(n - i)
    BY <1>1
  <2> QED BY <2>1, <2>3, <2>4, <2>5
<1>7. /\ {leaves[k].at : k \in read} = 1..(i - 1)
      /\ \A k, l \in read : k < l => leaves[k].at < leaves[l].at
  BY DEF Keeps
<1>8. \A k \in readAll : k <= L => k \in read /\ all[k].at \in 1..(i - 1)
  <2> TAKE k \in readAll
  <2> HAVE k <= L
  <2>1. k \in 1..L
    BY <1>1, <1>4
  <2>2. k \in read /\ all[k] = leaves[k]
    BY <1>4, <1>5, <2>1
  <2> QED BY <1>7, <2>2
<1>9. \A k \in readAll : k > L =>
        /\ k \in (L + 1)..(L + (n - i)) /\ all[k].at = i + (k - L) - 1
        /\ all[k].at \in i..(m - 1)
  <2> TAKE k \in readAll
  <2> HAVE k > L
  <2>1. k \in (L + 1)..(L + (n - i))
    BY <1>1, <1>4
  <2> QED BY <1>1, <1>4, <1>6, <2>1
<1>10. \A k \in readAll : k \in Nat
  BY <1>1, <1>4
<1> HIDE DEF read, readAll
<1>11. {all[k].at : k \in readAll} = 1..(m - 1)
  <2>1. ASSUME NEW k \in readAll PROVE all[k].at \in 1..(m - 1)
    <3>1. k <= L \/ k > L
      BY <1>1, <1>10
    <3>2. all[k].at \in 1..(i - 1) \/ all[k].at \in i..(m - 1)
      BY <1>8, <1>9, <3>1
    <3>3. \A t : t \in 1..(i - 1) \/ t \in i..(m - 1) => t \in 1..(m - 1)
      BY <1>1
    <3> QED BY <3>2, <3>3
  <2>2. ASSUME NEW t \in 1..(m - 1) PROVE \E k \in readAll : all[k].at = t
    <3>1. CASE t < i
      <4>1. t \in 1..(i - 1)
        BY <1>1, <3>1
      <4>2. PICK k \in read : leaves[k].at = t
        BY <1>7, <4>1
      <4>3. k \in 1..L
        BY <1>4 DEF read
      <4> QED BY <1>4, <1>5, <4>2, <4>3
    <3>2. CASE t >= i
      <4> DEFINE k == L + (t - i) + 1
      <4>1. k \in (L + 1)..(L + (n - i)) /\ k - L <= m - i /\ i + (k - L) - 1 = t
        BY <1>1, <3>2
      <4> HIDE DEF k
      <4> QED BY <1>4, <1>6, <4>1
    <3> QED BY <1>1, <3>1, <3>2
  <2> QED BY <2>1, <2>2
<1>12. ASSUME NEW k \in readAll, NEW l \in readAll, k < l
       PROVE  all[k].at < all[l].at
  <2>1. CASE l <= L
    <3>1. k \in read /\ l \in read
      BY <1>1, <1>8, <1>10, <1>12, <2>1
    <3>2. all[k] = leaves[k] /\ all[l] = leaves[l]
      BY <1>4, <3>1 DEF read
    <3> QED BY <1>7, <1>12, <3>1, <3>2
  <2>2. CASE k <= L /\ l > L
    <3>1. all[k].at \in 1..(i - 1) /\ all[l].at \in i..(m - 1)
      BY <1>8, <1>9, <2>2
    <3> QED BY <1>1, <3>1
  <2>3. CASE k > L
    <3>1. l > L
      BY <1>1, <1>10, <1>12, <2>3
    <3>2. all[k].at = i + (k - L) - 1 /\ all[l].at = i + (l - L) - 1
      BY <1>9, <2>3, <3>1
    <3>3. k \in Nat /\ l \in Nat
      BY <1>10
    <3> QED BY <1>1, <1>12, <3>2, <3>3
  <2> QED BY <1>1, <1>10, <2>1, <2>2, <2>3
<1> QED BY <1>11, <1>12 DEF Keeps, readAll, all, more

(* Parser::consume: one leaf, and the cursor moves on, except at EOF. *)
LEMMA KeepsOne ==
  ASSUME TypeOK, NEW leaves \in Seq(Leaf), NEW r \in BOOLEAN,
         NEW i \in 1..Len(input), Keeps(leaves, i)
  PROVE  Keeps(leaves \o Leaves(i, i + 1, r), Onward(i))
<1>1. i \in Nat /\ Len(input) \in Nat /\ (input[i] = EOF <=> i = Len(input))
  BY InputFacts
<1>2. Onward(i) \in i..Len(input) /\ i + 1 \in Nat
  BY <1>1, OnwardInFile
<1>3. i + 1 = Onward(i) \/ (Onward(i) = Len(input) /\ i + 1 = Onward(i) + 1)
  BY <1>1 DEF Onward
<1> QED BY <1>2, <1>3, KeepsStretch

(* A leaf that stands nowhere in the file does not count. *)
LEMMA KeepsMissing ==
  ASSUME NEW leaves \in Seq(Leaf), NEW i, Keeps(leaves, i)
  PROVE  Keeps(leaves \o <<Missing>>, i)
<1> DEFINE L == Len(leaves)
           all == leaves \o <<Missing>>
           read == {k \in DOMAIN leaves : leaves[k].at # 0 /\ input[leaves[k].at] # EOF}
           readAll == {k \in DOMAIN all : all[k].at # 0 /\ input[all[k].at] # EOF}
<1>1. /\ L \in Nat /\ DOMAIN leaves = 1..L /\ DOMAIN all = 1..(L + 1)
      /\ \A k \in 1..L : all[k] = leaves[k]
      /\ all[L + 1] = Missing
  OBVIOUS
<1>2. Missing.at = 0
  BY DEF Missing
<1> HIDE DEF L, all
<1>3. \A k \in DOMAIN all : k \in 1..L \/ k = L + 1
  BY <1>1
<1>4. readAll = read
  <2>1. ASSUME NEW k \in readAll PROVE k \in read
    BY <1>1, <1>2, <1>3
  <2>2. ASSUME NEW k \in read PROVE k \in readAll
    BY <1>1
  <2> QED BY <2>1, <2>2
<1>5. \A k \in read : all[k] = leaves[k]
  BY <1>1
<1>6. /\ {leaves[k].at : k \in read} = 1..(i - 1)
      /\ \A k, l \in read : k < l => leaves[k].at < leaves[l].at
  BY DEF Keeps
<1> HIDE DEF read
<1>7. {all[k].at : k \in read} = 1..(i - 1)
  BY <1>5, <1>6
<1>8. \A k, l \in read : k < l => all[k].at < all[l].at
  BY <1>5, <1>6
<1>9. /\ {all[k].at : k \in readAll} = 1..(i - 1)
      /\ \A k, l \in readAll : k < l => all[k].at < all[l].at
  BY <1>4, <1>7, <1>8
<1> QED BY <1>9 DEF Keeps, all

-----------------------------------------------------------------------------
(* What an action has to show. *)
LEMMA Kept ==
  ASSUME UNCHANGED input, Keeps(out'.leaves, cur')
  PROVE  TreeKeepsTokens'
BY DEF TreeKeepsTokens, Keeps

(* Reports leave the tree alone. *)
LEMMA TreeOf ==
  ASSUME NEW o \in Output
  PROVE  /\ o.leaves \in Seq(Leaf)
         /\ \A l : Grown(o, l).leaves = o.leaves \o l
         /\ \A i : Report(o, i).leaves = o.leaves
BY DEF Output, Grown, Report

LEMMA DeletedKeeps ==
  ASSUME IInv, TreeKeepsTokens
  PROVE  /\ DeletedOut(eh).leaves \in Seq(Leaf)
         /\ Keeps(DeletedOut(eh).leaves, Onward(cur))
<1> DEFINE told == IF Notes(eh) THEN Report(out, cur) ELSE out
<1>1. /\ TypeOK /\ cur \in 1..Len(input) /\ cur \in Nat
      /\ out \in Output /\ eh \in Strategy
  BY InputFacts DEF IInv, TypeOK, Output, Strategy
<1>2. DeletedOut(eh).leaves \in Seq(Leaf)
  BY <1>1, DeletedOutType, TreeOf
<1>3. told \in Output /\ told.leaves = out.leaves /\ out.leaves \in Seq(Leaf)
  BY <1>1, ReportType, TreeOf
<1>4. Noted(eh).recovering \in BOOLEAN
  BY <1>1, StrategyType
<1> HIDE DEF told
<1>5. DeletedOut(eh).leaves = out.leaves \o Leaves(cur, cur + 1, Noted(eh).recovering)
  BY <1>3, TreeOf DEF DeletedOut, told
<1>6. Keeps(out.leaves \o Leaves(cur, cur + 1, Noted(eh).recovering), Onward(cur))
  BY <1>1, <1>3, <1>4, KeepsOne DEF TreeKeepsTokens
<1> QED BY <1>2, <1>5, <1>6

LEMMA MatchKeeps ==
  ASSUME IInv, TreeKeepsTokens, Match
  PROVE  TreeKeepsTokens'
<1>1. /\ cur' = Onward(cur) /\ out' = Grown(out, Leaves(cur, cur + 1, FALSE))
      /\ UNCHANGED input
  BY DEF Match, Next1
<1>2. TypeOK /\ cur \in 1..Len(input) /\ out \in Output /\ FALSE \in BOOLEAN
  BY InputFacts DEF IInv, TypeOK, Output
<1>3. out.leaves \in Seq(Leaf) /\ out'.leaves = out.leaves \o Leaves(cur, cur + 1, FALSE)
  BY <1>1, <1>2, TreeOf
<1>4. Keeps(out'.leaves, cur')
  BY <1>1, <1>2, <1>3, KeepsOne DEF TreeKeepsTokens
<1> QED BY <1>1, <1>4, Kept

LEMMA DeleteKeeps ==
  ASSUME IInv, TreeKeepsTokens, Delete
  PROVE  TreeKeepsTokens'
<1> DEFINE next == Onward(cur)
           deleted == DeletedOut(eh)
<1>1. /\ cur' = Onward(next)
      /\ out' = Grown(deleted, Leaves(next, next + 1, FALSE))
      /\ UNCHANGED input
  BY DEF Delete, Next1
<1>2. TypeOK /\ next \in 1..Len(input) /\ FALSE \in BOOLEAN
  BY InputFacts, OnwardInFile DEF IInv
<1>3. deleted \in Output
  BY <1>2, DeletedOutType
<1>4. deleted.leaves \in Seq(Leaf) /\ Keeps(deleted.leaves, next)
  BY DeletedKeeps
<1> HIDE DEF next, deleted
<1>5. out'.leaves = deleted.leaves \o Leaves(next, next + 1, FALSE)
  BY <1>1, <1>3, TreeOf
<1>6. Keeps(out'.leaves, cur')
  BY <1>1, <1>2, <1>4, <1>5, KeepsOne
<1> QED BY <1>1, <1>6, Kept

LEMMA InsertKeeps ==
  ASSUME IInv, TreeKeepsTokens, Insert
  PROVE  TreeKeepsTokens'
<1> DEFINE told == IF Notes(eh) THEN Report(out, cur) ELSE out
<1>1. /\ out' = Grown(told, <<Missing>>)
      /\ UNCHANGED <<input, cur>>
  BY DEF Insert, Next1
<1>2. TypeOK /\ out \in Output /\ cur \in Nat
  BY InputFacts DEF IInv, TypeOK, Output
<1>3. told \in Output /\ told.leaves = out.leaves /\ out.leaves \in Seq(Leaf)
  BY <1>2, ReportType, TreeOf
<1> HIDE DEF told
<1>4. out'.leaves = out.leaves \o <<Missing>>
  BY <1>1, <1>3, TreeOf
<1>5. Keeps(out'.leaves, cur')
  BY <1>1, <1>3, <1>4, KeepsMissing DEF TreeKeepsTokens
<1> QED BY <1>1, <1>5, Kept

LEMMA SyncDeleteKeeps ==
  ASSUME IInv, TreeKeepsTokens, SyncDelete
  PROVE  TreeKeepsTokens'
<1>1. cur' = Onward(cur) /\ out' = DeletedOut(eh) /\ UNCHANGED input
  BY DEF SyncDelete
<1> QED BY <1>1, DeletedKeeps, Kept

LEMMA SyncSkipKeeps ==
  ASSUME IInv, TreeKeepsTokens, SyncSkip
  PROVE  TreeKeepsTokens'
<1> DEFINE r == Noted(eh).recovering
<1>1. /\ cur' = Until(cur, Expected(node) \union RecoverySet)
      /\ out' = Grown(Report(out, cur), Leaves(cur, cur', r))
      /\ UNCHANGED input
  BY DEF SyncSkip
<1>2. /\ TypeOK /\ cur \in 1..Len(input) /\ cur \in Nat
      /\ out \in Output /\ eh \in Strategy
  BY InputFacts DEF IInv, TypeOK, Output, Strategy
<1>3. r \in BOOLEAN
  BY <1>2, StrategyType
<1>4. cur' \in cur..Len(input) /\ cur' \in Nat
  <2>1. cur' \in cur..Len(input)
    BY <1>1, <1>2, UntilInFile
  <2> QED BY <1>2, <2>1, InputFacts
<1>5. Report(out, cur) \in Output
  BY <1>2, ReportType
<1> HIDE DEF r
<1>6. out'.leaves = out.leaves \o Leaves(cur, cur', r) /\ out.leaves \in Seq(Leaf)
  <2>1. Report(out, cur).leaves = out.leaves /\ out.leaves \in Seq(Leaf)
    BY <1>2, TreeOf
  <2>2. out'.leaves = Report(out, cur).leaves \o Leaves(cur, cur', r)
    BY <1>1, <1>5, TreeOf
  <2> QED BY <2>1, <2>2
<1>7. Keeps(out'.leaves, cur')
  BY <1>2, <1>3, <1>4, <1>6, KeepsStretch DEF TreeKeepsTokens
<1> QED BY <1>1, <1>7, Kept

(* recover: a leaf for the failsafe's token, then those it skips. *)
LEMMA RecoverKeeps ==
  ASSUME IInv, TreeKeepsTokens, Recover
  PROVE  TreeKeepsTokens'
<1> DEFINE from == IF Stuck THEN Onward(cur) ELSE cur
           upto == Until(from, RecoverySet)
           failsafe == IF Stuck THEN Leaves(cur, cur + 1, TRUE) ELSE << >>
           skipped == Leaves(from, upto, TRUE)
           told == IF eh.recovering THEN out ELSE Report(out, mark.offending)
<1>1. /\ cur' = upto /\ UNCHANGED input
      /\ out' = [Grown(told, failsafe \o skipped) EXCEPT !.errors = @ \union {<<from, state>>}]
  BY DEF Recover
<1>2. /\ TypeOK /\ cur \in 1..Len(input) /\ cur \in Nat /\ out \in Output
      /\ TRUE \in BOOLEAN /\ mark.offending \in Nat
  BY InputFacts DEF IInv, TypeOK, Output
<1>3. told \in Output /\ told.leaves = out.leaves /\ out.leaves \in Seq(Leaf)
  BY <1>2, ReportType, TreeOf
<1>4. from \in 1..Len(input)
  BY <1>2, OnwardInFile
<1>5. upto \in from..Len(input)
  BY <1>2, <1>4, UntilInFile
<1>6. /\ failsafe \in Seq(Leaf)
      /\ Keeps(out.leaves \o failsafe, from)
  <2>1. CASE Stuck
    <3>1. failsafe = Leaves(cur, cur + 1, TRUE) /\ from = Onward(cur)
      BY <2>1
    <3>2. Leaves(cur, cur + 1, TRUE) \in Seq(Leaf)
      BY <1>2, OneLeafType
    <3>3. Keeps(out.leaves \o Leaves(cur, cur + 1, TRUE), Onward(cur))
      BY <1>2, <1>3, KeepsOne DEF TreeKeepsTokens
    <3> QED BY <3>1, <3>2, <3>3
  <2>2. CASE ~Stuck
    <3>1. failsafe = << >> /\ from = cur
      BY <2>2
    <3>2. out.leaves \o << >> = out.leaves /\ << >> \in Seq(Leaf)
      BY <1>3
    <3> QED BY <3>1, <3>2 DEF TreeKeepsTokens
  <2> QED BY <2>1, <2>2
<1> HIDE DEF told, failsafe, from, upto
<1>7. /\ from \in Nat /\ upto \in Nat /\ from <= upto
      /\ skipped \in Seq(Leaf)
  <2>1. from \in Nat /\ upto \in Nat /\ from <= upto
    BY <1>4, <1>5, <1>2, InputFacts
  <2> QED BY <2>1, LeavesType
<1>8. out.leaves \o failsafe \in Seq(Leaf)
  BY <1>3, <1>6, LeafConcat
<1>9. Keeps((out.leaves \o failsafe) \o skipped, upto)
  BY <1>2, <1>4, <1>5, <1>6, <1>7, <1>8, KeepsStretch
<1> HIDE DEF skipped
<1>10. out'.leaves = (out.leaves \o failsafe) \o skipped
  <2>1. failsafe \o skipped \in Seq(Leaf)
    BY <1>6, <1>7, LeafConcat
  <2>2. Grown(told, failsafe \o skipped) \in Output
    BY <1>3, <2>1, GrownType
  <2>3. out'.leaves = Grown(told, failsafe \o skipped).leaves
    BY <1>1, <2>2 DEF Output
  <2>4. Grown(told, failsafe \o skipped).leaves = out.leaves \o (failsafe \o skipped)
    BY <1>3, TreeOf
  <2>5. (out.leaves \o failsafe) \o skipped = out.leaves \o (failsafe \o skipped)
    BY <1>3, <1>6, <1>7, LeafAssoc
  <2> QED BY <2>3, <2>4, <2>5
<1> QED BY <1>1, <1>9, <1>10, Kept

(* A tree and a cursor that begin afresh, or stay as they are. *)
LEMMA FreshKeeps ==
  ASSUME TypeOK, cur' = 1, UNCHANGED input, out'.leaves = << >>
  PROVE  TreeKeepsTokens'
<1>1. Keeps(<< >>, 1)
  BY DEF Keeps
<1> QED BY <1>1, Kept

LEMMA AgainKeeps ==
  ASSUME IInv, Again
  PROVE  TreeKeepsTokens'
<1>1. /\ TypeOK /\ cur' = 1 /\ UNCHANGED input
      /\ out \in Output /\ out' = [out EXCEPT !.leaves = << >>]
  BY DEF Again, IInv, TypeOK, Output
<1>2. out'.leaves = << >>
  BY <1>1 DEF Output
<1> QED BY <1>1, <1>2, FreshKeeps

LEMMA OthersKeep ==
  ASSUME TreeKeepsTokens, UNCHANGED <<input, cur, out>>
  PROVE  TreeKeepsTokens'
BY DEF TreeKeepsTokens, Keeps

LEMMA NextKeeps ==
  ASSUME IInv, TreeKeepsTokens, [Next]_vars
  PROVE  TreeKeepsTokens'
<1>1. CASE Match \/ Delete \/ Insert
  BY <1>1, MatchKeeps, DeleteKeeps, InsertKeeps
<1>2. CASE SyncDelete \/ SyncSkip
  BY <1>2, SyncDeleteKeeps, SyncSkipKeeps
<1>3. CASE Recover \/ Again
  BY <1>3, RecoverKeeps, AgainKeeps
<1>4. CASE Begin \/ Enter \/ Return \/ Mismatch
  BY <1>4, OthersKeep DEF Begin, Enter, Return, Mismatch
<1>5. CASE Sync \/ SyncThrow \/ Take \/ NoViableAlt
  BY <1>5, OthersKeep DEF Sync, SyncThrow, Take, NoViableAlt
<1>6. CASE Bail \/ Unwind \/ Cancel
  BY <1>6, OthersKeep DEF Bail, Unwind, Cancel
<1>7. CASE Finished \/ UNCHANGED vars
  BY <1>7, OthersKeep DEF Finished, vars
<1> QED BY <1>1, <1>2, <1>3, <1>4, <1>5, <1>6, <1>7 DEF Next

(* No token the parser has passed is missing from the tree of its pass, or *)
(* there twice, or out of order, whatever was deleted, skipped, inserted   *)
(* or given up on the way, for every grammar, file and strategy.           *)
THEOREM ParserTreeKeepsTokens == Spec => []TreeKeepsTokens
<1>1. Init => TreeKeepsTokens
  <2> SUFFICES ASSUME Init PROVE Keeps(out.leaves, cur)
    BY DEF TreeKeepsTokens
  <2>1. out.leaves = << >> /\ cur = 1
    BY DEF Init, Blank
  <2> QED BY <2>1 DEF Keeps
<1>2. IInv /\ TreeKeepsTokens /\ [Next]_vars => TreeKeepsTokens'
  BY NextKeeps
<1> QED BY <1>1, <1>2, ParserInvariant, PTL DEF Spec
=============================================================================
