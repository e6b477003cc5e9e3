------------------------- MODULE PredictionContexts -------------------------
(***************************************************************************)
(* The graph-structured call stacks of prediction: PredictionContext and   *)
(* its merge (src/antlr/src/atn/PredictionContext.cpp).                    *)
(*                                                                         *)
(* A context is the sequence of its edges, each a return state and the     *)
(* context below it, sorted by return state; one edge is a Singleton-      *)
(* PredictionContext, more are an ArrayPredictionContext, and NULL is a    *)
(* null pointer.  Contexts are compared by content, as operator== and the  *)
(* maps of the code do; which of two equal graphs is kept cannot be told.  *)
(***************************************************************************)
EXTENDS Grammar, TLC, SequencesExt

EMPTY_RETURN_STATE == 2147483637   (* above every state, so $ sorts last *)

NULL == << >>
Edge(state, parent) == [state |-> state, parent |-> parent]
EMPTY == <<Edge(EMPTY_RETURN_STATE, NULL)>>

Single(ctx) == Len(ctx) = 1
HasEmptyPath(ctx) == ctx[Len(ctx)].state = EMPTY_RETURN_STATE

(* Mutant: nobody called. *)
NobodyCalled(stack) == EMPTY

(* fromRuleContext: the parser's call stack, a sequence of follow states,  *)
(* top first.                                                              *)
RECURSIVE FromRuleContext(_)
FromRuleContext(stack) ==
  IF stack = << >> THEN EMPTY
  ELSE <<Edge(Head(stack), FromRuleContext(Tail(stack)))>>

(* The call stacks a context stands for. *)
RECURSIVE StacksOf(_)
StacksOf(ctx) ==
  UNION {IF e.state = EMPTY_RETURN_STATE THEN {<< >>}
         ELSE {<<e.state>> \o rest : rest \in StacksOf(e.parent)} : e \in ToSet(ctx)}

-----------------------------------------------------------------------------
(* A merge also writes the mergeCache of the simulator, a map from pairs   *)
(* of contexts; failed says that an assertion did not hold on the way.     *)
NoMerges == [known |-> << >>, failed |-> FALSE]
Merging(ctx, memo) == [ctx |-> ctx, memo |-> memo]
Remembering(a, b, ctx, memo) ==
  Merging(ctx, [memo EXCEPT !.known = <<a, b>> :> ctx @@ memo.known])

(* mergeRoot, NULL when neither context is $ *)
MergeRoot(a, b, rootIsWildcard) ==
  IF EMPTY \notin {a, b} THEN NULL
  ELSE IF rootIsWildcard \/ a = b THEN EMPTY
  ELSE IF a = EMPTY THEN b \o a ELSE a \o b

ParentAt(ctx, state) == (CHOOSE e \in ToSet(ctx) : e.state = state).parent
ReturnStates(ctx) == {e.state : e \in ToSet(ctx)}

RECURSIVE Merge(_, _, _, _), MergeEdges(_, _, _, _, _)

(* Parents of equal tops: merged, singleton [a]x + [b]x = [a,b]x. *)
MergeSingletons(a, b, rootIsWildcard, memo) ==
  LET root == MergeRoot(a, b, rootIsWildcard)
      low == a[1].state
      below == Merge(a[1].parent, b[1].parent, rootIsWildcard, memo)
  IN
  CASE root # NULL -> Remembering(a, b, root, memo)
    [] root = NULL /\ low = b[1].state ->
         IF below.ctx \in {a[1].parent, b[1].parent}
         THEN Merging(IF below.ctx = a[1].parent THEN a ELSE b, below.memo)
         ELSE Remembering(a, b, <<Edge(low, below.ctx)>>, below.memo)
    [] root = NULL /\ low < b[1].state -> Remembering(a, b, a \o b, memo)
    [] root = NULL /\ low > b[1].state -> Remembering(a, b, b \o a, memo)

(* mergeArrays: the edges of both in the order of their return states, the *)
(* parents merged where both have one.  Where both end in $ that merges    *)
(* two null parents: the code's test for it wants them both not to be.     *)
MergeEdges(states, a, b, rootIsWildcard, acc) ==
  IF states = << >> THEN acc
  ELSE LET s == Head(states)
           both == s \in ReturnStates(a) /\ s \in ReturnStates(b)
           only == ParentAt(IF s \in ReturnStates(a) THEN a ELSE b, s)
           below == IF both THEN Merge(ParentAt(a, s), ParentAt(b, s), rootIsWildcard, acc.memo)
                            ELSE Merging(only, acc.memo)
       IN MergeEdges(Tail(states), a, b, rootIsWildcard,
                     Merging(Append(acc.ctx, Edge(s, below.ctx)), below.memo))

(* Mutant: equal tops stay side by side. *)
MergeArraysAppended(a, b, rootIsWildcard, memo) ==
  Remembering(a, b, SortSeq(a \o b, LAMBDA d, e : d.state < e.state), memo)

MergeArrays(a, b, rootIsWildcard, memo) ==
  LET merged == MergeEdges(Sorted(ReturnStates(a) \union ReturnStates(b)), a, b,
                           rootIsWildcard, Merging(<< >>, memo))
  IN Remembering(a, b, merged.ctx, merged.memo)

(* merge, with the lookups of (a, b) and (b, a) that mergeSingletons and   *)
(* mergeArrays begin with.  assert(a && b) is about null pointers.         *)
Merge(a, b, rootIsWildcard, memo) ==
  CASE a = b -> Merging(a, [memo EXCEPT !.failed = @ \/ a = NULL])
    [] a # b /\ <<a, b>> \in DOMAIN memo.known -> Merging(memo.known[<<a, b>>], memo)
    [] a # b /\ <<a, b>> \notin DOMAIN memo.known /\ <<b, a>> \in DOMAIN memo.known ->
         Merging(memo.known[<<b, a>>], memo)
    [] OTHER ->
         IF Single(a) /\ Single(b) THEN MergeSingletons(a, b, rootIsWildcard, memo)
         ELSE IF rootIsWildcard /\ EMPTY \in {a, b} THEN Merging(EMPTY, memo)
         ELSE MergeArrays(a, b, rootIsWildcard, memo)
=============================================================================
