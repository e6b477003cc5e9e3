------------------------- MODULE ParserReportProofs -------------------------
(***************************************************************************)
(* What a Parser has read, reported and built by the time it returns, for  *)
(* every grammar whose start rule alone asks for EOF, as its last token.   *)
(*                                                                         *)
(* EOF is matched there or never, so a rule ends at the end of the file or *)
(* is recovered from at the outermost level, which skips to it; a report   *)
(* is followed by another only after endErrorCondition, hence after a      *)
(* token was consumed; and a tree without reports is made by matching.     *)
(***************************************************************************)
EXTENDS ParserProofs

(* At the end of the start rule the file is read. *)
EndInv == pc = "done" \/ (pc = "run" /\ Final(node)) => input[cur] = EOF

(* The reports were made before the cursor, and one made at the cursor     *)
(* itself is still being recovered from; an exception is about a token not *)
(* passed yet; a strategy that bails out makes no reports, and only then   *)
(* there is another pass.                                                  *)
Made(i) == [at |-> i, from |-> cur]
Below(r, n) == \A k \in 1..Len(r) : r[k].from < n
Rising(r) == /\ \A i, j \in 1..Len(r) : i < j => r[i].from < r[j].from
             /\ \A k \in 1..Len(r) : r[k].from <= r[k].at
Running == pc \in {"run", "decide", "catch"}
ReportInv ==
  /\ handler = "bail" \/ pc = "start" => out.reports = << >>
  /\ handler # "bail" => pc # "unwind"
  /\ pc = "catch" => ~Final(node) /\ cur <= mark.offending
  /\ handler = "default" =>
       /\ Rising(out.reports)
       /\ Below(out.reports, cur + 1)
       /\ Running /\ ~eh.recovering /\ ~Final(node) => Below(out.reports, cur)

(* Without a report every leaf so far was matched: those before the        *)
(* cursor, and EOF once that is matched too.                               *)
Clean(leaves, matched, i) ==
  /\ Len(leaves) = IF matched THEN Len(input) ELSE i - 1
  /\ \A k \in 1..Len(leaves) : leaves[k] = [at |-> k, error |-> FALSE]
CleanInv ==
  /\ eh.recovering /\ handler # "bail" => out.reports # << >>
  /\ out.reports = << >> =>
       /\ Clean(out.leaves, mark.matchedEOF, cur)
       /\ mark.matchedEOF => cur = Len(input) /\ Final(node)
       /\ (pc = "run" /\ Final(node)) \/ pc = "done" => mark.matchedEOF
       /\ pc = "start" => ~mark.matchedEOF
       /\ pc = "done" => mark.stop = Len(input)

-----------------------------------------------------------------------------
(* Where the start rule may be. *)
LEMMA FinalFacts ==
  ASSUME NEW s \in Nodes
  PROVE  /\ Token(s) => (Atn[s].token = EOF <=> Final(Atn[s].next))
         /\ Call(s) => ~Final(Atn[s].next)
         /\ Decision(s) => ~Final(s) /\ (\A a \in DOMAIN Atn[s].alts : ~Final(Atn[s].alts[a]))
         /\ Token(s) \/ Call(s) => ~Final(s)
BY EOFAssumption DEF Final, Stop, Decision, Token, Call

(* The start rule is not called, so its end is the end of the pass. *)
LEMMA FinalIsOutermost ==
  ASSUME IInv, Running, Final(node)
  PROVE  Depth = 1
<1>1. /\ Depth \in Nat /\ Depth > 0 /\ Atn[node].rule = ctx[Depth].rule
  BY InRule DEF Running
<1>2. ASSUME Depth \in 2..Depth PROVE FALSE
  <2>1. ctx[Depth].invokingState \in Calls(ctx[Depth].rule)
    BY <1>2 DEF IInv, StackFollowsAtn
  <2> QED BY <1>1, <2>1, EOFAssumption DEF Final
<1> QED BY <1>1, <1>2

(* Back in a caller the start rule is not at its end. *)
LEMMA CallerGoesOn ==
  ASSUME IInv, pc \in {"run", "catch"}, Leave, Depth # 1
  PROVE  pc' = "run" /\ ~Final(node')
<1>1. Depth \in Nat /\ Depth > 0
  BY InRule
<1>2. Depth \in 2..Depth
  BY <1>1
<1>3. ctx[Depth].invokingState \in Calls(ctx[Depth].rule)
  BY <1>2 DEF IInv, StackFollowsAtn
<1>4. /\ ctx[Depth].invokingState \in Nodes /\ Call(ctx[Depth].invokingState)
  <2>1. ctx[Depth].rule \in Rules
    BY InRule DEF Frame
  <2> QED BY <1>3, <2>1 DEF Calls, callsOf
<1> QED BY <1>4, FinalFacts DEF Leave, Follow

-----------------------------------------------------------------------------
(* What is expected, when the rule cannot end here. *)
LEMMA ExpectedWithin ==
  ASSUME NEW s, EPSILON \notin nextTokens(s)
  PROVE  Expected(s) = nextTokens(s)
BY DEF Expected

LEMMA EOFIsLast ==
  ASSUME TypeOK
  PROVE  /\ LA(1) = input[cur]
         /\ input[cur] = EOF => cur = Len(input) /\ LA(2) = EOF
         /\ input[cur] # EOF => cur < Len(input) /\ Onward(cur) = cur + 1
<1>1. cur \in Nat /\ Len(input) \in Nat /\ cur <= Len(input)
      /\ (input[cur] = EOF <=> cur = Len(input)) /\ input[Len(input)] = EOF
  BY InputFacts
<1>2. At(cur + 1 - 1) = cur
  BY <1>1 DEF At
<1>3. cur = Len(input) => At(cur + 2 - 1) = Len(input)
  BY <1>1 DEF At
<1> QED BY <1>1, <1>2, <1>3 DEF LA, Onward

(* A token is deleted for another that does not fit, so it is not EOF. *)
LEMMA DeletedIsNotEOF ==
  ASSUME IInv, pc = "run", CanDelete(node),
         \/ Token(node) /\ ~Matches
         \/ Decision(node) /\ ~InSync
  PROVE  input[cur] # EOF
<1>1. node \in Nodes /\ TypeOK
  BY InRule DEF IInv
<1> SUFFICES ASSUME input[cur] = EOF PROVE FALSE
  OBVIOUS
<1>2. LA(1) = EOF /\ LA(2) = EOF
  BY <1>1, EOFIsLast
<1>3. CASE Token(node) /\ ~Matches
  <2>1. nextTokens(node) = {Atn[node].token} /\ Atn[node].token # EPSILON
    BY <1>1, <1>3, LookAssumption, GrammarAssumption
  <2>2. Expected(node) = {Atn[node].token}
    BY <2>1, ExpectedWithin
  <2> QED BY <1>2, <1>3, <2>2 DEF CanDelete, Matches
<1>4. CASE Decision(node) /\ ~InSync
  <2>1. EPSILON \notin nextTokens(node) /\ EOF \notin nextTokens(node)
    BY <1>2, <1>4 DEF InSync
  <2>2. Expected(node) = nextTokens(node)
    BY <2>1, ExpectedWithin
  <2> QED BY <1>2, <2>1, <2>2 DEF CanDelete
<1> QED BY <1>3, <1>4

-----------------------------------------------------------------------------
(* WholeFileRead *)
(* consumeUntil with nothing to stop at. *)
LEMMA UntilEnd ==
  ASSUME TypeOK, NEW i \in 1..Len(input)
  PROVE  input[Until(i, {})] = EOF
<1> DEFINE good == {j \in i..Len(input) : input[j] = EOF}
           P(j) == /\ input[j] \in {} \union {EOF}
                   /\ \A k \in i..(j - 1) : input[k] \notin {} \union {EOF}
<1>1. Len(input) \in i..Len(input) /\ P(Len(input))
  BY InputFacts
<1>2. Until(i, {}) = CHOOSE j \in i..Len(input) : P(j)
  BY DEF Until
<1>3. P(CHOOSE j \in i..Len(input) : P(j))
  BY <1>1
<1> QED BY <1>2, <1>3

LEMMA EndStep ==
  ASSUME IInv, EndInv, [Next]_vars
  PROVE  EndInv'
<1> USE DEF EndInv
<1>0. TypeOK
  BY DEF IInv
<1>1. CASE Begin
  BY <1>1, EOFAssumption DEF Begin, Final
<1>2. CASE Enter
  <2>1. node \in Nodes /\ Call(node) /\ Calls(Atn[node].callee) # {} /\ Atn[node].callee \in Rules
    <3>1. node \in Nodes /\ Call(node)
      BY <1>2, InRule DEF Enter
    <3> QED BY <3>1, NodeFacts DEF Calls, callsOf
  <2>2. Atn[Entry[Atn[node].callee]].rule = Atn[node].callee /\ Atn[node].callee # StartRule
    BY <2>1, NodeFacts, EOFAssumption
  <2> QED BY <1>2, <2>2 DEF Enter, Final
<1>3. CASE Return
  <2>1. pc = "run" /\ Stop(node) /\ Leave /\ UNCHANGED <<input, cur>>
    BY <1>3 DEF Return
  <2>2. CASE Depth = 1
    <3>1. node \in Nodes /\ Atn[node].rule = ctx[1].rule /\ ctx[1].rule = StartRule
      BY <2>1, <2>2, InRule DEF IInv, StackFollowsAtn
    <3> QED BY <2>1, <3>1 DEF Final
  <2>3. CASE Depth # 1
    BY <2>1, <2>3, CallerGoesOn
  <2> QED BY <2>2, <2>3
<1>4. CASE Match
  <2>1. AtToken /\ LA(1) = Atn[node].token /\ node' = Atn[node].next /\ cur' = Onward(cur)
        /\ pc' = "run" /\ pc = "run" /\ Token(node) /\ UNCHANGED input
    BY <1>4 DEF Match, Next1, AtToken, Matches
  <2>2. node \in Nodes
    BY <2>1, InRule
  <2>3. Final(node') => input[cur] = EOF
    BY <1>0, <2>1, <2>2, FinalFacts, EOFIsLast
  <2> QED BY <2>1, <2>3 DEF Onward
<1>5. CASE Delete
  <2>1. /\ pc = "run" /\ pc' = "run" /\ Token(node) /\ ~Matches /\ CanDelete(node)
        /\ node' = Atn[node].next /\ cur' = Onward(Onward(cur)) /\ UNCHANGED input
    BY <1>5 DEF Delete, Next1, AtToken
  <2>2. node \in Nodes
    BY <2>1, InRule
  <2>3. input[cur] # EOF
    BY <2>1, DeletedIsNotEOF
  <2>4. SUFFICES ASSUME Final(node') PROVE input[Onward(Onward(cur))] = EOF
    BY <2>1
  <2>5. Expected(node) = {EOF}
    <3>1. nextTokens(node) = {EOF} /\ EOF # EPSILON
      BY <2>1, <2>2, <2>4, FinalFacts, LookAssumption DEF EOF, EPSILON
    <3> QED BY <3>1, ExpectedWithin
  <2>6. LA(2) = EOF
    BY <2>1, <2>5 DEF CanDelete
  <2>7. Onward(cur) = cur + 1 /\ cur < Len(input) /\ cur \in Nat /\ Len(input) \in Nat
    BY <1>0, <2>3, EOFIsLast, InputFacts
  <2>8. input[cur + 1] = EOF
    BY <2>6, <2>7 DEF LA, At
  <2> QED BY <2>7, <2>8 DEF Onward
<1>6. CASE Insert
  <2>1. /\ pc = "run" /\ pc' = "run" /\ Token(node) /\ ~Matches
        /\ LA(1) \in nextTokensIn(Atn[node].next, Stack)
        /\ node' = Atn[node].next /\ UNCHANGED <<input, cur>>
    BY <1>6 DEF Insert, Next1, AtToken
  <2>2. node \in Nodes /\ Atn[node].next \in Nodes /\ Atn[Atn[node].next].rule = Atn[node].rule
    BY <2>1, InRule, NodeFacts
  <2>3. ASSUME Final(node') PROVE FALSE
    <3>1. Depth = 1
      <4>1. Depth \in Nat /\ Depth > 0 /\ Atn[node].rule = ctx[Depth].rule /\ Atn[node].rule = StartRule
        BY <2>1, <2>2, <2>3, InRule DEF Final
      <4>2. ASSUME Depth \in 2..Depth PROVE FALSE
        <5>1. ctx[Depth].invokingState \in Calls(ctx[Depth].rule)
          BY <4>2 DEF IInv, StackFollowsAtn
        <5> QED BY <4>1, <5>1, EOFAssumption
      <4> QED BY <4>1, <4>2
    <3>2. Stack = << >>
      BY <3>1 DEF Stack
    <3>3. LA(1) = EOF /\ Atn[node].token = EOF
      BY <2>1, <2>2, <2>3, <3>2, FinalFacts, LookAssumption
    <3> QED BY <2>1, <3>3 DEF Matches
  <2> QED BY <2>1, <2>3
<1>7. CASE Take
  <2>1. node \in Nodes /\ Decision(node)
    BY <1>7, InRule DEF Take, IInv, StateFollowsStack
  <2> QED BY <1>7, <2>1, FinalFacts DEF Take
<1>8. CASE Recover
  <2>1. pc = "catch" /\ Leave
        /\ cur' = Until(IF Stuck THEN Onward(cur) ELSE cur, RecoverySet) /\ UNCHANGED input
    BY <1>8 DEF Recover
  <2>2. CASE Depth = 1
    <3>1. RecoverySet = {}
      BY <2>2 DEF RecoverySet
    <3>2. (IF Stuck THEN Onward(cur) ELSE cur) \in 1..Len(input)
      BY <1>0, InputFacts, OnwardInFile
    <3> QED BY <1>0, <2>1, <3>1, <3>2, UntilEnd
  <2>3. CASE Depth # 1
    BY <2>1, <2>3, CallerGoesOn
  <2> QED BY <2>2, <2>3
<1>9. CASE Mismatch \/ Sync \/ SyncDelete \/ SyncThrow \/ SyncSkip \/ NoViableAlt
  BY <1>9 DEF Mismatch, Sync, SyncDelete, SyncThrow, SyncSkip, NoViableAlt
<1>10. CASE Bail \/ Unwind \/ Again \/ Cancel
  BY <1>10 DEF Bail, Unwind, Again, Cancel
<1>11. CASE Finished \/ UNCHANGED vars
  BY <1>11 DEF Finished, vars
<1> QED BY <1>1, <1>2, <1>3, <1>4, <1>5, <1>6, <1>7, <1>8, <1>9, <1>10, <1>11 DEF Next

(* A parse that returns, by itself or recovering at the outermost rule,    *)
(* has come to the end of the file: nothing of it goes unread.             *)
THEOREM ParserWholeFileRead == Spec => []WholeFileRead
<1>1. Init => EndInv
  BY DEF Init, EndInv
<1>2. IInv /\ EndInv /\ [Next]_vars => EndInv'
  BY EndStep
<1>3. EndInv => WholeFileRead
  BY DEF EndInv, WholeFileRead
<1> QED BY <1>1, <1>2, <1>3, ParserInvariant, PTL DEF Spec

-----------------------------------------------------------------------------
(* DefaultReportsMoveOn *)
LEMMA BelowMore ==
  ASSUME NEW r \in Seq(Complaint), NEW m \in Nat, NEW n \in Nat, m <= n, Below(r, m)
  PROVE  Below(r, n)
<1>1. \A k \in 1..Len(r) : r[k] \in Complaint
  OBVIOUS
<1>2. \A k \in 1..Len(r) : r[k].from \in Nat
  BY <1>1 DEF Complaint
<1> QED BY <1>2 DEF Below

LEMMA RisingAppend ==
  ASSUME NEW r \in Seq(Complaint), NEW c \in Complaint,
         Rising(r), Below(r, c.from), c.from <= c.at
  PROVE  Rising(Append(r, c)) /\ Below(Append(r, c), c.from + 1)
<1> DEFINE a == Append(r, c)
<1>1. /\ Len(r) \in Nat /\ Len(a) = Len(r) + 1 /\ a[Len(r) + 1] = c
      /\ \A k \in 1..Len(r) : a[k] = r[k] /\ r[k] \in Complaint
  OBVIOUS
<1>2. c.from \in Nat /\ \A k \in 1..Len(r) : a[k].from = r[k].from /\ r[k].from \in Nat
  BY <1>1 DEF Complaint
<1> HIDE DEF a
<1>3. \A k \in 1..Len(a) : k = Len(r) + 1 \/ k \in 1..Len(r)
  BY <1>1
<1>4. Below(a, c.from + 1)
  BY <1>1, <1>2, <1>3 DEF Below
<1>5. ASSUME NEW i \in 1..Len(a), NEW j \in 1..Len(a), i < j PROVE a[i].from < a[j].from
  <2>1. i \in 1..Len(r)
    BY <1>1, <1>5
  <2>2. CASE j \in 1..Len(r)
    BY <1>2, <1>5, <2>1, <2>2 DEF Rising
  <2>3. CASE j = Len(r) + 1
    BY <1>1, <1>2, <2>1, <2>3 DEF Below
  <2> QED BY <1>3, <2>2, <2>3
<1>6. \A k \in 1..Len(a) : a[k].from <= a[k].at
  BY <1>1, <1>3 DEF Rising
<1> QED BY <1>4, <1>5, <1>6 DEF Rising, a

LEMMA FurtherOn ==
  ASSUME NEW i \in Nat, NEW j \in Nat, i <= j
  PROVE  i + 1 \in Nat /\ j + 1 \in Nat /\ i + 1 <= j + 1 /\ (i < j => i + 1 <= j)
OBVIOUS

LEMMA ReportsOf ==
  ASSUME TypeOK
  PROVE  /\ out.reports \in Seq(Complaint) /\ cur \in Nat
         /\ out \in Output /\ eh \in Strategy
         /\ \A l : Grown(out, l).reports = out.reports
         /\ \A i : Report(out, i).reports
                     = IF handler = "bail" THEN out.reports ELSE Append(out.reports, Made(i))
         /\ \A i, l : Grown(Report(out, i), l).reports = Report(out, i).reports
BY InputFacts DEF TypeOK, Output, Strategy, Grown, Report, Made

(* What a step that reports unless it is recovering has to show: the token *)
(* is not passed, and the parser goes on recovering or leaves its place.   *)
LEMMA ReportedStep ==
  ASSUME IInv, ReportInv, NEW at \in Nat, cur <= at, UNCHANGED passes, Running, ~Final(node), handler # "bail",
         pc' \in {"run", "decide", "done"}, cur' \in Nat, cur <= cur',
         handler = "default" =>
           /\ out'.reports = IF eh.recovering THEN out.reports ELSE Append(out.reports, Made(at))
           /\ eh'.recovering \/ cur < cur'
  PROVE  ReportInv'
<1>1. handler' = handler
  BY DEF handler
<1>2. /\ out.reports \in Seq(Complaint) /\ cur \in Nat /\ cur + 1 \in Nat
      /\ Made(at) \in Complaint /\ Made(at).from = cur /\ Made(at).at = at
  BY ReportsOf DEF IInv, Made, Complaint
<1>3. ASSUME handler = "default"
      PROVE  Rising(out'.reports) /\ Below(out'.reports, cur + 1) /\ out'.reports \in Seq(Complaint)
  <2>1. Rising(out.reports) /\ Below(out.reports, cur + 1)
        /\ (~eh.recovering => Below(out.reports, cur))
    BY <1>3 DEF ReportInv
  <2>2. CASE eh.recovering
    BY <1>2, <1>3, <2>1, <2>2
  <2>3. CASE ~eh.recovering
    <3>1. out'.reports = Append(out.reports, Made(at))
      BY <1>3, <2>3
    <3>2. /\ Rising(Append(out.reports, Made(at)))
          /\ Below(Append(out.reports, Made(at)), cur + 1)
      BY <1>2, <2>1, <2>3, RisingAppend
    <3>3. Append(out.reports, Made(at)) \in Seq(Complaint)
      BY <1>2
    <3> QED BY <3>1, <3>2, <3>3
  <2> QED BY <2>2, <2>3
<1>4. ASSUME handler = "default"
      PROVE  Below(out'.reports, cur' + 1) /\ (~eh'.recovering => Below(out'.reports, cur'))
  <2>1. cur' + 1 \in Nat /\ cur + 1 <= cur' + 1 /\ (cur < cur' => cur + 1 <= cur')
    BY <1>2, FurtherOn
  <2> QED BY <1>2, <1>3, <1>4, <2>1, BelowMore
<1> QED BY <1>1, <1>3, <1>4 DEF ReportInv

(* All but recover report the token the parser is at. *)
LEMMA ReportedHere ==
  ASSUME IInv, ReportInv, UNCHANGED passes, Running, ~Final(node), handler # "bail",
         pc' \in {"run", "decide", "done"}, cur' \in Nat, cur <= cur',
         handler = "default" =>
           /\ out'.reports = IF eh.recovering THEN out.reports ELSE Append(out.reports, Made(cur))
           /\ eh'.recovering \/ cur < cur'
  PROVE  ReportInv'
<1>1. cur \in Nat /\ cur <= cur
  BY InputFacts DEF IInv
<1> QED BY <1>1, ReportedStep

(* A step that says nothing and stays at the token. *)
LEMMA SilentStep ==
  ASSUME IInv, ReportInv, UNCHANGED <<cur, passes>>, pc' # "start",
         out'.reports = out.reports,
         handler # "bail" => pc' # "unwind" /\ UNCHANGED eh,
         pc' = "catch" => ~Final(node') /\ cur <= mark'.offending,
         Running' /\ ~Final(node') => pc = "start" \/ (Running /\ ~Final(node))
  PROVE  ReportInv'
<1>1. handler' = handler
  BY DEF handler
<1>2. cur \in Nat
  BY ReportsOf DEF IInv
<1>3. pc = "start" => Below(out.reports, cur)
  BY DEF ReportInv, Below
<1>4. handler' = "default" =>
        /\ Rising(out'.reports)
        /\ Below(out'.reports, cur' + 1)
        /\ Running' /\ ~eh'.recovering /\ ~Final(node') => Below(out'.reports, cur')
  BY <1>1, <1>3 DEF ReportInv
<1> QED BY <1>1, <1>4 DEF ReportInv

LEMMA RunningNode ==
  ASSUME IInv, Running
  PROVE  node \in Nodes /\ (Token(node) \/ Call(node) \/ Decision(node) => ~Final(node))
BY InRule, FinalFacts DEF Running

LEMMA NotesOfDefault ==
  ASSUME TypeOK, handler = "default"
  PROVE  /\ Notes(eh) <=> ~eh.recovering
         /\ Noted(eh).recovering = TRUE
         /\ Ended(Noted(eh)).recovering = FALSE
BY DEF TypeOK, Notes, Noted, Ended, Begun

LEMMA AboutSays ==
  ASSUME TypeOK, NEW i
  PROVE  About(i).offending = i /\ About(i).matchedEOF = mark.matchedEOF
BY DEF TypeOK, About

LEMMA ReportStep ==
  ASSUME IInv, ReportInv, [Next]_vars
  PROVE  ReportInv'
<1>0. TypeOK /\ cur \in Nat /\ Len(input) \in Nat /\ cur <= Len(input)
  BY InputFacts DEF IInv
<1>1. CASE Begin
  BY <1>1, SilentStep DEF Begin, Running
<1>2. CASE Enter
  <2>1. Running /\ ~Final(node)
    BY <1>2, RunningNode DEF Enter, Running
  <2> QED BY <1>2, <2>1, SilentStep DEF Enter
<1>3. CASE Return
  <2>1. pc = "run" /\ Leave /\ UNCHANGED <<cur, eh, out, passes>> /\ Running
    BY <1>3 DEF Return, Running
  <2>2. pc' \in {"run", "done"}
    BY <2>1 DEF Leave
  <2>3. Running' => ~Final(node)
    BY <2>1, FinalIsOutermost DEF Leave, Running
  <2> QED BY <2>1, <2>2, <2>3, SilentStep DEF Running
<1>4. CASE Match
  <2>1. /\ pc = "run" /\ pc' = "run" /\ Token(node) /\ LA(1) = Atn[node].token
        /\ node' = Atn[node].next /\ cur' = Onward(cur) /\ UNCHANGED <<input, passes>>
        /\ out' = Grown(out, Leaves(cur, cur + 1, FALSE)) /\ eh' = Ended(eh)
    BY <1>4 DEF Match, Next1, AtToken, Matches
  <2>2. Running /\ ~Final(node) /\ node \in Nodes
    BY <2>1, RunningNode DEF Running
  <2>3. handler' = handler /\ out'.reports = out.reports /\ out.reports \in Seq(Complaint)
    BY <1>0, <2>1, ReportsOf DEF handler
  <2>4. input[cur] = EOF => Final(node') /\ cur' = cur
    BY <1>0, <2>1, <2>2, FinalFacts, EOFIsLast DEF Onward
  <2>5. input[cur] # EOF => cur' = cur + 1
    BY <2>1 DEF Onward
  <2>6. handler = "default" => Below(out.reports, cur + 1) /\ Rising(out.reports)
    BY DEF ReportInv
  <2>7. handler = "default" => Below(out.reports, cur' + 1)
    <3>1. cur + 1 \in Nat /\ cur' + 1 \in Nat /\ cur + 1 <= cur' + 1
      BY <1>0, <2>4, <2>5
    <3> QED BY <2>3, <2>6, <3>1, BelowMore
  <2>8. handler = "default" => Rising(out'.reports)
    BY <2>3, <2>6
  <2> QED BY <2>1, <2>3, <2>4, <2>5, <2>6, <2>7, <2>8 DEF ReportInv
<1>5. CASE Delete
  <2>1. /\ pc = "run" /\ pc' = "run" /\ Token(node) /\ ~Matches /\ CanDelete(node)
        /\ handler # "bail" /\ cur' = Onward(Onward(cur)) /\ UNCHANGED <<input, passes>>
        /\ out' = Grown(DeletedOut(eh), Leaves(Onward(cur), Onward(cur) + 1, FALSE))
        /\ eh' = Ended(Noted(eh))
    BY <1>5 DEF Delete, Next1, AtToken
  <2>2. Running /\ ~Final(node)
    BY <2>1, RunningNode DEF Running
  <2>3. input[cur] # EOF
    BY <2>1, DeletedIsNotEOF
  <2>4. Onward(cur) = cur + 1 /\ Onward(cur) \in 1..Len(input)
    BY <1>0, <2>3, EOFIsLast, InputFacts, OnwardInFile
  <2>5. cur' \in 1..Len(input) /\ cur + 1 <= cur'
    BY <1>0, <2>1, <2>4, OnwardInFile
  <2>6. handler = "default" =>
          out'.reports = IF eh.recovering THEN out.reports ELSE Append(out.reports, Made(cur))
    <3>1. DeletedOut(eh) \in Output
      BY <1>0, DeletedOutType
    <3>2. out'.reports = DeletedOut(eh).reports
      BY <2>1, <3>1 DEF Grown, Output
    <3> QED BY <1>0, <3>2, NotesOfDefault, ReportsOf DEF DeletedOut
  <2>7. cur' \in Nat /\ cur <= cur' /\ cur < cur'
    BY <1>0, <2>5
  <2> QED BY <1>0, <2>1, <2>2, <2>6, <2>7, ReportedHere
<1>6. CASE Insert
  <2>1. /\ pc = "run" /\ pc' = "run" /\ Token(node)
        /\ handler # "bail" /\ UNCHANGED <<input, cur, passes>>
        /\ out' = Grown(IF Notes(eh) THEN Report(out, cur) ELSE out, <<Missing>>)
        /\ eh' = Noted(eh)
    BY <1>6 DEF Insert, Next1, AtToken
  <2>2. Running /\ ~Final(node)
    BY <2>1, RunningNode DEF Running
  <2>3. handler = "default" =>
          /\ out'.reports = IF eh.recovering THEN out.reports ELSE Append(out.reports, Made(cur))
          /\ eh'.recovering
    BY <1>0, <2>1, NotesOfDefault, ReportsOf
  <2> QED BY <1>0, <2>1, <2>2, <2>3, ReportedHere
<1>7. CASE SyncDelete
  <2>1. /\ pc = "run" /\ pc' = "decide" /\ Decision(node) /\ ~InSync /\ CanDelete(node)
        /\ handler # "bail" /\ cur' = Onward(cur) /\ UNCHANGED <<input, passes>>
        /\ out' = DeletedOut(eh) /\ eh' = Ended(Noted(eh))
    BY <1>7 DEF SyncDelete, AtDecision, InSync
  <2>2. Running /\ ~Final(node)
    BY <2>1, RunningNode DEF Running
  <2>3. cur' = cur + 1
    BY <1>0, <2>1, DeletedIsNotEOF, EOFIsLast
  <2>4. handler = "default" =>
          out'.reports = IF eh.recovering THEN out.reports ELSE Append(out.reports, Made(cur))
    BY <1>0, <2>1, NotesOfDefault, ReportsOf DEF DeletedOut
  <2>5. cur' \in Nat /\ cur <= cur' /\ cur < cur'
    BY <1>0, <2>3
  <2> QED BY <1>0, <2>1, <2>2, <2>4, <2>5, ReportedHere
<1>8. CASE SyncSkip
  <2>1. /\ pc = "run" /\ pc' = "decide" /\ Decision(node) /\ handler # "bail" /\ ~eh.recovering
        /\ cur' = Until(cur, Expected(node) \union RecoverySet) /\ UNCHANGED <<input, passes>>
        /\ out' = Grown(Report(out, cur), Leaves(cur, cur', Noted(eh).recovering))
        /\ eh' = Noted(eh)
    BY <1>8 DEF SyncSkip, AtDecision, InSync
  <2>2. Running /\ ~Final(node)
    BY <2>1, RunningNode DEF Running
  <2>3. cur' \in cur..Len(input)
    BY <1>0, <2>1, InputFacts, UntilInFile
  <2>4. handler = "default" => out'.reports = Append(out.reports, Made(cur)) /\ eh'.recovering
    BY <1>0, <2>1, NotesOfDefault, ReportsOf
  <2>5. cur' \in Nat /\ cur <= cur'
    BY <1>0, <2>3
  <2> QED BY <1>0, <2>1, <2>2, <2>4, <2>5, ReportedHere
<1>9. CASE Recover
  <2> DEFINE from == IF Stuck THEN Onward(cur) ELSE cur
             told == IF eh.recovering THEN out ELSE Report(out, mark.offending)
             leaves == (IF Stuck THEN Leaves(cur, cur + 1, TRUE) ELSE << >>)
                         \o Leaves(from, Until(from, RecoverySet), TRUE)
  <2>1. /\ pc = "catch" /\ handler # "bail" /\ Leave /\ UNCHANGED <<input, passes>>
        /\ cur' = Until(from, RecoverySet) /\ eh'.recovering
        /\ out' = [Grown(told, leaves) EXCEPT !.errors = @ \union {<<from, state>>}]
    BY <1>9 DEF Recover
  <2>0. mark.offending \in Nat /\ cur <= mark.offending
    BY <1>0, <2>1 DEF TypeOK, ReportInv
  <2>2. pc' \in {"run", "done"}
    BY <2>1 DEF Leave
  <2>3. from \in 1..Len(input) /\ cur <= from
    BY <1>0, InputFacts, OnwardInFile
  <2>4. cur' \in from..Len(input)
    BY <1>0, <2>1, <2>3, UntilInFile
  <2>5. handler = "default" =>
          out'.reports = IF eh.recovering THEN out.reports
                         ELSE Append(out.reports, Made(mark.offending))
    <3>1. out \in Output /\ told \in Output
      BY <1>0, <2>0, ReportsOf, ReportType
    <3>2. Grown(told, leaves).reports = told.reports
          /\ out'.reports = Grown(told, leaves).reports
      <4> HIDE DEF told, leaves, from
      <4> QED BY <2>1, <3>1 DEF Grown, Output
    <3> QED BY <1>0, <3>2, ReportsOf
  <2>6. cur' \in Nat /\ cur <= cur'
    BY <1>0, <2>1, <2>3, <2>4
  <2>7. Running /\ ~Final(node)
    BY <2>1 DEF Running, ReportInv
  <2> HIDE DEF told, leaves, from
  <2> QED BY <2>0, <2>1, <2>2, <2>5, <2>6, <2>7, ReportedStep
<1>10. CASE Take \/ NoViableAlt
  <2>1. /\ pc = "decide" /\ Decision(node) /\ pc' \in {"run", "catch"}
        /\ pc' = "catch" => node' = node /\ Choice.at >= cur /\ mark' = About(Choice.at)
        /\ UNCHANGED <<cur, eh, out, passes>>
    BY <1>0, <1>10 DEF Take, NoViableAlt, IInv, StateFollowsStack
  <2>3. pc' = "catch" => cur <= mark'.offending
    BY <1>0, <2>1, AboutSays
  <2>2. Running /\ ~Final(node)
    BY <2>1, RunningNode DEF Running
  <2> QED BY <2>1, <2>2, <2>3, SilentStep
<1>11. CASE Mismatch \/ Sync \/ SyncThrow
  <2>1. /\ pc = "run" /\ (Token(node) \/ Decision(node)) /\ pc' # "start" /\ node' = node
        /\ handler # "bail" => pc' # "unwind"
        /\ pc' = "catch" => mark' = About(cur)
        /\ UNCHANGED <<cur, eh, out, passes>>
    BY <1>11 DEF Mismatch, Sync, SyncThrow, AtToken, AtDecision
  <2>3. pc' = "catch" => cur <= mark'.offending
    BY <1>0, <2>1, AboutSays
  <2>2. Running /\ ~Final(node)
    BY <2>1, RunningNode DEF Running
  <2> QED BY <2>1, <2>2, <2>3, SilentStep
<1>12. CASE Bail \/ Unwind \/ Cancel
  <2>1. /\ ~Running' /\ pc' \notin {"start", "catch"} /\ UNCHANGED <<cur, out, passes>>
        /\ handler # "bail" => pc' # "unwind" /\ UNCHANGED eh
    BY <1>12 DEF Bail, Unwind, Cancel, Running, ReportInv
  <2> QED BY <2>1, SilentStep
<1>13. CASE Again
  <2>1. /\ out.reports = << >> /\ pc' = "start" /\ cur' = 1 /\ out'.reports = out.reports
    BY <1>13, <1>0, ReportsOf DEF Again, ReportInv, Output
  <2> QED BY <2>1 DEF ReportInv, Rising, Below, Running
<1>14. CASE Finished \/ UNCHANGED vars
  <2>1. UNCHANGED <<cur, pc, node, eh, out, mark, passes>>
    BY <1>14 DEF Finished, vars
  <2> QED BY <2>1 DEF ReportInv, handler, Running
<1> QED BY <1>1, <1>2, <1>3, <1>4, <1>5, <1>6, <1>7, <1>8, <1>9, <1>10, <1>11, <1>12,
           <1>13, <1>14 DEF Next

(* DefaultErrorStrategy makes no two reports at one place of the parser:   *)
(* after each the cursor moves on before the next, and each is about a     *)
(* token that had not been passed, wherever the prediction failed.         *)
THEOREM ParserDefaultReportsMoveOn == Spec => []DefaultReportsMoveOn
<1>1. Init => ReportInv
  BY DEF Init, Blank, Calm, ReportInv, Rising, Below, Running
<1>2. IInv /\ ReportInv /\ [Next]_vars => ReportInv'
  BY ReportStep
<1>3. ReportInv => DefaultReportsMoveOn
  BY DEF ReportInv, Rising, ReportsMoveOn, DefaultReportsMoveOn
<1> QED BY <1>1, <1>2, <1>3, ParserInvariant, PTL DEF Spec

-----------------------------------------------------------------------------
(* CleanTreeSpansFile *)
(* One more leaf matched. *)
LEMMA CleanMore ==
  ASSUME TypeOK, NEW leaves \in Seq(Leaf), Clean(leaves, FALSE, cur)
  PROVE  LET all == leaves \o Leaves(cur, cur + 1, FALSE)
         IN  /\ Len(all) = cur
             /\ \A k \in 1..Len(all) : all[k] = [at |-> k, error |-> FALSE]
<1> DEFINE more == Leaves(cur, cur + 1, FALSE)
<1>1. cur \in Nat /\ cur + 1 - cur = 1 /\ cur + 1 - 1 = cur /\ Len(leaves) = cur - 1
  BY InputFacts DEF Clean
<1>2. more \in Seq(Leaf) /\ Len(more) = 1 /\ more[1] = [at |-> cur, error |-> FALSE]
  <2>1. more = [k \in 1..1 |-> [at |-> cur + k - 1, error |-> FALSE]]
    BY <1>1 DEF Leaves
  <2>2. more \in Seq(Leaf)
    BY <1>1, OneLeafType
  <2> HIDE DEF more
  <2> QED BY <1>1, <2>1, <2>2
<1> HIDE DEF more
<1>3. /\ Len(leaves \o more) = cur
      /\ \A k \in 1..(cur - 1) : (leaves \o more)[k] = leaves[k]
      /\ (leaves \o more)[cur] = more[1]
  <2>1. Len(leaves) + Len(more) = cur /\ Len(leaves) + 1 = cur /\ cur - Len(leaves) = 1
    BY <1>1, <1>2
  <2>2. cur \in (Len(leaves) + 1)..(Len(leaves) + Len(more))
    BY <1>1, <2>1
  <2>3. (leaves \o more)[cur] = more[cur - Len(leaves)]
    BY <1>2, <2>2, LeafConcat
  <2>4. Len(leaves \o more) = Len(leaves) + Len(more)
    BY <1>2, ConcatProperties
  <2>5. \A k \in 1..Len(leaves) : (leaves \o more)[k] = leaves[k]
    BY <1>2, LeafConcat
  <2> QED BY <1>1, <2>1, <2>3, <2>4, <2>5
<1>4. \A k \in 1..cur : k \in 1..(cur - 1) \/ k = cur
  BY <1>1
<1> QED BY <1>1, <1>2, <1>3, <1>4 DEF Clean, more

(* With a report made nothing is promised any more. *)
LEMMA NoLongerClean ==
  ASSUME out'.reports # << >>
  PROVE  CleanInv'
BY DEF CleanInv

LEMMA AppendIsMore ==
  ASSUME NEW r \in Seq(Complaint), NEW c \in Complaint
  PROVE  Append(r, c) # << >>
<1>1. Len(Append(r, c)) = Len(r) + 1 /\ Len(r) \in Nat
  OBVIOUS
<1> QED BY <1>1

LEMMA DeletedIsReported ==
  ASSUME IInv, CleanInv, handler # "bail"
  PROVE  DeletedOut(eh).reports # << >>
<1>1. DeletedOut(eh).reports
        = IF Notes(eh) THEN Append(out.reports, Made(cur)) ELSE out.reports
  BY ReportsOf DEF IInv, DeletedOut
<1>2. Append(out.reports, Made(cur)) # << >>
  BY ReportsOf, AppendIsMore DEF IInv, Made, Complaint
<1>3. ~Notes(eh) => out.reports # << >>
  BY DEF CleanInv, Notes
<1> QED BY <1>1, <1>2, <1>3

(* A step that neither reads nor reports. *)
LEMMA CleanStays ==
  ASSUME CleanInv, UNCHANGED <<input, cur, passes>>,
         out'.reports = out.reports, out'.leaves = out.leaves,
         mark'.matchedEOF = mark.matchedEOF,
         handler # "bail" => UNCHANGED eh,
         mark.matchedEOF => Final(node'),
         pc' = "run" /\ Final(node') => mark.matchedEOF,
         pc' # "start",
         pc' = "done" => mark.matchedEOF /\ mark'.stop = Len(input)
  PROVE  CleanInv'
BY DEF CleanInv, Clean, handler

(* A repair is reported, unless it is part of one that was. *)
LEMMA RepairIsReported ==
  ASSUME IInv, CleanInv, Delete \/ SyncDelete \/ Insert \/ SyncSkip \/ Recover
  PROVE  out'.reports # << >>
<1>0. /\ TypeOK /\ cur \in 1..Len(input) /\ cur \in Nat
      /\ out \in Output /\ eh \in Strategy /\ out.reports \in Seq(Complaint)
  BY InputFacts, ReportsOf DEF IInv, Output, TypeOK
<1>1. CASE Delete
  <2>1. handler # "bail" /\ out' = Grown(DeletedOut(eh), Leaves(Onward(cur), Onward(cur) + 1, FALSE))
    BY <1>1 DEF Delete
  <2>2. out'.reports = DeletedOut(eh).reports
    BY <1>0, <2>1, DeletedOutType DEF Grown, Output
  <2> QED BY <1>0, <2>1, <2>2, DeletedIsReported
<1>2. CASE SyncDelete
  BY <1>0, <1>2, DeletedIsReported DEF SyncDelete, InSync
<1>3. CASE Insert
  <2>1. /\ handler # "bail"
        /\ out' = Grown(IF Notes(eh) THEN Report(out, cur) ELSE out, <<Missing>>)
    BY <1>3 DEF Insert
  <2>2. out'.reports = IF Notes(eh) THEN Append(out.reports, Made(cur)) ELSE out.reports
    BY <1>0, <2>1, ReportsOf
  <2>3. Append(out.reports, Made(cur)) # << >>
    BY <1>0, AppendIsMore DEF Made, Complaint
  <2>4. ~Notes(eh) => out.reports # << >>
    BY <2>1 DEF CleanInv, Notes
  <2> QED BY <2>2, <2>3, <2>4
<1>4. CASE SyncSkip
  <2>1. handler # "bail" /\ out' = Grown(Report(out, cur), Leaves(cur, cur', Noted(eh).recovering))
    BY <1>4 DEF SyncSkip, InSync
  <2>2. out'.reports = Append(out.reports, Made(cur))
    BY <1>0, <2>1, ReportsOf
  <2> QED BY <1>0, <2>2, AppendIsMore DEF Made, Complaint
<1>5. CASE Recover
  <2> DEFINE from == IF Stuck THEN Onward(cur) ELSE cur
             told == IF eh.recovering THEN out ELSE Report(out, mark.offending)
             leaves == (IF Stuck THEN Leaves(cur, cur + 1, TRUE) ELSE << >>)
                         \o Leaves(from, Until(from, RecoverySet), TRUE)
  <2>1. /\ handler # "bail"
        /\ out' = [Grown(told, leaves) EXCEPT !.errors = @ \union {<<from, state>>}]
    BY <1>5 DEF Recover
  <2>2. told \in Output
    BY <1>0, ReportType DEF TypeOK
  <2>3. told.reports # << >>
    BY <1>0, <2>1, ReportsOf, AppendIsMore DEF CleanInv, Made, Complaint, TypeOK
  <2> HIDE DEF told, leaves, from
  <2>4. out'.reports = told.reports
    BY <2>1, <2>2 DEF Grown, Output
  <2> QED BY <2>3, <2>4
<1> QED BY <1>1, <1>2, <1>3, <1>4, <1>5

LEMMA CleanStep ==
  ASSUME IInv, ReportInv, CleanInv, [Next]_vars
  PROVE  CleanInv'
<1>0. /\ TypeOK /\ cur \in 1..Len(input) /\ cur \in Nat /\ Len(input) \in Nat
      /\ out \in Output /\ eh \in Strategy /\ out.reports \in Seq(Complaint)
      /\ out.leaves \in Seq(Leaf) /\ mark.matchedEOF \in BOOLEAN
  BY InputFacts, ReportsOf DEF IInv, Output, TypeOK
<1>1. CASE Begin
  <2>1. ~Final(node')
    BY <1>1, EOFAssumption DEF Begin, Final
  <2>2. out.reports = << >> /\ ~mark.matchedEOF
    BY <1>1 DEF Begin, ReportInv, CleanInv
  <2> QED BY <1>1, <2>1, <2>2, CleanStays DEF Begin
<1>2. CASE Enter
  <2>1. node \in Nodes /\ Call(node) /\ ~Final(node)
    BY <1>2, RunningNode DEF Enter, Running
  <2>2. Calls(Atn[node].callee) # {}
    BY <2>1, NodeFacts DEF Calls, callsOf
  <2>3. ~Final(node')
    BY <1>2, <2>1, <2>2, NodeFacts, EOFAssumption DEF Enter, Final
  <2> QED BY <1>2, <2>1, <2>3, CleanStays, NoLongerClean DEF Enter, CleanInv
<1>3. CASE Return
  <2>1. /\ pc = "run" /\ Stop(node) /\ Leave /\ UNCHANGED <<input, cur, eh, out, passes>>
        /\ mark' = [mark EXCEPT !.stop = StopToken(cur, mark.matchedEOF)]
    BY <1>3 DEF Return
  <2>2. /\ mark'.matchedEOF = mark.matchedEOF
        /\ mark.matchedEOF => mark'.stop = cur
    BY <1>0, <2>1 DEF StopToken, TypeOK
  <2>3. CASE Depth = 1
    <3>1. node \in Nodes /\ Final(node)
      BY <2>1, <2>3, InRule DEF IInv, StackFollowsAtn, Final
    <3>2. pc' = "done" /\ node' = node
      BY <2>1, <2>3 DEF Leave
    <3>3. out.reports = << >> => mark.matchedEOF /\ cur = Len(input)
      BY <2>1, <3>1 DEF CleanInv
    <3> QED BY <2>1, <2>2, <3>1, <3>2, <3>3, CleanStays, NoLongerClean
  <2>4. CASE Depth # 1
    <3>1. pc' = "run" /\ ~Final(node')
      BY <2>1, <2>4, CallerGoesOn
    <3>2. ~Final(node)
      BY <2>1, <2>4, FinalIsOutermost DEF Running
    <3>3. out.reports = << >> => ~mark.matchedEOF
      BY <3>2 DEF CleanInv
    <3> QED BY <2>1, <2>2, <3>1, <3>3, CleanStays, NoLongerClean
  <2> QED BY <2>3, <2>4
<1>4. CASE Match
  <2>1. /\ pc = "run" /\ pc' = "run" /\ Token(node) /\ LA(1) = Atn[node].token
        /\ node' = Atn[node].next /\ cur' = Onward(cur) /\ UNCHANGED <<input, passes>>
        /\ out' = Grown(out, Leaves(cur, cur + 1, FALSE)) /\ eh' = Ended(eh)
        /\ mark' = [mark EXCEPT !.matchedEOF = @ \/ LA(1) = EOF]
    BY <1>4 DEF Match, Next1, AtToken, Matches
  <2>2. node \in Nodes /\ ~Final(node)
    BY <2>1, RunningNode DEF Running
  <2>3. out'.reports = out.reports /\ out'.leaves = out.leaves \o Leaves(cur, cur + 1, FALSE)
    BY <1>0, <2>1, ReportsOf, TreeOf
  <2>4. ~eh'.recovering
    BY <1>0, <2>1 DEF Ended, Strategy
  <2>5. SUFFICES ASSUME out.reports = << >> PROVE CleanInv'
    BY <2>3, NoLongerClean
  <2>6. mark.matchedEOF = FALSE /\ Clean(out.leaves, FALSE, cur)
    <3>1. mark.matchedEOF = FALSE
      BY <1>0, <2>2, <2>5 DEF CleanInv
    <3> QED BY <2>5, <3>1 DEF CleanInv
  <2>7. /\ Len(out'.leaves) = cur
        /\ \A k \in 1..Len(out'.leaves) : out'.leaves[k] = [at |-> k, error |-> FALSE]
    BY <1>0, <2>3, <2>6, CleanMore
  <2>8. /\ mark'.matchedEOF <=> input[cur] = EOF
        /\ Final(node') <=> input[cur] = EOF
    BY <1>0, <2>1, <2>2, <2>6, FinalFacts, EOFIsLast DEF TypeOK
  <2>9. CASE input[cur] = EOF
    <3>1. cur = Len(input) /\ cur' = cur
      BY <1>0, <2>1, <2>9, EOFIsLast DEF Onward
    <3> QED BY <2>1, <2>4, <2>7, <2>8, <2>9, <3>1 DEF CleanInv, Clean
  <2>10. CASE input[cur] # EOF
    <3>1. cur' - 1 = cur
      BY <1>0, <2>1, <2>10 DEF Onward
    <3> QED BY <2>1, <2>4, <2>7, <2>8, <2>10, <3>1 DEF CleanInv, Clean
  <2> QED BY <2>9, <2>10
<1>5. CASE Delete \/ SyncDelete \/ Insert \/ SyncSkip \/ Recover
  BY <1>5, RepairIsReported, NoLongerClean
<1>6. CASE Take \/ NoViableAlt
  <2>1. /\ pc = "decide" /\ Decision(node) /\ pc' \in {"run", "catch"}
        /\ mark'.matchedEOF = mark.matchedEOF
        /\ UNCHANGED <<input, cur, eh, out, passes>>
    BY <1>0, <1>6, AboutSays DEF Take, NoViableAlt, IInv, StateFollowsStack
  <2>2. ~Final(node) /\ ~Final(node')
    BY <1>6, <2>1, RunningNode, FinalFacts DEF Take, NoViableAlt, Running
  <2> QED BY <2>1, <2>2, CleanStays, NoLongerClean DEF CleanInv
<1>7. CASE Mismatch \/ Sync \/ SyncThrow
  <2>1. /\ pc = "run" /\ (Token(node) \/ Decision(node)) /\ node' = node
        /\ pc' \notin {"run", "start", "done"}
        /\ mark'.matchedEOF = mark.matchedEOF
        /\ UNCHANGED <<input, cur, eh, out, passes>>
    BY <1>0, <1>7, AboutSays DEF Mismatch, Sync, SyncThrow, AtToken, AtDecision
  <2> QED BY <2>1, CleanStays, NoLongerClean DEF CleanInv
<1>8. CASE Bail \/ Unwind \/ Cancel
  <2>1. /\ node' = node /\ pc' \in {"unwind", "canceled"}
        /\ UNCHANGED <<input, cur, out, passes>>
        /\ handler # "bail" => UNCHANGED eh
        /\ mark'.matchedEOF = mark.matchedEOF
    BY <1>8, <1>0 DEF Bail, Unwind, Cancel, TypeOK
  <2> QED BY <2>1, CleanStays, NoLongerClean DEF CleanInv
<1>9. CASE Again
  <2>1. /\ pc' = "start" /\ cur' = 1 /\ ~eh'.recovering /\ ~mark'.matchedEOF
        /\ out'.leaves = << >>
    BY <1>9, <1>0 DEF Again, Calm, Fresh, Output
  <2> QED BY <2>1 DEF CleanInv, Clean
<1>10. CASE Finished \/ UNCHANGED vars
  <2>1. UNCHANGED vars
    BY <1>10 DEF Finished
  <2> QED BY <2>1 DEF vars, CleanInv, Clean, handler
<1> QED BY <1>1, <1>2, <1>3, <1>4, <1>5, <1>6, <1>7, <1>8, <1>9, <1>10 DEF Next

LEMMA InitClean == Init => ReportInv /\ CleanInv
<1>1. Init => ReportInv
  BY DEF Init, Blank, Calm, ReportInv, Rising, Below, Running
<1>2. Init => CleanInv
  BY EOFAssumption DEF Init, Blank, Calm, Fresh, CleanInv, Clean
<1> QED BY <1>1, <1>2

(* A parse that ends with nothing reported has matched every token of the  *)
(* file, EOF included, each once and in order, and repaired none.          *)
THEOREM ParserCleanTreeSpansFile == Spec => []CleanTreeSpansFile
<1>1. Init => ReportInv /\ CleanInv
  BY InitClean
<1>2. IInv /\ ReportInv /\ [Next]_vars => ReportInv'
  BY ReportStep
<1>3. IInv /\ ReportInv /\ CleanInv /\ [Next]_vars => CleanInv'
  BY CleanStep
<1>4. CleanInv => CleanTreeSpansFile
  BY DEF CleanInv, Clean, CleanTreeSpansFile
<1> QED BY <1>1, <1>2, <1>3, <1>4, ParserInvariant, PTL DEF Spec
=============================================================================
