------------------------ MODULE ParserLanguageProofs ------------------------
(***************************************************************************)
(* The parser against the language of its grammar, for every grammar and   *)
(* whatever lookahead and prediction answer, or else given that they       *)
(* advise well.                                                            *)
(*                                                                         *)
(* The parser walks the automaton: as long as nothing is reported, each of *)
(* its steps is a move of it, so that what the rest of the file can be     *)
(* accepted from now it could be accepted from before, back to the start.  *)
(* A valid file is kept on its way by advice that stays on one.            *)
(***************************************************************************)
EXTENDS ParserReportProofs, Linting

-----------------------------------------------------------------------------
(* One step of the automaton, and what it computes from below. *)
Spots(w) == Configurations \X (1..(Len(w) + 1))
Goes(f, w, c, i) ==
  \/ AtEnd(c) /\ i = Len(w) + 1
  \/ /\ Token(c[1]) /\ i <= Len(w) /\ w[i] = Atn[c[1]].token
     /\ f[<<<<Atn[c[1]].next, c[2]>>, i + 1>>]
  \/ \E d \in Moves(c) : f[<<d, i>>]
Step(f, w) == [p \in Spots(w) |-> Goes(f, w, p[1], p[2])]

(* What is accepted at every place from where a step leads to one such. *)
Closed(w) == {f \in [Spots(w) -> BOOLEAN] : \A p \in Spots(w) : Goes(f, w, p[1], p[2]) => f[p]}
Start == <<<<Entry[StartRule], << >>>>, 1>>
Derivable(w) == \A f \in Closed(w) : f[Start]

LEMMA MovesStay ==
  ASSUME NEW c \in Configurations
  PROVE  Moves(c) \subseteq Configurations
<1>1. PICK s \in Nodes, stack \in Seq(Nodes) : c = <<s, stack>>
  BY DEF Configurations
<1>2. CASE Token(s)
  BY <1>1, <1>2 DEF Moves, Token, Call, Decision, Stop, Prec, Epsilon
<1>3. CASE Call(s)
  <2>1. Atn[s].next \in Nodes /\ Entry[Atn[s].callee] \in Nodes
    BY <1>3, GrammarAssumption
  <2>2. <<Atn[s].next>> \o stack \in Seq(Nodes)
    BY <2>1
  <2>3. Moves(c) = {<<Entry[Atn[s].callee], <<Atn[s].next>> \o stack>>}
    BY <1>1, <1>3 DEF Moves, Token, Call, Decision, Stop, Prec, Epsilon
  <2>4. <<Entry[Atn[s].callee], <<Atn[s].next>> \o stack>> \in Nodes \X Seq(Nodes)
    BY <2>1, <2>2, Zenon
  <2> QED BY <2>3, <2>4, Zenon DEF Configurations
<1>4. CASE Decision(s)
  <2>1. \A a \in DOMAIN Atn[s].alts : Atn[s].alts[a] \in Nodes
    BY <1>4, GrammarAssumption
  <2>2. Moves(c) = {<<Atn[s].alts[a], stack>> : a \in DOMAIN Atn[s].alts}
    BY <1>1, <1>4 DEF Moves, Token, Call, Decision, Stop, Prec, Epsilon
  <2> QED BY <2>1, <2>2 DEF Configurations
<1>5. CASE Stop(s)
  <2>1. Moves(c) = IF stack = << >> THEN {} ELSE {<<Head(stack), Tail(stack)>>}
    BY <1>1, <1>5 DEF Moves, Token, Call, Decision, Stop, Prec, Epsilon
  <2>2. stack # << >> => Head(stack) \in Nodes /\ Tail(stack) \in Seq(Nodes)
    OBVIOUS
  <2>3. CASE stack = << >>
    BY <2>1, <2>3
  <2>4. CASE stack # << >>
    <3>1. <<Head(stack), Tail(stack)>> \in Nodes \X Seq(Nodes)
      BY <2>2, <2>4, Zenon
    <3>2. Moves(c) = {<<Head(stack), Tail(stack)>>}
      BY <2>1, <2>4
    <3> QED BY <3>1, <3>2, Zenon DEF Configurations
  <2> QED BY <2>3, <2>4
<1>6. CASE Prec(s) \/ Epsilon(s)
  <2>1. Moves(c) \subseteq {<<Atn[s].next, stack>>}
    BY <1>1, <1>6 DEF Moves, Token, Call, Decision, Stop, Prec, Epsilon
  <2>2. Atn[s].next \in Nodes
    BY <1>6, GrammarAssumption
  <2> QED BY <2>1, <2>2 DEF Configurations
<1> QED BY <1>2, <1>3, <1>4, <1>5, <1>6, GrammarAssumption

(* The more is accepted, the more a step finds accepted. *)
LEMMA GoesMonotone ==
  ASSUME NEW w \in Seq(STRING), NEW f, NEW g, NEW c \in Configurations, NEW i \in 1..(Len(w) + 1),
         \A p \in Spots(w) : f[p] => g[p], Goes(f, w, c, i)
  PROVE  Goes(g, w, c, i)
<1>1. CASE AtEnd(c) /\ i = Len(w) + 1
  BY <1>1 DEF Goes
<1>2. CASE /\ Token(c[1]) /\ i <= Len(w) /\ w[i] = Atn[c[1]].token
           /\ f[<<<<Atn[c[1]].next, c[2]>>, i + 1>>]
  <2>1. <<Atn[c[1]].next, c[2]>> \in Configurations
    BY <1>2, GrammarAssumption DEF Configurations
  <2>2. <<<<Atn[c[1]].next, c[2]>>, i + 1>> \in Spots(w)
    BY <1>2, <2>1 DEF Spots
  <2> QED BY <1>2, <2>2 DEF Goes
<1>3. CASE \E d \in Moves(c) : f[<<d, i>>]
  <2>1. PICK d \in Moves(c) : f[<<d, i>>]
    BY <1>3
  <2>2. <<d, i>> \in Spots(w)
    BY MovesStay DEF Spots
  <2> QED BY <2>1, <2>2 DEF Goes
<1> QED BY <1>1, <1>2, <1>3 DEF Goes

(* The least of what is closed takes steps back as well as forth, *)
LEMMA LeastIsFixed ==
  ASSUME NEW w \in Seq(STRING)
  PROVE  \E f : f = Step(f, w)
<1> DEFINE least == [p \in Spots(w) |-> \A f \in Closed(w) : f[p]]
           after == Step(least, w)
<1>1. ASSUME NEW p \in Spots(w), Goes(least, w, p[1], p[2])
      PROVE  least[p]
  <2>1. p[1] \in Configurations /\ p[2] \in 1..(Len(w) + 1)
    BY DEF Spots
  <2>2. SUFFICES ASSUME NEW f \in Closed(w) PROVE f[p]
    OBVIOUS
  <2>3. \A q \in Spots(w) : least[q] => f[q]
    OBVIOUS
  <2>4. Goes(f, w, p[1], p[2])
    <3> HIDE DEF least
    <3> QED BY <1>1, <2>1, <2>3, GoesMonotone
  <2> QED BY <2>4 DEF Closed
<1>2. after \in Closed(w)
  <2> HIDE DEF least
  <2>1. after \in [Spots(w) -> BOOLEAN]
    BY DEF Step, Goes
  <2>2. \A q \in Spots(w) : after[q] => least[q]
    BY <1>1 DEF Step
  <2>3. ASSUME NEW p \in Spots(w), Goes(after, w, p[1], p[2])
        PROVE  after[p]
    <3>1. p[1] \in Configurations /\ p[2] \in 1..(Len(w) + 1)
      BY DEF Spots
    <3> HIDE DEF after
    <3>2. Goes(least, w, p[1], p[2])
      BY <2>2, <2>3, <3>1, GoesMonotone
    <3> QED BY <3>2 DEF Step, after
  <2> QED BY <2>1, <2>3 DEF Closed
<1>3. ASSUME NEW p \in Spots(w) PROVE least[p] = after[p]
  <2>1. least[p] => after[p]
    BY <1>2
  <2>2. after[p] => least[p]
    <3> HIDE DEF least
    <3> QED BY <1>1 DEF Step
  <2>3. least[p] \in BOOLEAN /\ after[p] \in BOOLEAN
    BY DEF Step, Goes
  <2> QED BY <2>1, <2>2, <2>3
<1>4. least = after
  BY <1>3 DEF Step
<1> QED BY <1>4

(* and so does Accepts, by its definition. *)
LEMMA AcceptsStep ==
  ASSUME NEW w \in Seq(STRING)
  PROVE  Accepts(w) = Step(Accepts(w), w)
<1>1. Accepts(w) = CHOOSE f : f = Step(f, w)
  BY DEF Accepts, Step, Goes, Spots
<1>2. \E f : f = Step(f, w)
  BY LeastIsFixed
<1> QED BY <1>1, <1>2, Zenon

LEMMA AcceptsAsItGoes ==
  ASSUME NEW w \in Seq(STRING), NEW c \in Configurations, NEW i \in 1..(Len(w) + 1)
  PROVE  Accepts(w)[<<c, i>>] <=> Goes(Accepts(w), w, c, i)
<1>1. PICK f : f = Accepts(w)
  OBVIOUS
<1>2. f = Step(f, w)
  BY <1>1, AcceptsStep
<1>3. <<c, i>> \in Spots(w)
  BY DEF Spots
<1>4. f[<<c, i>>] <=> Goes(f, w, c, i)
  BY <1>2, <1>3 DEF Step
<1> QED BY <1>1, <1>4

LEMMA AcceptsIsClosed ==
  ASSUME NEW w \in Seq(STRING)
  PROVE  Accepts(w) \in Closed(w)
<1>1. PICK f : f = Accepts(w)
  OBVIOUS
<1>2. f = Step(f, w)
  BY <1>1, AcceptsStep
<1>3. \A p \in Spots(w) : Goes(f, w, p[1], p[2]) \in BOOLEAN
  BY DEF Goes
<1>4. f \in [Spots(w) -> BOOLEAN]
  BY <1>2, <1>3 DEF Step
<1>5. \A p \in Spots(w) : f[p] = Goes(f, w, p[1], p[2])
  BY <1>2 DEF Step
<1> QED BY <1>1, <1>4, <1>5 DEF Closed

-----------------------------------------------------------------------------
(* A closed set contains whatever a move or a token leads into it from, *)
LEMMA BackOverMove ==
  ASSUME NEW w \in Seq(STRING), NEW f \in Closed(w), NEW c \in Configurations,
         NEW i \in 1..(Len(w) + 1), NEW d \in Moves(c), f[<<d, i>>]
  PROVE  f[<<c, i>>]
<1>1. <<c, i>> \in Spots(w)
  BY DEF Spots
<1>2. Goes(f, w, c, i)
  BY DEF Goes
<1> QED BY <1>1, <1>2 DEF Closed

LEMMA BackOverToken ==
  ASSUME NEW w \in Seq(STRING), NEW f \in Closed(w), NEW s \in Nodes, NEW stack \in Seq(Nodes),
         NEW i \in 1..Len(w), Token(s), w[i] = Atn[s].token,
         f[<<<<Atn[s].next, stack>>, i + 1>>]
  PROVE  f[<<<<s, stack>>, i>>]
<1>1. <<s, stack>> \in Configurations /\ i \in 1..(Len(w) + 1)
  BY DEF Configurations
<1>2. <<<<s, stack>>, i>> \in Spots(w)
  BY <1>1 DEF Spots
<1>3. Goes(f, w, <<s, stack>>, i)
  BY DEF Goes
<1> QED BY <1>2, <1>3 DEF Closed

LEMMA AtTheEnd ==
  ASSUME NEW w \in Seq(STRING), NEW f \in Closed(w), NEW s \in Nodes, Stop(s)
  PROVE  f[<<<<s, << >>>>, Len(w) + 1>>]
<1>1. <<s, << >>>> \in Configurations /\ Len(w) + 1 \in 1..(Len(w) + 1)
  <2>1. << >> \in Seq(Nodes)
    OBVIOUS
  <2>2. <<s, << >>>> \in Nodes \X Seq(Nodes)
    BY <2>1, Zenon
  <2> QED BY <2>2 DEF Configurations
<1>2. <<<<s, << >>>>, Len(w) + 1>> \in Spots(w)
  BY <1>1 DEF Spots
<1>3. Goes(f, w, <<s, << >>>>, Len(w) + 1)
  BY DEF Goes, AtEnd
<1> QED BY <1>2, <1>3 DEF Closed

(* The moves of the parser's nodes. *)
LEMMA MovesOf ==
  ASSUME NEW s \in Nodes, NEW stack \in Seq(Nodes)
  PROVE  /\ Token(s) => Moves(<<s, stack>>) = {}
         /\ Call(s) => Moves(<<s, stack>>) = {<<Entry[Atn[s].callee], <<Atn[s].next>> \o stack>>}
         /\ Decision(s) => Moves(<<s, stack>>) = {<<Atn[s].alts[a], stack>> : a \in DOMAIN Atn[s].alts}
         /\ Stop(s) /\ stack # << >> => Moves(<<s, stack>>) = {<<Head(stack), Tail(stack)>>}
<1>1. CASE Token(s)
  BY <1>1 DEF Moves, Token, Call, Decision, Stop, Prec, Epsilon
<1>2. CASE Call(s)
  BY <1>2 DEF Moves, Token, Call, Decision, Stop, Prec, Epsilon
<1>3. CASE Decision(s)
  BY <1>3 DEF Moves, Token, Call, Decision, Stop, Prec, Epsilon
<1>4. CASE Stop(s)
  BY <1>4 DEF Moves, Token, Call, Decision, Stop, Prec, Epsilon
<1> QED BY <1>1, <1>2, <1>3, <1>4

(* What accepts goes on to something that does. *)
LEMMA OnOverMove ==
  ASSUME NEW w \in Seq(STRING), NEW s \in Nodes, NEW stack \in Seq(Nodes),
         NEW i \in 1..(Len(w) + 1), ~Token(s), ~AtEnd(<<s, stack>>),
         Accepts(w)[<<<<s, stack>>, i>>]
  PROVE  \E d \in Moves(<<s, stack>>) : Accepts(w)[<<d, i>>]
<1>1. <<s, stack>> \in Configurations
  BY DEF Configurations
<1>2. Goes(Accepts(w), w, <<s, stack>>, i)
  BY <1>1, AcceptsAsItGoes
<1> QED BY <1>2 DEF Goes

LEMMA OnOverToken ==
  ASSUME NEW w \in Seq(STRING), NEW s \in Nodes, NEW stack \in Seq(Nodes),
         NEW i \in 1..(Len(w) + 1), Token(s),
         Accepts(w)[<<<<s, stack>>, i>>]
  PROVE  /\ i <= Len(w) /\ w[i] = Atn[s].token
         /\ Accepts(w)[<<<<Atn[s].next, stack>>, i + 1>>]
<1>1. <<s, stack>> \in Configurations
  BY DEF Configurations
<1>2. Goes(Accepts(w), w, <<s, stack>>, i)
  BY <1>1, AcceptsAsItGoes
<1>3. ~AtEnd(<<s, stack>>) /\ Moves(<<s, stack>>) = {}
  BY MovesOf DEF AtEnd, Token, Stop
<1> QED BY <1>2, <1>3 DEF Goes

-----------------------------------------------------------------------------
(* The parser as a configuration of the automaton. *)
Here == <<<<node, Stack>>, Read>>
Walking == pc \in {"run", "decide"}

LEMMA StackFacts ==
  ASSUME IInv
  PROVE  /\ Stack \in Seq(Nodes)
         /\ Depth \in Nat \ {0} => Len(Stack) = Depth - 1
         /\ \A j \in DOMAIN Stack : Stack[j] = Follow(Depth + 1 - j)
<1>1. Depth \in Nat
  BY ContextFacts DEF IInv
<1>2. ASSUME NEW j \in 2..Depth PROVE Follow(j) \in Nodes
  <2>1. ctx[j].invokingState \in Calls(ctx[j].rule) /\ ctx[j] \in Frame
    BY <1>1, ContextFacts DEF IInv, StackFollowsAtn
  <2>2. ctx[j].rule \in Rules
    BY <2>1 DEF Frame
  <2>3. ctx[j].invokingState \in Nodes /\ Call(ctx[j].invokingState)
    BY <2>1, <2>2 DEF Calls, callsOf
  <2> QED BY <2>3, NodeFacts DEF Follow
<1>3. \A j \in 1..(Depth - 1) : Follow(Depth + 1 - j) \in Nodes
  BY <1>1, <1>2
<1>4. CASE Depth = 0
  <2>1. Stack = << >>
    BY <1>4 DEF Stack
  <2> QED BY <1>4, <2>1
<1>5. CASE Depth # 0
  <2>1. Depth - 1 \in Nat
    BY <1>1, <1>5
  <2> QED BY <1>1, <1>3, <2>1 DEF Stack
<1> QED BY <1>4, <1>5

LEMMA SameConfiguration ==
  ASSUME UNCHANGED ctx
  PROVE  Stack' = Stack
BY DEF Stack, Depth, Follow

LEMMA CallPushes ==
  ASSUME IInv, Enter
  PROVE  Stack' = <<Atn[node].next>> \o Stack
<1>1. /\ pc = "run" /\ Call(node) /\ node \in Nodes /\ Depth \in Nat \ {0}
      /\ ctx' = Append(ctx, [rule |-> Atn[node].callee, invokingState |-> node])
  BY InRule DEF Enter
<1>2. ctx \in Seq(Frame) /\ Depth = Len(ctx)
  BY DEF IInv, TypeOK, Depth
<1>3. PICK d \in Nat \ {0} : d = Depth
  BY <1>1
<1>4. /\ Depth' = d + 1
      /\ ctx'[d + 1].invokingState = node
      /\ \A j \in 1..d : ctx'[j] = ctx[j]
  BY <1>1, <1>2, <1>3 DEF Depth
<1>5. Follow(d + 1)' = Atn[node].next
  BY <1>4 DEF Follow
<1>6. \A j \in 1..d : Follow(j)' = Follow(j)
  BY <1>4 DEF Follow
<1>7. Stack' = [j \in 1..d |-> Follow(d + 2 - j)']
  <2>1. Depth' - 1 = d /\ \A j \in 1..d : Depth' + 1 - j = d + 2 - j
    BY <1>4
  <2> QED BY <2>1 DEF Stack, Follow
<1>8. PICK st \in Seq(Nodes) : st = Stack
  BY StackFacts
<1>9. Len(st) = d - 1 /\ \A j \in 1..(d - 1) : st[j] = Follow(d + 1 - j)
  BY <1>3, <1>8, StackFacts
<1>10. PICK top \in Nodes : top = Atn[node].next
  BY <1>1, NodeFacts
<1>11. PICK new : new = <<top>> \o st
  OBVIOUS
<1>12. /\ new \in Seq(Nodes) /\ Len(new) = d /\ new[1] = top
       /\ \A j \in 2..d : new[j] = st[j - 1]
  BY <1>9, <1>11
<1>13. new = [j \in 1..d |-> new[j]]
  BY <1>12
<1>14. \A j \in 1..d : new[j] = Follow(d + 2 - j)'
  <2> TAKE j \in 1..d
  <2>1. CASE j = 1
    <3>1. d + 2 - j = d + 1
      BY <2>1
    <3> QED BY <1>5, <1>10, <1>12, <2>1, <3>1
  <2>2. CASE j # 1
    <3>1. j \in 2..d /\ j - 1 \in 1..(d - 1) /\ d + 1 - (j - 1) = d + 2 - j /\ d + 2 - j \in 1..d
      BY <2>2
    <3>2. st[j - 1] = Follow(d + 1 - (j - 1))
      BY <1>9, <3>1
    <3>3. Follow(d + 2 - j)' = Follow(d + 2 - j)
      BY <1>6, <3>1
    <3> QED BY <1>12, <3>1, <3>2, <3>3
  <2> QED BY <2>1, <2>2
<1>15. Stack' = new
  BY <1>7, <1>13, <1>14
<1> QED BY <1>8, <1>10, <1>11, <1>15

LEMMA ReturnPops ==
  ASSUME IInv, Depth > 0, Exit
  PROVE  /\ Depth = 1 => Stack = << >>
         /\ Depth # 1 => Stack # << >> /\ Head(Stack) = Follow(Depth) /\ Stack' = Tail(Stack)
<1>1. Depth \in Nat \ {0} /\ Depth' = Depth - 1 /\ \A j \in 1..(Depth - 1) : ctx'[j] = ctx[j]
  BY ContextFacts, ExitFacts DEF IInv
<1>2. PICK d \in Nat \ {0} : d = Depth
  BY <1>1
<1>3. PICK st \in Seq(Nodes) : st = Stack
  BY StackFacts
<1>4. Len(st) = d - 1 /\ \A j \in 1..(d - 1) : st[j] = Follow(d + 1 - j)
  BY <1>2, <1>3, StackFacts
<1>5. ASSUME d # 1
      PROVE  Stack # << >> /\ Head(Stack) = Follow(Depth) /\ Stack' = Tail(Stack)
  <2>1. Stack' = [j \in 1..(d - 2) |-> Follow(d - j)']
    <3>1. Depth' - 1 = d - 2 /\ \A j \in 1..(d - 2) : Depth' + 1 - j = d - j
      BY <1>1, <1>2
    <3> QED BY <3>1 DEF Stack, Follow
  <2>2. \A j \in 1..(d - 1) : Follow(j)' = Follow(j)
    BY <1>1, <1>2 DEF Follow
  <2>3. st # << >> /\ Head(st) = st[1]
    BY <1>4, <1>5
  <2>4. PICK rest : rest = Tail(st)
    OBVIOUS
  <2>5. rest \in Seq(Nodes) /\ Len(rest) = d - 2 /\ \A j \in 1..(d - 2) : rest[j] = st[j + 1]
    BY <1>4, <1>5, <2>3, <2>4
  <2>6. rest = [j \in 1..(d - 2) |-> rest[j]]
    BY <2>5
  <2>7. \A j \in 1..(d - 2) : rest[j] = Follow(d - j)'
    <3> TAKE j \in 1..(d - 2)
    <3>1. j + 1 \in 1..(d - 1) /\ d + 1 - (j + 1) = d - j /\ d - j \in 1..(d - 1)
      OBVIOUS
    <3>2. st[j + 1] = Follow(d + 1 - (j + 1))
      BY <1>4, <3>1
    <3> QED BY <2>2, <2>5, <3>1, <3>2
  <2>8. st[1] = Follow(d)
    <3>1. 1 \in 1..(d - 1) /\ d + 1 - 1 = d
      BY <1>5
    <3> QED BY <1>4, <3>1
  <2>9. Stack' = rest
    BY <2>1, <2>6, <2>7
  <2> QED BY <1>2, <1>3, <2>3, <2>4, <2>8, <2>9
<1>6. d = 1 => st = << >>
  BY <1>4
<1> QED BY <1>2, <1>3, <1>5, <1>6

(* What has been read of the file. *)
LEMMA ReadFacts ==
  ASSUME IInv
  PROVE  Read \in 1..(Len(input) + 1)
BY InputFacts DEF IInv, TypeOK, Read

LEMMA MatchReads ==
  ASSUME IInv, CleanInv, out.reports = << >>, Match
  PROVE  /\ node \in Nodes /\ Token(node) /\ node' = Atn[node].next
         /\ Read = cur /\ Read' = cur + 1 /\ input[cur] = Atn[node].token
<1>1. /\ pc = "run" /\ Token(node) /\ LA(1) = Atn[node].token
      /\ node' = Atn[node].next /\ cur' = Onward(cur) /\ UNCHANGED input
      /\ mark' = [mark EXCEPT !.matchedEOF = @ \/ LA(1) = EOF]
  BY DEF Match, Next1, AtToken, Matches
<1>2. node \in Nodes /\ ~Final(node)
  BY <1>1, RunningNode DEF Running
<1>3. mark.matchedEOF = FALSE
  BY <1>2 DEF CleanInv, IInv, TypeOK
<1>4. LA(1) = input[cur] /\ (mark'.matchedEOF <=> input[cur] = EOF)
  BY <1>1, <1>3, EOFIsLast DEF IInv, TypeOK
<1>5. input[cur] = EOF => cur = Len(input)
  BY EOFIsLast DEF IInv
<1>6. input[cur] # EOF => Onward(cur) = cur + 1
  BY EOFIsLast DEF IInv
<1>7. Read' = cur + 1
  BY <1>1, <1>4, <1>5, <1>6 DEF Read
<1> QED BY <1>1, <1>2, <1>3, <1>4, <1>7 DEF Read

-----------------------------------------------------------------------------
(* Without a report the parser takes the steps of the automaton. *)
LEMMA Walks ==
  ASSUME IInv, CleanInv, out.reports = << >>,
         Enter \/ Match \/ Sync \/ Take \/ (Return /\ Depth # 1)
  PROVE  /\ Walking /\ Walking' /\ node \in Nodes /\ node' \in Nodes
         /\ UNCHANGED input /\ out'.reports = << >>
         /\ \/ /\ <<node', Stack'>> \in Moves(<<node, Stack>>) \union {<<node, Stack>>}
               /\ Read' = Read
            \/ /\ Token(node) /\ Read \in 1..Len(input) /\ input[Read] = Atn[node].token
               /\ <<node', Stack'>> = <<Atn[node].next, Stack>> /\ Read' = Read + 1
<1>0. node \in Nodes /\ Stack \in Seq(Nodes)
  BY StackFacts DEF IInv, TypeOK
<1>1. CASE Enter
  <2>1. /\ pc = "run" /\ Call(node) /\ node' = Entry[Atn[node].callee]
        /\ UNCHANGED <<input, cur, pc, out, mark>>
    BY <1>1 DEF Enter
  <2>2. <<node', Stack'>> \in Moves(<<node, Stack>>)
    BY <1>0, <1>1, <2>1, CallPushes, MovesOf
  <2>3. node' \in Nodes
    BY <1>0, <2>1, NodeFacts
  <2> QED BY <1>0, <2>1, <2>2, <2>3 DEF Walking, Read
<1>2. CASE Match
  <2>1. pc = "run" /\ UNCHANGED <<input, pc, ctx>> /\ out' = Grown(out, Leaves(cur, cur + 1, FALSE))
    BY <1>2 DEF Match, Next1, AtToken
  <2>2. out'.reports = out.reports
    BY <2>1, ReportsOf DEF IInv, TypeOK, Output
  <2>3. /\ Token(node) /\ node' = Atn[node].next
        /\ Read = cur /\ Read' = cur + 1 /\ input[cur] = Atn[node].token
    BY <1>2, MatchReads
  <2>4. Stack' = Stack
    BY <2>1, SameConfiguration
  <2>5. node' \in Nodes
    BY <1>0, <2>3, NodeFacts
  <2>6. cur \in 1..Len(input)
    BY InputFacts DEF IInv
  <2> QED BY <1>0, <2>1, <2>2, <2>3, <2>4, <2>5, <2>6 DEF Walking
<1>3. CASE Sync
  <2>1. pc = "run" /\ pc' = "decide" /\ UNCHANGED <<input, cur, node, ctx, out, mark>>
    BY <1>3 DEF Sync, AtDecision
  <2>2. Stack' = Stack
    BY <2>1, SameConfiguration
  <2> QED BY <1>0, <2>1, <2>2 DEF Walking, Read
<1>4. CASE Take
  <2>1. PICK a : a \in DOMAIN Atn[node].alts /\ node' = Atn[node].alts[a]
    BY <1>4 DEF Take
  <2>2. /\ pc = "decide" /\ pc' = "run" /\ Decision(node)
        /\ UNCHANGED <<input, cur, ctx, out, mark>>
    BY <1>4 DEF Take, IInv, StateFollowsStack
  <2>3. Stack' = Stack
    BY <2>2, SameConfiguration
  <2>4. Moves(<<node, Stack>>) = {<<Atn[node].alts[b], Stack>> : b \in DOMAIN Atn[node].alts}
    BY <1>0, <2>2, MovesOf
  <2>5. <<node', Stack'>> \in Moves(<<node, Stack>>)
    BY <2>1, <2>3, <2>4, Zenon
  <2>6. node' \in Nodes
    BY <1>0, <2>1, <2>2, NodeFacts
  <2> QED BY <1>0, <2>2, <2>5, <2>6 DEF Walking, Read
<1>5. CASE Return /\ Depth # 1
  <2>1. /\ pc = "run" /\ Stop(node) /\ Leave /\ UNCHANGED <<input, cur, out>>
        /\ mark' = [mark EXCEPT !.stop = StopToken(cur, mark.matchedEOF)]
    BY <1>5 DEF Return
  <2>2. pc' = "run" /\ node' = Follow(Depth) /\ Exit
    BY <1>5, <2>1 DEF Leave
  <2>3. Depth > 0
    BY <2>1, InRule
  <2>4. Stack # << >> /\ Head(Stack) = Follow(Depth) /\ Stack' = Tail(Stack)
    BY <1>5, <2>2, <2>3, ReturnPops
  <2>5. <<node', Stack'>> \in Moves(<<node, Stack>>)
    BY <1>0, <2>1, <2>2, <2>4, MovesOf
  <2>6. node' \in Nodes
    BY <1>0, <2>2, <2>4
  <2>7. mark'.matchedEOF = mark.matchedEOF
    BY <2>1 DEF IInv, TypeOK
  <2> QED BY <1>0, <2>1, <2>2, <2>5, <2>6, <2>7 DEF Walking, Read
<1> QED BY <1>1, <1>2, <1>3, <1>4, <1>5

-----------------------------------------------------------------------------
(* CleanOnlyIfValid *)
(* What can be derived from here, without a report so far, can be derived  *)
(* from the start: by every closed set, hence by the least.                *)
SoundInv ==
  /\ pc = "start" => cur = 1
  /\ out.reports = << >> =>
       \A f \in Closed(input) : pc = "done" \/ (Walking /\ f[Here]) => f[Start]

LEMMA BackToHere ==
  ASSUME IInv, CleanInv, out.reports = << >>,
         Enter \/ Match \/ Sync \/ Take \/ (Return /\ Depth # 1),
         NEW f \in Closed(input), f[Here']
  PROVE  f[Here]
<1>0. input \in Seq(STRING) /\ node \in Nodes /\ Stack \in Seq(Nodes) /\ Read \in 1..(Len(input) + 1)
  BY InputFacts, InputAssumption, StackFacts, ReadFacts DEF IInv, TypeOK
<1>1. <<node, Stack>> \in Configurations
  BY <1>0 DEF Configurations
<1>2. Here' = <<<<node', Stack'>>, Read'>>
  BY DEF Here
<1>3. CASE Here' = Here
  BY <1>3
<1>4. CASE <<node', Stack'>> \in Moves(<<node, Stack>>) /\ Read' = Read
  BY <1>0, <1>1, <1>2, <1>4, BackOverMove DEF Here
<1>5. CASE /\ Token(node) /\ Read \in 1..Len(input) /\ input[Read] = Atn[node].token
           /\ <<node', Stack'>> = <<Atn[node].next, Stack>> /\ Read' = Read + 1
  BY <1>0, <1>2, <1>5, BackOverToken DEF Here
<1> QED BY <1>2, <1>3, <1>4, <1>5, Walks DEF Here

LEMMA SoundStep ==
  ASSUME IInv, ReportInv, CleanInv, SoundInv, [Next]_vars
  PROVE  SoundInv'
<1>0. input \in Seq(STRING) /\ node \in Nodes
  BY InputAssumption DEF IInv, TypeOK
<1>1. CASE Begin
  <2>1. /\ pc = "start" /\ pc' = "run" /\ node' = Entry[StartRule] /\ Len(ctx') = 1
        /\ UNCHANGED <<input, cur, out, mark>>
    BY <1>1 DEF Begin
  <2>2. cur = 1 /\ out.reports = << >> /\ ~mark.matchedEOF
    BY <2>1 DEF SoundInv, ReportInv, CleanInv
  <2>3. Stack' = << >>
    BY <2>1 DEF Stack, Depth
  <2>4. Here' = Start
    BY <2>1, <2>2, <2>3 DEF Here, Start, Read
  <2> QED BY <2>1, <2>4 DEF SoundInv
<1>2. CASE Enter \/ Match \/ Sync \/ Take \/ (Return /\ Depth # 1)
  <2>1. out'.reports = << >> => out.reports = << >>
    <3>1. CASE Match
      <4>1. out'.reports = out.reports
        BY <3>1, ReportsOf DEF Match, IInv, TypeOK, Output
      <4> QED BY <4>1
    <3>2. CASE ~Match
      BY <1>2, <3>2 DEF Enter, Sync, Take, Return
    <3> QED BY <3>1, <3>2
  <2>2. SUFFICES ASSUME out.reports = << >> PROVE SoundInv'
    <3>1. pc' # "start"
      BY <1>2 DEF Enter, Match, Next1, AtToken, Sync, Take, Return, Leave
    <3> QED BY <2>1, <3>1 DEF SoundInv
  <2>3. Walking /\ Walking' /\ input' = input
    BY <1>2, <2>2, Walks
  <2>4. \A f \in Closed(input) : f[Here'] => f[Here]
    BY <1>2, <2>2, BackToHere
  <2>5. \A f \in Closed(input) : f[Here'] => f[Start]
    BY <2>2, <2>3, <2>4 DEF SoundInv
  <2> QED BY <2>3, <2>5 DEF SoundInv, Walking
<1>3. CASE Return /\ Depth = 1
  <2>1. /\ pc = "run" /\ Stop(node) /\ Leave /\ pc' = "done" /\ UNCHANGED <<input, cur, out>>
    BY <1>3 DEF Return, Leave
  <2>2. Stack = << >>
    BY <1>3, <2>1, ReturnPops DEF Leave
  <2>3. Final(node)
    BY <1>3, <2>1, InRule DEF IInv, StackFollowsAtn, Final
  <2>4. out.reports = << >> => Read = Len(input) + 1
    BY <2>1, <2>3 DEF CleanInv, Read
  <2>5. out.reports = << >> => \A f \in Closed(input) : f[Here]
    BY <1>0, <2>1, <2>2, <2>4, AtTheEnd DEF Here
  <2> QED BY <2>1, <2>5 DEF SoundInv, Walking
<1>4. CASE Delete \/ SyncDelete \/ Insert \/ SyncSkip \/ Recover
  <2>1. out'.reports # << >>
    BY <1>4, RepairIsReported
  <2>2. pc' # "start"
    BY <1>4 DEF Delete, Next1, AtToken, SyncDelete, Insert, SyncSkip, Recover, Leave
  <2> QED BY <2>1, <2>2 DEF SoundInv
<1>5. CASE NoViableAlt \/ Mismatch \/ SyncThrow \/ Bail \/ Unwind \/ Cancel
  <2>1. pc' \in {"catch", "unwind", "canceled"}
    BY <1>5 DEF NoViableAlt, Mismatch, SyncThrow, Bail, Unwind, Cancel
  <2> QED BY <2>1 DEF SoundInv, Walking
<1>6. CASE Again
  <2>1. pc' = "start" /\ cur' = 1
    BY <1>6 DEF Again
  <2> QED BY <2>1 DEF SoundInv, Walking
<1>7. CASE Finished \/ UNCHANGED vars
  <2>1. UNCHANGED vars
    BY <1>7 DEF Finished
  <2> QED BY <2>1 DEF vars, SoundInv, Walking, Here, Stack, Depth, Follow, Read
<1> QED BY <1>1, <1>2, <1>3, <1>4, <1>5, <1>6, <1>7 DEF Next
(* Whatever lookahead and prediction answer, a parse that ends without a   *)
(* report, in either pass, has read a file of the language: all that a     *)
(* wrong answer can do is complain.                                        *)
THEOREM ParserCleanOnlyIfValid == Spec => []CleanOnlyIfValid
<1>1. Init => ReportInv /\ CleanInv
  BY InitClean
<1>2. Init => SoundInv
  BY DEF Init, SoundInv, Walking
<1>3. IInv /\ ReportInv /\ [Next]_vars => ReportInv'
  BY ReportStep
<1>4. IInv /\ ReportInv /\ CleanInv /\ [Next]_vars => CleanInv'
  BY CleanStep
<1>5. IInv /\ ReportInv /\ CleanInv /\ SoundInv /\ [Next]_vars => SoundInv'
  BY SoundStep
<1>6. IInv /\ SoundInv => CleanOnlyIfValid
  <2> SUFFICES ASSUME IInv, SoundInv, pc = "done", out.reports = << >>
               PROVE  InLanguage(input)
    BY DEF CleanOnlyIfValid
  <2>1. input \in Seq(STRING)
    BY InputAssumption DEF IInv, TypeOK
  <2>2. \A f \in Closed(input) : f[Start]
    BY DEF SoundInv
  <2> QED BY <2>1, <2>2, AcceptsIsClosed DEF InLanguage, Start
<1> QED BY <1>1, <1>2, <1>3, <1>4, <1>5, <1>6, ParserInvariant, PTL DEF Spec

-----------------------------------------------------------------------------
(* ReportedIffInvalid, BailsOnlyIfInvalid *)
(* A valid file can be gone on with from wherever the parser is in it.     *)
ValidInv ==
  InLanguage(input) =>
    /\ pc \notin {"catch", "unwind", "canceled"}
    /\ out.reports = << >>
    /\ Walking => CanGoOn(node)

LEMMA ValidStep ==
  ASSUME IInv, CleanInv, SoundInv, ValidInv, AdvisedWell, [Next]_vars
  PROVE  ValidInv'
<1>1. input' = input
  BY DEF Next, vars, Begin, Enter, Return, Match, Delete, Insert, Mismatch, Next1, Sync,
         SyncDelete, SyncThrow, SyncSkip, Take, NoViableAlt, Recover, Bail, Unwind, Again,
         Cancel, Finished
<1> SUFFICES ASSUME InLanguage(input) PROVE ValidInv'
  BY <1>1 DEF ValidInv, InLanguage
<1>2. /\ pc \notin {"catch", "unwind", "canceled"} /\ out.reports = << >>
      /\ Walking => Accepts(input)[Here]
  BY DEF ValidInv, CanGoOn, Here
<1>3. SUFFICES pc' \notin {"catch", "unwind", "canceled"} /\ out'.reports = << >>
               /\ (Walking' => Accepts(input)[Here'])
  BY <1>1 DEF ValidInv, CanGoOn, Here
<1>4. /\ input \in Seq(STRING) /\ node \in Nodes /\ Stack \in Seq(Nodes)
      /\ Read \in 1..(Len(input) + 1)
  BY InputAssumption, StackFacts, ReadFacts DEF IInv, TypeOK
<1>5. Here' = <<<<node', Stack'>>, Read'>>
  BY DEF Here
<1>6. CASE Begin
  <2>1. /\ pc = "start" /\ pc' = "run" /\ node' = Entry[StartRule] /\ Len(ctx') = 1
        /\ UNCHANGED <<input, cur, out, mark>>
    BY <1>6 DEF Begin
  <2>2. cur = 1 /\ ~mark.matchedEOF
    BY <1>2, <2>1 DEF SoundInv, CleanInv
  <2>3. Stack' = << >>
    BY <2>1 DEF Stack, Depth
  <2> QED BY <1>2, <1>5, <2>1, <2>2, <2>3 DEF Read, InLanguage
<1>7. CASE Enter
  <2>1. Walking /\ Call(node) /\ ~Token(node) /\ ~AtEnd(<<node, Stack>>)
    BY <1>7 DEF Enter, Walking, AtEnd, Token, Call, Stop
  <2>2. PICK d \in Moves(<<node, Stack>>) : Accepts(input)[<<d, Read>>]
    BY <1>2, <1>4, <2>1, OnOverMove DEF Here
  <2>3. Moves(<<node, Stack>>) = {<<Entry[Atn[node].callee], <<Atn[node].next>> \o Stack>>}
    BY <1>4, <2>1, MovesOf
  <2>4. /\ node' = Entry[Atn[node].callee] /\ Stack' = <<Atn[node].next>> \o Stack
        /\ Read' = Read /\ pc' = "run" /\ out' = out
    BY <1>1, <1>7, CallPushes DEF Enter, Read
  <2> QED BY <1>2, <1>5, <2>2, <2>3, <2>4
<1>8. CASE Return /\ Depth # 1
  <2>1. /\ pc = "run" /\ Stop(node) /\ Leave /\ UNCHANGED <<input, cur, out>>
        /\ mark' = [mark EXCEPT !.stop = StopToken(cur, mark.matchedEOF)]
    BY <1>8 DEF Return
  <2>2. pc' = "run" /\ node' = Follow(Depth) /\ Exit
    BY <1>8, <2>1 DEF Leave
  <2>3. Depth > 0
    BY <2>1, InRule
  <2>4. Stack # << >> /\ Head(Stack) = Follow(Depth) /\ Stack' = Tail(Stack)
    BY <1>8, <2>2, <2>3, ReturnPops
  <2>5. Walking /\ ~Token(node) /\ ~AtEnd(<<node, Stack>>)
    BY <2>1, <2>4 DEF Walking, AtEnd, Token, Stop
  <2>6. PICK d \in Moves(<<node, Stack>>) : Accepts(input)[<<d, Read>>]
    BY <1>2, <1>4, <2>5, OnOverMove DEF Here
  <2>7. Moves(<<node, Stack>>) = {<<Head(Stack), Tail(Stack)>>}
    BY <1>4, <2>1, <2>4, MovesOf
  <2>8. Read' = Read
    BY <2>1 DEF Read, IInv, TypeOK
  <2> QED BY <1>2, <1>5, <2>1, <2>2, <2>4, <2>6, <2>7, <2>8
<1>9. CASE Return /\ Depth = 1
  BY <1>2, <1>9 DEF Return, Leave, Walking
<1>10. ASSUME pc = "run", Token(node)
       PROVE  /\ Read = cur /\ Matches
              /\ Accepts(input)[<<<<Atn[node].next, Stack>>, cur + 1>>]
  <2>1. /\ Read <= Len(input) /\ input[Read] = Atn[node].token
        /\ Accepts(input)[<<<<Atn[node].next, Stack>>, Read + 1>>]
    BY <1>2, <1>4, <1>10, OnOverToken DEF Walking, Here
  <2>2. ~mark.matchedEOF
    BY <1>2, <1>10 DEF CleanInv, Final, Token, Stop
  <2>3. Read = cur /\ cur \in 1..Len(input)
    BY <2>2 DEF Read, IInv, TypeOK
  <2>4. LA(1) = input[cur]
    BY <2>3 DEF LA, At
  <2> QED BY <2>1, <2>3, <2>4 DEF Matches
<1>11. CASE Match
  <2>1. /\ pc = "run" /\ Token(node) /\ node' = Atn[node].next /\ UNCHANGED <<pc, ctx>>
        /\ out' = Grown(out, Leaves(cur, cur + 1, FALSE))
    BY <1>11 DEF Match, Next1, AtToken
  <2>2. out'.reports = << >>
    BY <1>2, <2>1, ReportsOf DEF IInv, TypeOK, Output
  <2>3. Read' = cur + 1
    BY <1>2, <1>11, MatchReads
  <2> QED BY <1>5, <1>10, <2>1, <2>2, <2>3, SameConfiguration
<1>12. CASE Delete \/ Insert \/ Mismatch
  BY <1>10, <1>12 DEF Delete, Insert, Mismatch, AtToken
<1>13. ASSUME pc = "run", Decision(node) PROVE InSync
  BY <1>2, <1>13 DEF AdvisedWell, Walking, Here, CanGoOn
<1>14. CASE Sync
  <2>1. pc = "run" /\ pc' = "decide" /\ UNCHANGED <<input, cur, node, ctx, out, mark>>
    BY <1>14 DEF Sync, AtDecision
  <2>2. Here' = Here
    BY <1>5, <2>1, SameConfiguration DEF Read, Here
  <2> QED BY <1>2, <2>1, <2>2 DEF Walking
<1>15. CASE SyncDelete \/ SyncThrow \/ SyncSkip
  BY <1>13, <1>15 DEF SyncDelete, SyncThrow, SyncSkip, AtDecision
<1>16. CASE Take \/ NoViableAlt
  <2>1. pc = "decide" /\ Decision(node)
    BY <1>16 DEF Take, NoViableAlt, IInv, StateFollowsStack
  <2>2. PICK a \in DOMAIN Atn[node].alts \ {INVALID} :
               Choice.alt = a /\ Accepts(input)[<<<<Atn[node].alts[a], Stack>>, Read>>]
    BY <1>2, <2>1 DEF AdvisedWell, Walking, Here, CanGoOn
  <2>3. Take
    BY <1>16, <2>2 DEF NoViableAlt
  <2>4. /\ node' = Atn[node].alts[a] /\ pc' = "run" /\ UNCHANGED <<input, cur, ctx, out, mark>>
    BY <2>2, <2>3 DEF Take
  <2>5. Here' = <<<<Atn[node].alts[a], Stack>>, Read>>
    BY <1>5, <2>4, SameConfiguration DEF Read
  <2> QED BY <1>2, <2>2, <2>4, <2>5
<1>17. CASE Recover \/ Bail \/ Unwind \/ Again \/ Cancel
  BY <1>2, <1>17 DEF Recover, Bail, Unwind, Again, Cancel
<1>18. CASE Finished \/ UNCHANGED vars
  <2>1. UNCHANGED vars
    BY <1>18 DEF Finished
  <2> QED BY <1>2, <2>1 DEF vars, Walking, Here, Stack, Depth, Follow, Read
<1> QED BY <1>6, <1>7, <1>8, <1>9, <1>11, <1>12, <1>14, <1>15, <1>16, <1>17, <1>18 DEF Next

(* Where what it asks of lookahead and prediction is granted, a file of    *)
(* the language goes through either pass without a report or a throw.      *)
LEMMA ValidThroughout == Spec /\ []AdvisedWell => [](SoundInv /\ ValidInv /\ IInv)
<1>1. Init => ReportInv /\ CleanInv
  BY InitClean
<1>2. Init => SoundInv /\ ValidInv
  BY DEF Init, Blank, SoundInv, ValidInv, Walking
<1>3. IInv /\ ReportInv /\ [Next]_vars => ReportInv'
  BY ReportStep
<1>4. IInv /\ ReportInv /\ CleanInv /\ [Next]_vars => CleanInv'
  BY CleanStep
<1>5. IInv /\ ReportInv /\ CleanInv /\ SoundInv /\ [Next]_vars => SoundInv'
  BY SoundStep
<1>6. IInv /\ CleanInv /\ SoundInv /\ ValidInv /\ AdvisedWell /\ [Next]_vars => ValidInv'
  BY ValidStep
<1> QED BY <1>1, <1>2, <1>3, <1>4, <1>5, <1>6, ParserInvariant, PTL DEF Spec

(* Given advice that stays on a way through a file that has one, the lint  *)
(* is exact: a parse that ends is reported just when the file is invalid.  *)
THEOREM ParserReportedIffInvalid == Spec /\ []AdvisedWell => []ReportedIffInvalid
<1>1. CleanOnlyIfValid /\ ValidInv => ReportedIffInvalid
  BY DEF CleanOnlyIfValid, ValidInv, ReportedIffInvalid
<1> QED BY <1>1, ParserCleanOnlyIfValid, ValidThroughout, PTL

(* Given the same, the SLL pass never gives up a valid file.               *)
THEOREM ParserBailsOnlyIfInvalid == Spec /\ []AdvisedWell => []BailsOnlyIfInvalid
<1>1. ValidInv => BailsOnlyIfInvalid
  BY DEF ValidInv, BailsOnlyIfInvalid
<1> QED BY <1>1, ValidThroughout, PTL
=============================================================================
