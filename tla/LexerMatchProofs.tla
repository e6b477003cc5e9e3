-------------------------- MODULE LexerMatchProofs --------------------------
(***************************************************************************)
(* The loop of execATN over a DFA that is shared, and grows under it,      *)
(* against the simulation with nothing kept.  A state of the DFA is the    *)
(* set of configurations it was made of and an edge is the reach of its    *)
(* source, whichever text it was added for; so the loop is always in the   *)
(* state the simulation has reached, and keeps the last end of a rule the  *)
(* simulation has met.                                                     *)
(***************************************************************************)
EXTENDS LexerProofs, Lexing

-----------------------------------------------------------------------------
(* Minima and maxima. *)
LEMMA LesserOf ==
  ASSUME NEW a \in Int, NEW b \in Int
  PROVE  Min({a, b}) = IF a <= b THEN a ELSE b
<1> DEFINE m == IF a <= b THEN a ELSE b
<1>1. m \in {a, b} /\ \A y \in {a, b} : m <= y
  OBVIOUS
<1>2. \A x \in {a, b} : (\A y \in {a, b} : x <= y) => x = m
  OBVIOUS
<1> HIDE DEF m
<1> QED BY <1>1, <1>2 DEF Min

LEMMA GreatestIs ==
  ASSUME NEW S \in SUBSET Nat, NEW m \in S, \A y \in S : m >= y
  PROVE  Max(S) = m
<1>1. \A x \in S : (\A y \in S : x >= y) => x = m
  OBVIOUS
<1> QED BY <1>1 DEF Max

LEMMA GreatestOf ==
  ASSUME NEW n \in Nat, NEW S \in SUBSET (0..n), S # {}
  PROVE  Max(S) \in S /\ \A y \in S : Max(S) >= y
<1> DEFINE T == S \union {0}
           m == Max(T)
<1>1. m \in T /\ \A y \in T : m >= y
  <2>1. T \in SUBSET (0..n) /\ 0 \in T
    OBVIOUS
  <2> HIDE DEF T
  <2> QED BY <2>1, GreatestIndex
<1> HIDE DEF m
<1>2. m \in S
  <2>1. PICK y \in S : TRUE
    OBVIOUS
  <2>2. m >= y /\ y \in 0..n
    BY <1>1
  <2>3. CASE m = 0
    BY <2>1, <2>2, <2>3
  <2> QED BY <1>1, <2>3
<1>3. Max(S) = m
  BY <1>1, <1>2, GreatestIs
<1> QED BY <1>1, <1>2, <1>3

-----------------------------------------------------------------------------
(* Recursive functions on all numbers: the runs on 0..m agree. *)
LEMMA RunsAgree ==
  ASSUME NEW step, NEW first, NEW m \in Nat, NEW n \in Nat, NEW f, NEW g,
         IsRun(f, step, first, m), IsRun(g, step, first, n)
  PROVE  \A k \in 0..m : k <= n => f[k] = g[k]
<1> DEFINE Differ == {k \in 0..m : k <= n /\ f[k] # g[k]}
<1>1. SUFFICES ASSUME Differ # {} PROVE FALSE
  OBVIOUS
<1>2. PICK j \in Differ : \A k \in Differ : j <= k
  <2>1. Differ \in SUBSET Nat
    OBVIOUS
  <2> HIDE DEF Differ
  <2> QED BY <1>1, <2>1, LeastOf
<1>3. j # 0
  BY <1>2 DEF IsRun
<1>4. j \in 1..m /\ j \in 1..n /\ j - 1 \in 0..m /\ j - 1 <= n /\ ~(j <= j - 1)
  BY <1>2, <1>3
<1>5. f[j - 1] = g[j - 1]
  BY <1>2, <1>4
<1> QED BY <1>2, <1>4, <1>5 DEF IsRun

Runs(f, step, first) == f[0] = first /\ \A k \in Nat : f[k + 1] = step[k + 1][f[k]]

LEMMA EndlessRun ==
  ASSUME NEW A, NEW step \in [Nat \ {0} -> [A -> A]], NEW first \in A
  PROVE  \E f \in [Nat -> A] : Runs(f, step, first)
<1>1. ASSUME NEW m \in Nat
      PROVE  \E f \in [0..m -> A] : IsRun(f, step, first, m)
  <2> DEFINE part == [k \in 1..m |-> step[k]]
  <2>1. part \in [1..m -> [A -> A]]
    OBVIOUS
  <2>2. \A k \in 1..m : part[k] = step[k]
    OBVIOUS
  <2> HIDE DEF part
  <2>3. PICK f \in [0..m -> A] : IsRun(f, part, first, m)
    BY <2>1, RunExists
  <2>4. IsRun(f, step, first, m)
    BY <2>2, <2>3 DEF IsRun
  <2> QED BY <2>4
<1> DEFINE run(m) == CHOOSE f \in [0..m -> A] : IsRun(f, step, first, m)
           all == [k \in Nat |-> run(k)[k]]
<1>2. \A m \in Nat : run(m) \in [0..m -> A] /\ IsRun(run(m), step, first, m)
  BY <1>1
<1> HIDE DEF run
<1>3. all \in [Nat -> A]
  BY <1>2
<1>4. all[0] = first
  BY <1>2 DEF IsRun
<1>5. ASSUME NEW k \in Nat PROVE all[k + 1] = step[k + 1][all[k]]
  <2>1. IsRun(run(k), step, first, k) /\ IsRun(run(k + 1), step, first, k + 1)
    BY <1>2
  <2>2. run(k)[k] = run(k + 1)[k]
    <3>1. k \in 0..k /\ k <= k + 1 /\ k + 1 \in Nat
      OBVIOUS
    <3> QED BY <2>1, <3>1, RunsAgree
  <2>3. run(k + 1)[k + 1] = step[k + 1][run(k + 1)[k]]
    <3>1. k + 1 \in 1..(k + 1) /\ (k + 1) - 1 = k
      OBVIOUS
    <3> QED BY <2>1, <3>1 DEF IsRun
  <2> QED BY <2>2, <2>3
<1> QED BY <1>3, <1>4, <1>5 DEF Runs

-----------------------------------------------------------------------------
(* The simulation. *)
LEMMA SimulatedFacts ==
  ASSUME NEW mode \in ModeNames, NEW w \in Seq(Char)
  PROVE  /\ \A n \in Nat : Simulated(mode, w)[n] \in Configs \union {<< >>}
         /\ Simulated(mode, w)[0] = StartConfigs(mode)
         /\ \A n \in Nat : Simulated(mode, w)[n] # << >> =>
              Simulated(mode, w)[n + 1] = Reach(Simulated(mode, w)[n], CharAt(w, n + 1))
<1> DEFINE A == Configs \union {<< >>}
           Leads(configs, n) == IF configs = << >> THEN << >> ELSE Reach(configs, CharAt(w, n))
           step == [n \in Nat \ {0} |-> [configs \in A |-> Leads(configs, n)]]
           W(c) == [n \in Nat |-> IF n = 0 THEN StartConfigs(mode)
                                  ELSE IF c[n - 1] = << >> THEN << >> ELSE Reach(c[n - 1], CharAt(w, n))]
           c == CHOOSE c : c = W(c)
<1>1. \A n \in Nat : n > 0 => CharAt(w, n) \in Char \union {EOF}
  BY DEF CharAt
<1>2. StartConfigs(mode) \in A
  BY RulesAssumption
<1>3. ASSUME NEW n \in Nat, n > 0, NEW configs \in A PROVE Leads(configs, n) \in A
  <2>1. CharAt(w, n) \in Char \union {EOF}
    BY <1>1, <1>3
  <2> QED BY <2>1, RulesAssumption
<1>4. step \in [Nat \ {0} -> [A -> A]]
  <2> HIDE DEF A, Leads
  <2> QED BY <1>3
<1>5. PICK f \in [Nat -> A] : Runs(f, step, StartConfigs(mode))
  <2> HIDE DEF A, step
  <2> QED BY <1>2, <1>4, EndlessRun
<1>6. f = W(f)
  <2>1. ASSUME NEW n \in Nat, n # 0 PROVE f[n] = Leads(f[n - 1], n)
    <3>1. n - 1 \in Nat /\ (n - 1) + 1 = n /\ n \in Nat \ {0} /\ f[n - 1] \in A
      BY <2>1
    <3>2. f[n] = step[n][f[n - 1]]
      <4> HIDE DEF step
      <4> QED BY <1>5, <3>1 DEF Runs
    <3> HIDE DEF A, Leads
    <3> QED BY <3>1, <3>2
  <2> QED BY <1>5, <2>1 DEF Runs
<1>7. c = W(c)
  <2> HIDE DEF W
  <2> QED BY <1>6
<1>8. Simulated(mode, w) = c
  BY DEF Simulated
<1> HIDE DEF c
<1>9. c[0] = StartConfigs(mode)
  BY <1>7
<1>10. ASSUME NEW n \in Nat
       PROVE  c[n + 1] = Leads(c[n], n + 1)
  <2>1. n + 1 \in Nat /\ n + 1 # 0 /\ (n + 1) - 1 = n
    OBVIOUS
  <2> QED BY <1>7, <2>1
<1>11. ASSUME NEW n \in Nat PROVE c[n] \in A
  <2> HIDE DEF A
  <2>1. c[0] \in A
    BY <1>2, <1>9
  <2>2. ASSUME NEW k \in 1..n, c[k - 1] \in A PROVE c[k] \in A
    <3>1. k - 1 \in Nat /\ (k - 1) + 1 = k /\ k \in Nat /\ k > 0
      OBVIOUS
    <3>2. c[k] = Leads(c[k - 1], k)
      BY <1>10, <3>1
    <3> HIDE DEF Leads
    <3> QED BY <1>3, <2>2, <3>1, <3>2
  <2>3. \A k \in 0..n : c[k] \in A
    BY <2>1, <2>2, RunStays
  <2> QED BY <2>3
<1> QED BY <1>8, <1>9, <1>10, <1>11

-----------------------------------------------------------------------------
(* An edge of the DFA leads where the reach of its source does, and its    *)
(* start state is that of the mode.                                        *)
EdgeIsReach(d, e) ==
  LET reach == Reach(d.states[e[1]], e[2]) IN
  /\ e[1] \in 1..Len(d.states)
  /\ IF d.edges[e] = NOSTATE THEN reach = << >> ELSE reach = d.states[d.edges[e]]
Faithful(d, mode) ==
  /\ d.s0 # NOSTATE => d.states[d.s0] = StartConfigs(mode)
  /\ \A e \in DOMAIN d.edges : EdgeIsReach(d, e)

(* States added leave it so, *)
LEMMA GrownIsFaithful ==
  ASSUME NEW d, IsDFA(d), NEW e, IsDFA(e), Grown(d, e), e.edges = d.edges, e.s0 = d.s0,
         NEW mode, Faithful(d, mode)
  PROVE  Faithful(e, mode)
<1>1. /\ Len(d.states) \in Nat /\ Len(e.states) \in Nat /\ Len(d.states) <= Len(e.states)
      /\ d.s0 \in 0..Len(d.states) /\ \A x \in DOMAIN d.edges : d.edges[x] \in 0..Len(d.states)
  BY DEF IsDFA, Edges, Grown
<1>2. \A k \in 1..Len(d.states) : e.states[k] = d.states[k]
  BY DEF Grown
<1>3. e.s0 # NOSTATE => e.states[e.s0] = StartConfigs(mode)
  BY <1>1, <1>2 DEF Faithful, NOSTATE
<1>4. ASSUME NEW x \in DOMAIN e.edges PROVE EdgeIsReach(e, x)
  <2>1. EdgeIsReach(d, x) /\ e.edges[x] = d.edges[x] /\ d.edges[x] \in 0..Len(d.states)
    BY <1>1 DEF Faithful
  <2>2. x[1] \in 1..Len(d.states) /\ x[1] \in 1..Len(e.states)
    BY <1>1, <2>1 DEF EdgeIsReach
  <2>3. e.states[x[1]] = d.states[x[1]]
    BY <1>2, <2>2
  <2>4. d.edges[x] # NOSTATE => e.states[d.edges[x]] = d.states[d.edges[x]]
    BY <1>2, <2>1 DEF NOSTATE
  <2> QED BY <2>1, <2>2, <2>3, <2>4 DEF EdgeIsReach
<1> QED BY <1>3, <1>4 DEF Faithful

(* since the state addDFAState gives has the configurations asked for, *)
LEMMA WithStateIsFaithful ==
  ASSUME NEW d, IsDFA(d), NEW configs \in Configs, NEW mode, Faithful(d, mode)
  PROVE  LET added == WithState(d, configs) IN
         /\ Faithful(added.dfa, mode) /\ added.dfa.states[added.number] = configs
         /\ added.dfa.s0 = d.s0
<1> DEFINE added == WithState(d, configs)
<1>1. IsDFA(added.dfa) /\ Grown(d, added.dfa)
  BY WithStateFacts
<1>2. added.dfa.edges = d.edges /\ added.dfa.s0 = d.s0 /\ added.dfa.states[added.number] = configs
  <2>1. CASE Contains(d.states, configs)
    <3>1. \E k \in DOMAIN d.states : d.states[k] = configs
      BY <2>1 DEF Contains, IsDFA
    <3>2. added = [number |-> CHOOSE k \in DOMAIN d.states : d.states[k] = configs, dfa |-> d]
      BY <2>1 DEF WithState
    <3> QED BY <3>1, <3>2
  <2>2. CASE ~Contains(d.states, configs)
    <3>1. added = [number |-> Len(d.states) + 1, dfa |-> [d EXCEPT !.states = Append(@, configs)]]
      BY <2>2 DEF WithState
    <3>2. d.states \in Seq(Configs)
      BY DEF IsDFA
    <3>3. Append(d.states, configs)[Len(d.states) + 1] = configs
      BY <3>2
    <3> QED BY <3>1, <3>3 DEF IsDFA
  <2> QED BY <2>1, <2>2
<1> QED BY <1>1, <1>2, GrownIsFaithful

(* and so does addDFAEdge. *)
LEMMA WithEdgeIsFaithful ==
  ASSUME NEW d, IsDFA(d), NEW target \in 0..Len(d.states), NEW mode, Faithful(d, mode),
         s \in 1..Len(d.states), t \in Char \union {EOF},
         IF target = NOSTATE THEN Reach(d.states[s], t) = << >>
         ELSE Reach(d.states[s], t) = d.states[target]
  PROVE  Faithful(WithEdge(d, target), mode)
<1>1. CASE t \in Wide \union {EOF}
  BY <1>1 DEF WithEdge
<1>2. CASE t \notin Wide \union {EOF}
  <2> DEFINE edges == [e \in DOMAIN d.edges \union {Edge} |-> IF e = Edge THEN target ELSE d.edges[e]]
             e == WithEdge(d, target)
  <2>1. e.s0 = d.s0 /\ e.states = d.states /\ e.edges = edges
    BY <1>2 DEF WithEdge, IsDFA
  <2> HIDE DEF e
  <2>2. ASSUME NEW x \in DOMAIN edges PROVE EdgeIsReach(e, x)
    <3>1. CASE x = Edge
      BY <2>1, <3>1 DEF EdgeIsReach, Edge
    <3>2. CASE x # Edge
      <4>1. x \in DOMAIN d.edges /\ edges[x] = d.edges[x]
        BY <3>2
      <4>2. EdgeIsReach(d, x)
        BY <4>1 DEF Faithful
      <4> HIDE DEF edges
      <4> QED BY <2>1, <4>1, <4>2 DEF EdgeIsReach
    <3> QED BY <3>1, <3>2
  <2> HIDE DEF edges
  <2>3. Faithful(e, mode)
    BY <2>1, <2>2 DEF Faithful
  <2> QED BY <2>3 DEF e
<1> QED BY <1>1, <1>2

-----------------------------------------------------------------------------
(* Where the loop is: after n characters, none of which was the last, in   *)
(* the state made of what the simulation has reached, with the last end of *)
(* a rule on the way.                                                      *)
Sim == Simulated(Mode, Rest)
Kept(n) ==
  LET ends == EndsBy(Sim, n) IN
  IF ends = {} THEN prevAccept.state = NOSTATE
  ELSE /\ prevAccept.state # NOSTATE /\ prevAccept.at.index = IndexAfter(Max(ends))
       /\ AcceptedConfigs = Sim[Max(ends)]
Under ==
  phase = "exec" =>
    \E n \in Nat :
      /\ dfa[Mode].states[s] = Sim[n] /\ cursor.index = IndexAfter(n)
      /\ \A k \in 1..n : ~Over(Sim, Rest, k)
      /\ Kept(n)
AllFaithful == \A m \in ModeNames : Faithful(dfa[m], m)
MatchInv == AllFaithful /\ Under /\ FindsLastEnd

LEMMA RestFacts ==
  ASSUME IInv, DInv
  PROVE  /\ Rest \in Seq(Char) /\ Len(Rest) = Len(Text) - startIndex
         /\ startIndex \in 0..Len(Text) /\ Len(Text) \in Nat
         /\ \A k \in 1..Len(Rest) : Rest[k] = Text[startIndex + k]
         /\ \A n \in Nat : IndexAfter(n) = IF startIndex + n <= Len(Text) THEN startIndex + n ELSE Len(Text)
<1>1. Text \in Seq(Char) /\ Len(Text) \in Nat
  BY TextFacts DEF IInv
<1>2. startIndex \in 0..Len(Text)
  BY <1>1 DEF IInv, DInv, Ranges, Place
<1>3. /\ Rest \in Seq(Char) /\ Len(Rest) = Len(Text) - startIndex
      /\ \A k \in 1..Len(Rest) : Rest[k] = Text[startIndex + k]
  BY <1>1, <1>2 DEF Rest
<1>4. ASSUME NEW n \in Nat
      PROVE  IndexAfter(n) = IF startIndex + n <= Len(Text) THEN startIndex + n ELSE Len(Text)
  <2>1. startIndex + n \in Int /\ Len(Text) \in Int
    BY <1>1, <1>2
  <2> QED BY <2>1, LesserOf DEF IndexAfter
<1> QED BY <1>1, <1>2, <1>3, <1>4

(* What the loop reads next is what the simulation does. *)
LEMMA NextChar ==
  ASSUME IInv, DInv, NEW n \in Nat, cursor.index = IndexAfter(n)
  PROVE  /\ t = CharAt(Rest, n + 1) /\ (t = EOF <=> n + 1 > Len(Rest))
         /\ Onward(cursor).index = IndexAfter(n + 1)
<1>1. Reading /\ cursor.index \in 0..Len(Text)
  BY DEF IInv, Place
<1>2. t = EOF <=> cursor.index = Len(Text)
  BY <1>1, EOFAtEnd DEF t
<1> DEFINE len == Len(Text)
           here == startIndex + n
<1>3. /\ startIndex \in Int /\ len \in Int /\ here \in Int /\ n + 1 \in Nat
      /\ startIndex + (n + 1) = here + 1 /\ Len(Rest) = len - startIndex
      /\ IndexAfter(n) = IF here <= len THEN here ELSE len
      /\ IndexAfter(n + 1) = IF here + 1 <= len THEN here + 1 ELSE len
      /\ n + 1 > Len(Rest) <=> ~(here < len)
  <2>0. startIndex \in 0..Len(Text) /\ Len(Text) \in Nat /\ Len(Rest) = Len(Text) - startIndex
    BY RestFacts
  <2>1. /\ startIndex \in Int /\ len \in Int /\ here \in Int /\ n + 1 \in Nat
        /\ startIndex + (n + 1) = here + 1 /\ Len(Rest) = len - startIndex
    BY <2>0
  <2>2. IndexAfter(n) = IF here <= len THEN here ELSE len
    BY RestFacts
  <2>3. IndexAfter(n + 1) = IF startIndex + (n + 1) <= len THEN startIndex + (n + 1) ELSE len
    BY <2>1, RestFacts
  <2>4. n + 1 > Len(Rest) <=> ~(here < len)
    BY <2>1
  <2> QED BY <2>1, <2>2, <2>3, <2>4
<1>4. CASE here < len
  <2>1. cursor.index = here /\ n + 1 \in 1..Len(Rest) /\ here + 1 <= len
    <3> HIDE DEF here, len
    <3> QED BY <1>3, <1>4
  <2>2. t = Text[startIndex + (n + 1)] /\ t # EOF
    <3>1. t # EOF
      BY <1>2, <1>4, <2>1
    <3>2. t = Text[cursor.index + 1]
      BY <1>4, <2>1 DEF t, LAat
    <3> QED BY <1>3, <2>1, <3>1, <3>2
  <2>3. Rest[n + 1] = Text[startIndex + (n + 1)]
    BY <2>1, RestFacts
  <2>4. Onward(cursor).index = cursor.index + 1
    BY <2>2 DEF Onward, Consumed, t
  <2>5. IndexAfter(n + 1) = here + 1 /\ ~(n + 1 > Len(Rest)) /\ n + 1 <= Len(Rest)
    <3> HIDE DEF here, len
    <3> QED BY <1>3, <1>4, <2>1
  <2> HIDE DEF here, len
  <2> QED BY <2>1, <2>2, <2>3, <2>4, <2>5 DEF CharAt
<1>5. CASE ~(here < len)
  <2>1. cursor.index = len /\ n + 1 > Len(Rest) /\ IndexAfter(n + 1) = len /\ ~(n + 1 <= Len(Rest))
    <3> HIDE DEF here, len
    <3> QED BY <1>3, <1>5
  <2>2. Onward(cursor) = cursor
    BY <1>2, <2>1 DEF Onward, t
  <2> QED BY <1>2, <2>1, <2>2 DEF CharAt
<1> QED BY <1>4, <1>5

(* The ends of rules there are after one more character. *)
LEMMA NextEnd ==
  ASSUME NEW c, NEW n \in Nat
  PROVE  /\ c[n + 1] # << >> /\ IsAccepting(c[n + 1]) =>
              n + 1 \in EndsBy(c, n + 1) /\ Max(EndsBy(c, n + 1)) = n + 1
         /\ ~(c[n + 1] # << >> /\ IsAccepting(c[n + 1])) => EndsBy(c, n + 1) = EndsBy(c, n)
<1>1. EndsBy(c, n + 1) \in SUBSET Nat /\ \A y \in EndsBy(c, n + 1) : n + 1 >= y
  BY DEF EndsBy
<1>2. n + 1 \in 0..(n + 1) /\ \A k \in 0..(n + 1) : k \in 0..n \/ k = n + 1
  OBVIOUS
<1>3. \A k \in 0..n : k \in 0..(n + 1)
  OBVIOUS
<1>4. CASE c[n + 1] # << >> /\ IsAccepting(c[n + 1])
  <2>1. n + 1 \in EndsBy(c, n + 1)
    BY <1>2, <1>4 DEF EndsBy
  <2>2. Max(EndsBy(c, n + 1)) = n + 1
    BY <1>1, <2>1, GreatestIs
  <2> QED BY <1>4, <2>1, <2>2
<1>5. CASE ~(c[n + 1] # << >> /\ IsAccepting(c[n + 1]))
  BY <1>2, <1>3, <1>5 DEF EndsBy
<1> QED BY <1>4, <1>5

(* An edge that leads where the reach does leads the loop to where the     *)
(* simulation gets with the next character, on a DFA that may have grown.  *)
LEMMA FollowFinds ==
  ASSUME IInv, DInv, MatchInv, phase = "exec",
         NEW d, IsDFA(d), Grown(dfa[Mode], d), Faithful(d, Mode), dfa' = [dfa EXCEPT ![Mode] = d],
         NEW target \in 0..Len(d.states), Follow(target, d.states),
         NEW reach, reach = Reach(dfa[Mode].states[s], t),
         IF target = NOSTATE THEN reach = << >> ELSE reach = d.states[target],
         plan' = plan, modes' = modes, startIndex' = startIndex
  PROVE  MatchInv'
<1>1. /\ Mode \in ModeNames /\ DOMAIN dfa = ModeNames /\ IsDFA(dfa[Mode])
      /\ Mode' = Mode /\ Text' = Text
  BY ModeFacts, TextStays DEF Mode
<1>2. Sim' = Sim /\ Rest' = Rest
  BY <1>1 DEF Sim, Rest
<1>3. dfa'[Mode'] = d /\ \A m \in ModeNames : m # Mode => dfa'[m] = dfa[m]
  BY <1>1
<1>4. AllFaithful'
  BY <1>1, <1>3 DEF MatchInv, AllFaithful
<1>5. PICK n \in Nat :
        /\ dfa[Mode].states[s] = Sim[n] /\ cursor.index = IndexAfter(n)
        /\ \A k \in 1..n : ~Over(Sim, Rest, k)
        /\ Kept(n)
  BY DEF MatchInv, Under
<1>6. t = CharAt(Rest, n + 1) /\ (t = EOF <=> n + 1 > Len(Rest)) /\ Onward(cursor).index = IndexAfter(n + 1)
  BY <1>5, NextChar
<1>7. s \in 1..Len(dfa[Mode].states) /\ prevAccept.state \in 0..Len(dfa[Mode].states)
  BY DEF DInv, StatesKnown, Matching
<1>8. dfa[Mode].states[s] \in Configs /\ Sim[n] # << >>
  BY <1>1, <1>5, <1>7, RulesAssumption DEF IsDFA
<1>9. Sim[n + 1] = reach
  <2>1. Rest \in Seq(Char)
    BY RestFacts
  <2>2. Sim[n + 1] = Reach(Sim[n], CharAt(Rest, n + 1))
    BY <1>1, <1>8, <2>1, SimulatedFacts DEF Sim
  <2> QED BY <1>5, <1>6, <2>2
<1>10. prevAccept.state # NOSTATE => d.states[prevAccept.state] = AcceptedConfigs
  <2>1. prevAccept.state # NOSTATE => prevAccept.state \in 1..Len(dfa[Mode].states)
    BY <1>1, <1>7 DEF NOSTATE, IsDFA
  <2> QED BY <2>1 DEF Grown, AcceptedConfigs
<1>11. \A k : IndexAfter(k)' = IndexAfter(k)
  BY <1>1 DEF IndexAfter
<1>12. AcceptedConfigs' = d.states[prevAccept'.state]
  BY <1>3 DEF AcceptedConfigs
<1> DEFINE ends == EndsBy(Sim, n + 1)
<1>13. (prevAccept' = prevAccept /\ ends = EndsBy(Sim, n)) =>
         IF ends = {} THEN prevAccept'.state = NOSTATE
         ELSE /\ prevAccept'.state # NOSTATE /\ prevAccept'.at.index = IndexAfter(Max(ends))
              /\ AcceptedConfigs' = Sim[Max(ends)]
  BY <1>5, <1>10, <1>12 DEF Kept
<1>14. \A k \in 1..((n + 1) - 1) : ~Over(Sim, Rest, k)
  <2>1. (n + 1) - 1 = n
    OBVIOUS
  <2> QED BY <1>5, <2>1
<1> DEFINE KeptNow == IF ends = {} THEN prevAccept'.state = NOSTATE
                      ELSE /\ prevAccept'.state # NOSTATE /\ prevAccept'.at.index = IndexAfter(Max(ends))
                           /\ AcceptedConfigs' = Sim[Max(ends)]
<1>15. KeptNow
  <2>1. CASE target = NOSTATE
    <3>1. prevAccept' = prevAccept /\ Sim[n + 1] = << >>
      BY <1>9, <2>1 DEF Follow
    <3>2. ends = EndsBy(Sim, n)
      BY <3>1, NextEnd
    <3> QED BY <1>13, <3>1, <3>2
  <2>2. CASE target # NOSTATE /\ ~IsAccepting(d.states[target])
    <3>1. prevAccept' = prevAccept /\ Sim[n + 1] = d.states[target]
      BY <1>9, <2>2 DEF Follow
    <3>2. ends = EndsBy(Sim, n)
      BY <2>2, <3>1, NextEnd
    <3> QED BY <1>13, <3>1, <3>2
  <2>3. CASE target # NOSTATE /\ IsAccepting(d.states[target])
    <3>1. /\ prevAccept' = [state |-> target, at |-> Onward(cursor)]
          /\ Sim[n + 1] = d.states[target]
      BY <1>9, <2>3 DEF Follow, Captured
    <3>2. Sim[n + 1] # << >>
      <4>1. target \in 1..Len(d.states)
        BY <2>3 DEF NOSTATE, IsDFA
      <4> QED BY <3>1, <4>1, RulesAssumption DEF IsDFA
    <3>3. n + 1 \in ends /\ Max(ends) = n + 1
      BY <2>3, <3>1, <3>2, NextEnd
    <3>4. AcceptedConfigs' = Sim[n + 1] /\ prevAccept'.at.index = IndexAfter(n + 1)
      BY <1>6, <1>12, <3>1
    <3> QED BY <2>3, <3>1, <3>3, <3>4
  <2> QED BY <2>1, <2>2, <2>3
<1>16. Kept(n + 1)'
  BY <1>2, <1>11, <1>15 DEF Kept
<1>17. n + 1 \in Nat /\ n + 1 > 0
  OBVIOUS
<1>18. ASSUME phase' = "fail", Over(Sim, Rest, n + 1) PROVE MatchInv'
  <2>1. Stops(Sim, Rest, n + 1)
    BY <1>14, <1>17, <1>18 DEF Stops
  <2>2. FindsLastEnd'
    BY <1>2, <1>16, <1>17, <2>1 DEF FindsLastEnd, Kept, Sim
  <2> QED BY <1>4, <1>18, <2>2 DEF MatchInv, Under
<1>19. CASE target = NOSTATE
  BY <1>9, <1>18, <1>19 DEF Follow, Over
<1>20. CASE target # NOSTATE
  <2>1. Sim[n + 1] = d.states[target] /\ Sim[n + 1] # << >>
    <3>1. target \in 1..Len(d.states)
      BY <1>20 DEF NOSTATE, IsDFA
    <3> QED BY <1>9, <1>20, <3>1, RulesAssumption DEF IsDFA
  <2>2. CASE IsAccepting(d.states[target]) /\ t = EOF
    BY <1>6, <1>18, <1>20, <2>1, <2>2 DEF Follow, Over
  <2>3. CASE ~(IsAccepting(d.states[target]) /\ t = EOF)
    <3>1. phase' = "exec" /\ s' = target /\ cursor' = Onward(cursor)
      BY <1>20, <2>3 DEF Follow
    <3>2. ~Over(Sim, Rest, n + 1)
      BY <1>6, <2>1, <2>3 DEF Over
    <3>3. \A k \in 1..(n + 1) : ~Over(Sim, Rest, k)
      <4>1. \A k \in 1..(n + 1) : k \in 1..n \/ k = n + 1
        OBVIOUS
      <4> QED BY <1>5, <3>2, <4>1
    <3>4. dfa'[Mode'].states[s'] = Sim'[n + 1]
      BY <1>2, <1>3, <2>1, <3>1
    <3>5. cursor'.index = IndexAfter(n + 1)'
      BY <1>6, <1>11, <3>1
    <3>6. Under'
      BY <1>2, <1>16, <1>17, <3>3, <3>4, <3>5 DEF Under
    <3>7. FindsLastEnd'
      BY <3>1 DEF FindsLastEnd
    <3> QED BY <1>4, <3>6, <3>7 DEF MatchInv
  <2> QED BY <2>2, <2>3
<1> QED BY <1>19, <1>20

LEMMA ExistingTargetStateFinds ==
  ASSUME IInv, DInv, MatchInv, ExistingTargetState
  PROVE  MatchInv'
<1> DEFINE d == dfa[Mode]
           target == d.edges[Edge]
           reach == Reach(d.states[s], t)
<1>1. /\ phase = "exec" /\ Edge \in DOMAIN d.edges /\ Follow(target, d.states)
      /\ plan' = plan /\ modes' = modes /\ startIndex' = startIndex /\ dfa' = dfa
  BY DEF ExistingTargetState
<1>2. IsDFA(d) /\ Mode \in ModeNames /\ dfa = [m \in ModeNames |-> dfa[m]]
  BY ModeFacts DEF DInv, DFAs
<1>3. target \in 0..Len(d.states) /\ Grown(d, d)
  BY <1>1, <1>2 DEF IsDFA, Edges, Grown
<1>4. dfa' = [dfa EXCEPT ![Mode] = d]
  BY <1>1, <1>2
<1>5. Faithful(d, Mode)
  BY <1>2 DEF MatchInv, AllFaithful
<1>6. IF target = NOSTATE THEN reach = << >> ELSE reach = d.states[target]
  BY <1>1, <1>5 DEF Faithful, EdgeIsReach, Edge
<1> HIDE DEF target, reach
<1>7. reach = Reach(dfa[Mode].states[s], t)
  BY DEF reach
<1> HIDE DEF d
<1>8. Grown(dfa[Mode], d)
  BY <1>3 DEF d
<1> QED BY <1>1, <1>2, <1>3, <1>4, <1>5, <1>6, <1>7, <1>8, FollowFinds

LEMMA ComputeTargetStateFinds ==
  ASSUME IInv, DInv, MatchInv, ComputeTargetState
  PROVE  MatchInv'
<1> DEFINE reach == Reach(dfa[Mode].states[s], t)
           added == IF reach = << >> THEN [number |-> NOSTATE, dfa |-> dfa[Mode]]
                    ELSE WithState(dfa[Mode], reach)
           d == WithEdge(added.dfa, added.number)
<1>1. /\ phase = "exec" /\ dfa' = [dfa EXCEPT ![Mode] = d] /\ Follow(added.number, added.dfa.states)
      /\ plan' = plan /\ modes' = modes /\ startIndex' = startIndex
  BY DEF ComputeTargetState
<1>2. /\ IsDFA(dfa[Mode]) /\ s \in 1..Len(dfa[Mode].states) /\ s \in Nat
      /\ dfa[Mode].states[s] \in Configs /\ Faithful(dfa[Mode], Mode)
  <2>1. s \in 1..Len(dfa[Mode].states)
    BY <1>1 DEF DInv, StatesKnown, Matching
  <2> QED BY <2>1, ModeFacts DEF IsDFA, MatchInv, AllFaithful
<1>3. t \in Char \union {EOF}
  <2>1. Reading /\ cursor.index \in 0..Len(Text)
    BY DEF IInv, Place
  <2> QED BY <2>1, TextFacts DEF t, LAat
<1>4. reach \in Configs \union {<< >>}
  BY <1>2, <1>3, RulesAssumption
<1>5. reach = Reach(dfa[Mode].states[s], t)
  OBVIOUS
<1> HIDE DEF reach
<1>6. /\ IsDFA(added.dfa) /\ Grown(dfa[Mode], added.dfa) /\ Faithful(added.dfa, Mode)
      /\ added.number \in 0..Len(added.dfa.states)
      /\ IF added.number = NOSTATE THEN reach = << >> ELSE reach = added.dfa.states[added.number]
  <2>1. CASE reach = << >>
    <3>1. Grown(dfa[Mode], dfa[Mode])
      BY <1>2 DEF Grown, IsDFA
    <3>2. Len(dfa[Mode].states) \in Nat
      BY <1>2 DEF IsDFA
    <3> QED BY <1>2, <2>1, <3>1, <3>2 DEF NOSTATE
  <2>2. CASE reach # << >>
    <3>1. reach \in Configs /\ added = WithState(dfa[Mode], reach)
      BY <1>4, <2>2
    <3> HIDE DEF added
    <3>2. /\ IsDFA(added.dfa) /\ Grown(dfa[Mode], added.dfa)
          /\ added.number \in 1..Len(added.dfa.states)
      BY <1>2, <3>1, WithStateFacts
    <3>3. Faithful(added.dfa, Mode) /\ added.dfa.states[added.number] = reach
      BY <1>2, <3>1, WithStateIsFaithful
    <3>4. Len(added.dfa.states) \in Nat
      BY <3>2 DEF IsDFA
    <3> QED BY <3>2, <3>3, <3>4 DEF NOSTATE
  <2> QED BY <2>1, <2>2
<1> HIDE DEF added
<1>7. Len(dfa[Mode].states) \in Nat /\ Len(added.dfa.states) \in Nat
      /\ s \in 1..Len(added.dfa.states) /\ added.dfa.states[s] = dfa[Mode].states[s]
  BY <1>2, <1>6 DEF IsDFA, Grown
<1>8. IsDFA(d) /\ d.states = added.dfa.states
  BY <1>2, <1>3, <1>6, WithEdgeFacts
<1>9. Faithful(d, Mode)
  BY <1>3, <1>5, <1>6, <1>7, WithEdgeIsFaithful
<1> HIDE DEF d
<1>10. Grown(dfa[Mode], d)
  BY <1>6, <1>8 DEF Grown
<1>11. /\ Follow(added.number, d.states) /\ added.number \in 0..Len(d.states)
       /\ IF added.number = NOSTATE THEN reach = << >> ELSE reach = d.states[added.number]
  BY <1>1, <1>6, <1>8
<1> QED BY <1>1, <1>5, <1>8, <1>9, <1>10, <1>11, FollowFinds

LEMMA MatchFinds ==
  ASSUME IInv, DInv, MatchInv, Match, IInv', DInv'
  PROVE  MatchInv'
<1>1. /\ phase = "match" /\ phase' = "exec" /\ startIndex' = cursor.index
      /\ plan' = plan /\ cursor' = cursor /\ modes' = modes /\ Text' = Text /\ Mode' = Mode
  BY TextStays DEF Match, Mode
<1>2. PICK start \in {IF dfa[Mode].s0 # NOSTATE THEN [number |-> dfa[Mode].s0, dfa |-> dfa[Mode]]
                      ELSE WithState(dfa[Mode], StartConfigs(Mode))} :
        /\ dfa' = [dfa EXCEPT ![Mode] = [start.dfa EXCEPT !.s0 = start.number]]
        /\ s' = start.number
        /\ prevAccept' = IF IsAccepting(start.dfa.states[start.number])
                         THEN Captured(start.number, cursor) ELSE NoAccept
  BY DEF Match
<1>3. /\ Mode \in ModeNames /\ IsDFA(dfa[Mode]) /\ DOMAIN dfa = ModeNames
      /\ StartConfigs(Mode) \in Configs /\ Faithful(dfa[Mode], Mode)
  BY ModeFacts, RulesAssumption DEF MatchInv, AllFaithful
<1>4. /\ IsDFA(start.dfa) /\ start.number \in 1..Len(start.dfa.states)
      /\ Faithful(start.dfa, Mode) /\ start.dfa.states[start.number] = StartConfigs(Mode)
  <2>1. CASE dfa[Mode].s0 # NOSTATE
    <3>1. start.number = dfa[Mode].s0 /\ start.dfa = dfa[Mode]
      BY <1>2, <2>1
    <3> QED BY <1>3, <2>1, <3>1 DEF IsDFA, NOSTATE, Faithful
  <2>2. CASE dfa[Mode].s0 = NOSTATE
    <3>1. start = WithState(dfa[Mode], StartConfigs(Mode))
      BY <1>2, <2>2
    <3> QED BY <1>3, <3>1, WithStateFacts, WithStateIsFaithful
  <2> QED BY <2>1, <2>2
<1> DEFINE d == [start.dfa EXCEPT !.s0 = start.number]
<1>5. d.states = start.dfa.states /\ d.edges = start.dfa.edges /\ d.s0 = start.number
  BY <1>4 DEF IsDFA
<1>6. dfa' = [dfa EXCEPT ![Mode] = d]
  BY <1>2
<1> HIDE DEF d
<1>7. Faithful(d, Mode)
  BY <1>4, <1>5 DEF Faithful, EdgeIsReach
<1>8. dfa'[Mode] = d /\ \A m \in ModeNames : m # Mode => dfa'[m] = dfa[m]
  BY <1>3, <1>6
<1>9. AllFaithful'
  BY <1>7, <1>8 DEF MatchInv, AllFaithful
<1>10. Sim'[0] = StartConfigs(Mode) /\ dfa'[Mode'].states[s'] = Sim'[0] /\ Sim'[0] # << >>
  <2>1. Rest' \in Seq(Char)
    <3>1. Text \in Seq(Char) /\ Len(Text) \in Nat /\ cursor.index \in 0..Len(Text)
      BY TextFacts DEF IInv, Place
    <3>2. Rest' = SubSeq(Text, cursor.index + 1, Len(Text))
      BY <1>1 DEF Rest
    <3> QED BY <3>1, <3>2
  <2>2. Sim' = Simulated(Mode, Rest')
    BY <1>1 DEF Sim
  <2>3. Sim'[0] = StartConfigs(Mode)
    BY <1>3, <2>1, <2>2, SimulatedFacts
  <2> QED BY <1>1, <1>2, <1>3, <1>4, <1>5, <1>8, <2>3, RulesAssumption
<1>11. IndexAfter(0)' = cursor.index
  <2>1. Reading /\ cursor.index \in 0..Len(Text) /\ Len(Text) \in Nat
    BY TextFacts DEF IInv, Place
  <2>2. IndexAfter(0)' = Min({cursor.index + 0, Len(Text)})
    BY <1>1 DEF IndexAfter
  <2> QED BY <2>1, <2>2, LesserOf
<1>12. Kept(0)'
  <2>1. \A k \in 0..0 : k = 0
    OBVIOUS
  <2>2. CASE IsAccepting(Sim'[0])
    <3>1. EndsBy(Sim', 0) = {0}
      BY <1>10, <2>1, <2>2 DEF EndsBy
    <3>2. Max({0}) = 0
      BY GreatestIs
    <3>3. prevAccept' = [state |-> start.number, at |-> cursor]
      BY <1>2, <1>4, <1>10, <2>2 DEF Captured
    <3>4. AcceptedConfigs' = Sim'[0]
      BY <1>1, <1>2, <1>10, <3>3 DEF AcceptedConfigs
    <3>5. start.number # NOSTATE
      BY <1>4 DEF NOSTATE
    <3> QED BY <1>11, <3>1, <3>2, <3>3, <3>4, <3>5 DEF Kept
  <2>3. CASE ~IsAccepting(Sim'[0])
    <3>1. EndsBy(Sim', 0) = {}
      BY <2>1, <2>3 DEF EndsBy
    <3>2. prevAccept'.state = NOSTATE
      BY <1>2, <1>4, <1>10, <2>3 DEF NoAccept
    <3> QED BY <3>1, <3>2 DEF Kept
  <2> QED BY <2>2, <2>3
<1>13. Under'
  <2>1. \A k \in 1..0 : ~Over(Sim, Rest, k)'
    OBVIOUS
  <2> QED BY <1>1, <1>10, <1>11, <1>12, <2>1 DEF Under
<1>14. FindsLastEnd'
  BY <1>1 DEF FindsLastEnd
<1> QED BY <1>9, <1>13, <1>14 DEF MatchInv

LEMMA InitMatchInv == Init => MatchInv
<1> SUFFICES ASSUME Init PROVE MatchInv
  OBVIOUS
<1>1. phase = "next" /\ \A m \in ModeNames : dfa[m] = NewDFA
  BY DEF Init
<1>2. ASSUME NEW m \in ModeNames PROVE Faithful(NewDFA, m)
  BY DEF Faithful, NewDFA, NOSTATE
<1> QED BY <1>1, <1>2 DEF MatchInv, AllFaithful, Under, FindsLastEnd

LEMMA MatchInvStep == IInv /\ DInv /\ IInv' /\ DInv' /\ MatchInv /\ [Next]_vars => MatchInv'
<1> SUFFICES ASSUME IInv, DInv, IInv', DInv', MatchInv, [Next]_vars PROVE MatchInv'
  OBVIOUS
<1>1. CASE Match
  BY <1>1, MatchFinds
<1>2. CASE ExistingTargetState
  BY <1>2, ExistingTargetStateFinds
<1>3. CASE ComputeTargetState
  BY <1>3, ComputeTargetStateFinds
<1>4. CASE NextToken \/ EmitEOF \/ Accept \/ PopModeThrows \/ EndOfText \/ NoViableAlt \/ NextText
  <2>1. dfa' = dfa /\ phase' \notin {"exec", "fail"}
    BY <1>4 DEF NextToken, EmitEOF, Accept, PopModeThrows, EndOfText, NoViableAlt, NextText, Fresh, Conclude
  <2> QED BY <2>1 DEF MatchInv, AllFaithful, Under, FindsLastEnd
<1>5. CASE Finished \/ UNCHANGED vars
  <2>1. UNCHANGED vars
    BY <1>5 DEF Finished
  <2>2. Text' = Text /\ Mode' = Mode
    BY <2>1 DEF vars, Text, Mode
  <2>3. Rest' = Rest /\ \A k : IndexAfter(k)' = IndexAfter(k)
    BY <2>1, <2>2 DEF vars, Rest, IndexAfter
  <2>4. Sim' = Sim /\ AcceptedConfigs' = AcceptedConfigs
    BY <2>1, <2>2, <2>3 DEF vars, Sim, AcceptedConfigs
  <2>5. \A n : Kept(n)' = Kept(n)
    BY <2>1, <2>3, <2>4 DEF vars, Kept
  <2>6. AllFaithful'
    BY <2>1 DEF vars, MatchInv, AllFaithful
  <2>7. Under'
    BY <2>1, <2>2, <2>3, <2>4, <2>5 DEF vars, MatchInv, Under
  <2>8. FindsLastEnd'
    BY <2>1, <2>2, <2>3, <2>4 DEF vars, MatchInv, FindsLastEnd
  <2> QED BY <2>6, <2>7, <2>8 DEF MatchInv
<1> QED BY <1>1, <1>2, <1>3, <1>4, <1>5 DEF Next

(* Whatever the rules are, whatever was lexed before, and wherever edges   *)
(* are kept or not: the loop over the shared DFA keeps the last end of a   *)
(* rule that the simulation from nothing meets until it stops.             *)
THEOREM LexerFindsLastEnd == Spec => []FindsLastEnd
<1>1. IInv /\ DInv /\ MatchInv /\ [Next]_vars /\ IInv' /\ DInv' => MatchInv'
  BY MatchInvStep
<1>2. MatchInv => FindsLastEnd
  BY DEF MatchInv
<1> QED BY <1>1, <1>2, InitMatchInv, LexerInvariant, LexerDeliveryInvariant, PTL DEF Spec

-----------------------------------------------------------------------------
(* The texts are those of the plan that was chosen. *)
PlanKnown == \A k \in DOMAIN plan : \E p \in Plans : \E j \in DOMAIN p : plan[k] = p[j]

LEMMA InitPlanKnown == Init => PlanKnown
BY DEF Init, PlanKnown

LEMMA PlanKnownStep == IInv /\ PlanKnown /\ [Next]_vars => PlanKnown'
<1> SUFFICES ASSUME IInv, PlanKnown, [Next]_vars PROVE PlanKnown'
  OBVIOUS
<1>1. CASE plan' = plan
  BY <1>1 DEF PlanKnown
<1>2. CASE NextText
  <2>1. plan \in Seq(Source) /\ plan # << >> /\ plan' = Tail(plan)
    BY <1>2 DEF IInv, Reading, NextText
  <2>2. \A k \in DOMAIN plan' : k + 1 \in DOMAIN plan /\ plan'[k] = plan[k + 1]
    BY <2>1
  <2> QED BY <2>2 DEF PlanKnown
<1> QED BY <1>1, <1>2 DEF Next, NextToken, EmitEOF, Match, ExistingTargetState, ComputeTargetState,
           Accept, PopModeThrows, EndOfText, NoViableAlt, Finished, vars

LEMMA RestIsRemainder ==
  ASSUME IInv, DInv, PlanKnown
  PROVE  Rest \in Remainders
<1>1. plan \in Seq(Source) /\ plan # << >> /\ 1 \in DOMAIN plan /\ Text = plan[1].text
  BY DEF IInv, Reading, Text
<1>2. PICK q \in Plans : \E j \in DOMAIN q : plan[1] = q[j]
  BY <1>1 DEF PlanKnown
<1>3. Text \in Seq(Char) /\ Len(Text) \in Nat /\ startIndex \in 0..Len(Text)
  BY TextFacts, RestFacts DEF IInv
<1>4. Rest \in Suffixes(Text)
  <2>1. CASE startIndex = Len(Text)
    <3>1. Rest = << >>
      BY <1>3, <2>1 DEF Rest
    <3> QED BY <3>1 DEF Suffixes
  <2>2. CASE startIndex # Len(Text)
    <3>1. startIndex + 1 \in 1..Len(Text)
      BY <1>3, <2>2
    <3> QED BY <3>1 DEF Suffixes, Rest
  <2> QED BY <2>1, <2>2
<1>5. PICK j \in DOMAIN q : Rest \in Suffixes(q[j].text)
  BY <1>1, <1>2, <1>4
<1>6. Rest \in UNION {Suffixes(q[k].text) : k \in DOMAIN q}
  BY <1>5
<1>7. UNION {Suffixes(q[k].text) : k \in DOMAIN q}
        \in {UNION {Suffixes(p[k].text) : k \in DOMAIN p} : p \in Plans}
  BY <1>2, Zenon
<1> QED BY <1>6, <1>7, Zenon DEF Remainders

LEMMA StopsOnce ==
  ASSUME NEW c, NEW w, NEW m \in Nat, NEW n \in Nat, Stops(c, w, m), Stops(c, w, n)
  PROVE  m = n
<1>1. ~(m < n)
  <2>1. m < n => m \in 1..(n - 1)
    BY DEF Stops
  <2> QED BY <2>1 DEF Stops
<1>2. ~(n < m)
  <2>1. n < m => n \in 1..(m - 1)
    BY DEF Stops
  <2> QED BY <2>1 DEF Stops
<1> QED BY <1>1, <1>2

LEMMA LongestFound == IInv /\ DInv /\ PlanKnown /\ FindsLastEnd => LongestMatch
<1> SUFFICES ASSUME IInv, DInv, PlanKnown, FindsLastEnd, phase = "fail"
             PROVE  IF prevAccept.state = NOSTATE THEN Matchless(Mode, Rest)
                    ELSE \E n \in 0..(Len(Rest) + 1) :
                           prevAccept.at.index = IndexAfter(n) /\ Wins(Mode, Rest, n, AcceptedConfigs)
  BY DEF LongestMatch
<1>1. Rest \in Remainders /\ Mode \in ModeNames /\ Len(Rest) \in Nat
  BY RestIsRemainder, ModeFacts, RestFacts
<1>2. PICK n \in 1..(Len(Rest) + 1) :
        /\ Stops(Sim, Rest, n)
        /\ IF EndsBy(Sim, n) = {} THEN Matchless(Mode, Rest)
           ELSE Wins(Mode, Rest, Max(EndsBy(Sim, n)), Sim[Max(EndsBy(Sim, n))])
  BY <1>1, SimulationAssumption DEF Sim
<1>3. PICK m \in Nat :
        /\ Stops(Sim, Rest, m)
        /\ IF EndsBy(Sim, m) = {} THEN prevAccept.state = NOSTATE
           ELSE /\ prevAccept.state # NOSTATE /\ prevAccept.at.index = IndexAfter(Max(EndsBy(Sim, m)))
                /\ AcceptedConfigs = Sim[Max(EndsBy(Sim, m))]
  BY DEF FindsLastEnd, Sim
<1>4. n \in Nat /\ m = n
  BY <1>1, <1>2, <1>3, StopsOnce
<1> DEFINE ends == EndsBy(Sim, n)
<1>5. CASE ends = {}
  BY <1>2, <1>3, <1>4, <1>5
<1>6. CASE ends # {}
  <2>1. ends \in SUBSET (0..n)
    BY DEF EndsBy
  <2>2. Max(ends) \in 0..n
    <3> HIDE DEF ends
    <3> QED BY <1>4, <1>6, <2>1, GreatestOf
  <2>3. Max(ends) \in 0..(Len(Rest) + 1)
    BY <1>1, <1>2, <2>2
  <2>4. /\ prevAccept.state # NOSTATE /\ prevAccept.at.index = IndexAfter(Max(ends))
        /\ Wins(Mode, Rest, Max(ends), AcceptedConfigs)
    BY <1>2, <1>3, <1>4, <1>6
  <2> HIDE DEF ends
  <2> QED BY <2>3, <2>4
<1> QED BY <1>5, <1>6

(* Where the simulation from nothing finds what the rules say, so does the *)
(* lexer, whatever it has lexed before: each match is the longest, and of  *)
(* the first rule, with the commands of that rule.                         *)
THEOREM LexerLongestMatch == Spec => []LongestMatch
<1>1. IInv /\ PlanKnown /\ [Next]_vars => PlanKnown'
  BY PlanKnownStep
<1>2. IInv /\ DInv /\ PlanKnown /\ FindsLastEnd => LongestMatch
  BY LongestFound
<1> QED BY <1>1, <1>2, InitPlanKnown, LexerInvariant, LexerDeliveryInvariant, LexerFindsLastEnd,
           PTL DEF Spec
=============================================================================
