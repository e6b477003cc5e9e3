---------------------- MODULE TokenStreamAnswersProofs ----------------------
(***************************************************************************)
(* What the stream answers, for every source, channel and distance: the    *)
(* hidden tokens on either side of a token, and the tokens LT and LB hand  *)
(* out.  An answer is about the state it was given in, so each property    *)
(* follows from the invariant and the one step that gave it.               *)
(***************************************************************************)
EXTENDS TokenStreamProofs, FiniteSetTheorems

(* Every call says in ret which one it was. *)
LEMMA CallOf ==
  ASSUME IInv, Next
  PROVE  /\ ret'.op = "LT" => \E k \in 1..MaxLook : LT(k)
         /\ ret'.op = "LB" => \E k \in 1..MaxLook : LB(k)
         /\ ret'.op = "hiddenRight" => \E i \in 0..Len(source) : HiddenRight(i)
         /\ ret'.op = "hiddenLeft" => \E i \in 0..Len(source) : HiddenLeft(i)
<1>1. source \in Sources
  BY DEF IInv, TypeOK
<1>2. CASE Consume
  BY <1>2 DEF Consume, Return
<1>3. CASE ConsumeEOF
  BY <1>3 DEF ConsumeEOF, Throw
<1>4. CASE \E i \in 0..Len(source) : Seek(i)
  BY <1>4 DEF Seek, Return
<1>5. CASE \E i \in 0..Len(source) : HiddenRight(i)
  <2>1. \E i, out : Throw("hiddenRight", i) \/ Return("hiddenRight", i, out)
    BY <1>5, Zenon DEF HiddenRight
  <2>2. ret'.op = "hiddenRight"
    BY <2>1 DEF Return, Throw
  <2> QED BY <1>5, <2>2
<1>6. CASE \E i \in 0..Len(source) : HiddenLeft(i)
  <2>1. \E i, out : Throw("hiddenLeft", i) \/ Return("hiddenLeft", i, out)
    BY <1>6, Zenon DEF HiddenLeft
  <2>2. ret'.op = "hiddenLeft"
    BY <2>1 DEF Return, Throw
  <2> QED BY <1>6, <2>2
<1>7. CASE \E k \in 1..MaxLook : LT(k)
  <2>1. ret'.op = "LT"
    BY <1>7 DEF LT, Return
  <2> QED BY <1>7, <2>1
<1>8. CASE \E k \in 1..MaxLook : LB(k)
  <2>1. ret'.op = "LB"
    BY <1>8 DEF LB, Return
  <2> QED BY <1>8, <2>1
<1>9. CASE Fill \/ CountOnChannel
  BY <1>9 DEF Fill, CountOnChannel, Return
<1>10. CASE \E src \in Sources : SetTokenSource(src)
  BY <1>10 DEF SetTokenSource, Return
<1> QED BY <1>1, <1>2, <1>3, <1>4, <1>5, <1>6, <1>7, <1>8, <1>9, <1>10, NextCases, Zenon

(* EOF is on the default channel, so only comments are hidden. *)
LEMMA HiddenShows ==
  ASSUME source \in Sources, NEW i \in 0..(Len(source) - 1)
  PROVE  Shows(source[i + 1], DefaultChannel) <=> source[i + 1].channel = DefaultChannel
<1>1. i + 1 \in 1..Len(source) /\ (i + 1 = Len(source) \/ ~IsEOF(source[i + 1]))
  BY SourceFacts
<1>2. source[Len(source)].channel = DefaultChannel
  BY SourcesAssumption DEF WellFormed
<1> QED BY <1>1, <1>2 DEF Shows

LEMMA HiddenOfPrefix ==
  ASSUME source \in Sources, NEW n \in 0..Len(source),
         NEW from \in Nat, NEW to \in Int, to < n
  PROVE  Hidden(Prefix(n), from, to)
           = {i \in from..to : source[i + 1].channel # DefaultChannel}
<1>1. n \in Nat
  BY SourceFacts
<1>2. \A j \in 1..n : Prefix(n).tokens[j] = Stamp(source[j], j - 1)
  BY <1>1, PrefixFields, Zenon
<1>3. ASSUME NEW i \in from..to
      PROVE  Prefix(n).tokens[i + 1].channel = source[i + 1].channel
  <2>1. i + 1 \in 1..n
    BY <1>1, <1>3
  <2>2. Prefix(n).tokens[i + 1] = Stamp(source[i + 1], i + 1 - 1)
    BY <1>2, <2>1
  <2>3. \A t, j : Stamp(t, j).channel = t.channel
    BY DEF Stamp
  <2> QED BY <2>2, <2>3
<1> HIDE DEF Prefix
<1> QED BY <1>3 DEF Hidden

(* getHiddenTokensToRight finds every comment up to the next token of the  *)
(* default channel, fetched before the call or by it.                      *)
LEMMA HiddenRightAnswers ==
  ASSUME IInv, NEW i \in 0..Len(source), HiddenRight(i)
  PROVE  HiddenRightCorrect'
<1>1. source \in Sources /\ Ready \in Stream
  BY ReadyIsStream DEF IInv, TypeOK
<1>2. PICK n \in 0..Len(source), c \in 0..(Len(source) - 1) :
        Ready.b = Prefix(n) /\ Ready.p = c /\ c < n
  BY <1>1, StreamFacts, Zenon
<1>3. n \in Nat /\ n <= Len(source) /\ Len(source) \in Nat
  BY <1>1, SourceFacts
<1>4. Size(Ready.b) = n
  BY <1>2, <1>3, PrefixFields, Zenon
<1>5. CASE i >= n
  BY <1>4, <1>5 DEF HiddenRight, Throw, HiddenRightCorrect
<1>6. CASE ~(i >= n)
  <2> DEFINE to == NextOnChannel(Prefix(n), i + 1, DefaultChannel)
             after == Walked(Prefix(n), i + 1, DefaultChannel)
             out == Hidden(after, i + 1, to)
             hidden(j) == source[j + 1].channel # DefaultChannel
  <2>1. i + 1 \in 0..Len(source) /\ i \in Nat
    BY <1>3, <1>6
  <2>2. PICK w \in 0..Len(source) : after = Prefix(w) /\ to < w
    BY <1>1, <2>1, WalkedOfPrefix
  <2>3. Become([b |-> after, p |-> Ready.p]) /\ Return("hiddenRight", i, out)
    BY <1>2, <1>4, <1>6 DEF HiddenRight
  <2>4. /\ to \in 0..(Len(source) - 1)
        /\ Shows(source[to + 1], DefaultChannel)
        /\ i + 1 < Len(source) => /\ i + 1 <= to
                                  /\ \A m \in (i + 1)..(to - 1) : ~Shows(source[m + 1], DefaultChannel)
        /\ i + 1 = Len(source) => to = Len(source) - 1
    BY <1>1, <2>1, NextOnChannelOfPrefix
  <2> HIDE DEF to, after
  <2>5. out = {k \in (i + 1)..to : hidden(k)}
    <3>1. Hidden(Prefix(w), i + 1, to) = {k \in (i + 1)..to : hidden(k)}
      BY <1>1, <2>1, <2>2, <2>4, HiddenOfPrefix
    <3> QED BY <2>2, <3>1
  <2>6. source' = source /\ ret'.op = "hiddenRight" /\ ret'.arg = i /\ ret'.out = out
    BY <2>3 DEF Become, Return
  <2> HIDE DEF out
  <2>7. \A j \in 0..(Len(source) - 1) : Shows(source[j + 1], DefaultChannel) <=> ~hidden(j)
    BY <1>1, HiddenShows
  <2>8. ASSUME NEW k \in 0..(Len(source) - 1)
        PROVE  k \in out <=> i < k /\ \A j \in (i + 1)..k : hidden(j)
    <3>1. CASE i + 1 = Len(source)
      BY <1>3, <2>1, <2>4, <2>5, <3>1
    <3>2. CASE i + 1 < Len(source)
      <4>1. i + 1 <= to /\ (\A m \in (i + 1)..(to - 1) : hidden(m)) /\ ~hidden(to)
        <5>1. \A m \in (i + 1)..(to - 1) : m \in 0..(Len(source) - 1)
          BY <1>3, <2>1, <2>4
        <5> QED BY <2>4, <2>7, <3>2, <5>1
      <4>2. ASSUME k \in out PROVE i < k /\ \A j \in (i + 1)..k : hidden(j)
        BY <2>1, <2>4, <2>5, <4>1, <4>2
      <4>3. ASSUME i < k, \A j \in (i + 1)..k : hidden(j) PROVE k \in out
        <5>1. k < to
          BY <2>1, <2>4, <4>1, <4>3
        <5> QED BY <2>1, <2>4, <2>5, <4>1, <4>3, <5>1
      <4> QED BY <4>2, <4>3
    <3> QED BY <1>3, <2>1, <3>1, <3>2
  <2> QED BY <2>6, <2>8 DEF HiddenRightCorrect
<1> QED BY <1>5, <1>6

(* getHiddenTokensToRight(i) is every comment between token i and the next *)
(* token of the default channel, whatever was fetched before.              *)
THEOREM StreamHiddenRightCorrect == Spec => []HiddenRightCorrect
<1>1. Init => HiddenRightCorrect
  BY DEF Init, HiddenRightCorrect
<1>2. ASSUME IInv, HiddenRightCorrect, [Next]_vars PROVE HiddenRightCorrect'
  <2>1. CASE UNCHANGED vars
    BY <1>2, <2>1 DEF HiddenRightCorrect, vars
  <2>2. CASE Next
    <3>1. CASE ret'.op = "hiddenRight"
      BY <1>2, <2>2, <3>1, CallOf, HiddenRightAnswers, Zenon
    <3>2. CASE ret'.op # "hiddenRight"
      BY <3>2 DEF HiddenRightCorrect
    <3> QED BY <3>1, <3>2
  <2> QED BY <1>2, <2>1, <2>2
<1> QED BY <1>1, <1>2, StreamInvariant, PTL DEF Spec

(* previousTokenOnChannel(i) is the last token up to i that shows, and     *)
(* index 0 when there is none.                                             *)
LEMMA PrevOnChannelOfPrefix ==
  ASSUME source \in Sources, NEW n \in 1..Len(source), NEW i \in 0..(n - 1), NEW ch
  PROVE  LET j == PrevOnChannel(Prefix(n), i, ch)
         IN /\ j \in 0..i
            /\ Shows(source[j + 1], ch) \/ j = 0
            /\ \A m \in (j + 1)..i : ~Shows(source[m + 1], ch)
<1> DEFINE b == Prefix(n)
           good == {j \in 0..i : b.tokens[j + 1].channel = ch \/ IsEOF(b.tokens[j + 1])}
           shown == {j \in 0..i : Shows(source[j + 1], ch)}
           last == CHOOSE j \in shown : \A m \in shown : m <= j
<1>1. n \in Nat /\ n > 0 /\ i \in Nat /\ i < n
  BY SourceFacts
<1>2. Size(b) = n /\ \A j \in 1..n : b.tokens[j] = Stamp(source[j], j - 1)
  BY <1>1, PrefixFields, Zenon
<1> HIDE DEF b
<1>3. good = shown
  <2>1. ASSUME NEW j \in 0..i
        PROVE  Shows(b.tokens[j + 1], ch) <=> Shows(source[j + 1], ch)
    <3>1. j + 1 \in 1..n
      BY <1>1
    <3>2. b.tokens[j + 1] = Stamp(source[j + 1], j + 1 - 1)
      BY <1>2, <3>1
    <3> QED BY <3>2, ShowsStamp
  <2> QED BY <2>1 DEF Shows
<1>4. PrevOnChannel(b, i, ch) = IF shown = {} THEN 0 ELSE last
  <2>1. PrevOnChannel(b, i, ch) =
          IF i >= n THEN n - 1
          ELSE IF good = {} THEN 0
          ELSE CHOOSE j \in good : \A m \in good : m <= j
    BY <1>2 DEF PrevOnChannel
  <2> HIDE DEF good, shown
  <2> QED BY <1>1, <1>3, <2>1
<1>5. shown # {} => last \in shown /\ \A m \in shown : m <= last
  <2>1. shown \in SUBSET (0..i)
    OBVIOUS
  <2> HIDE DEF shown
  <2>2. shown # {} => \E j \in shown : \A m \in shown : m <= j
    BY <1>1, <2>1, Greatest
  <2> QED BY <2>2
<1> HIDE DEF last
<1>6. CASE shown = {}
  <2>1. \A m \in 0..i : ~Shows(source[m + 1], ch)
    BY <1>6
  <2>2. PrevOnChannel(b, i, ch) = 0
    BY <1>4, <1>6
  <2>3. \A m \in (0 + 1)..i : m \in 0..i
    OBVIOUS
  <2> HIDE DEF shown
  <2> QED BY <1>1, <2>1, <2>2, <2>3 DEF b
<1>7. CASE shown # {}
  <2>1. last \in 0..i /\ Shows(source[last + 1], ch) /\ \A m \in shown : m <= last
    BY <1>5, <1>7
  <2>2. \A m \in (last + 1)..i : ~Shows(source[m + 1], ch)
    <3> SUFFICES ASSUME NEW m \in (last + 1)..i, Shows(source[m + 1], ch) PROVE FALSE
      OBVIOUS
    <3>1. m \in shown
      BY <2>1
    <3> QED BY <2>1, <3>1
  <2> QED BY <1>4, <1>7, <2>1, <2>2 DEF b
<1> QED BY <1>6, <1>7

(* getHiddenTokensToLeft finds every comment back to the last token of the *)
(* default channel; index 0, which it starts after, is no comment of it.   *)
LEMMA HiddenLeftAnswers ==
  ASSUME IInv, NEW i \in 0..Len(source), HiddenLeft(i)
  PROVE  HiddenLeftCorrect'
<1>1. source \in Sources /\ Ready \in Stream
  BY ReadyIsStream DEF IInv, TypeOK
<1>2. PICK n \in 0..Len(source), c \in 0..(Len(source) - 1) :
        Ready.b = Prefix(n) /\ Ready.p = c /\ c < n
  BY <1>1, StreamFacts, Zenon
<1>3. n \in Nat /\ n \in 1..Len(source) /\ Len(source) \in Nat /\ i \in Nat
  BY <1>1, <1>2, SourceFacts
<1>4. Size(Ready.b) = n
  BY <1>2, <1>3, PrefixFields, Zenon
<1> DEFINE prev == PrevOnChannel(Prefix(n), i - 1, DefaultChannel)
           out == IF i = 0 \/ prev = i - 1 THEN {} ELSE Hidden(Prefix(n), prev + 1, i - 1)
           hidden(j) == source[j + 1].channel # DefaultChannel
<1>5. CASE i >= n
  BY <1>4, <1>5 DEF HiddenLeft, Throw, HiddenLeftCorrect
<1>6. CASE ~(i >= n)
  <2>1. Become(Ready) /\ Return("hiddenLeft", i, out)
    BY <1>2, <1>4, <1>6 DEF HiddenLeft
  <2>2. source' = source /\ ret'.op = "hiddenLeft" /\ ret'.arg = i /\ ret'.out = out
    BY <2>1 DEF Become, Return
  <2>3. ASSUME NEW k \in 0..(Len(source) - 1)
        PROVE  k \in out <=> 0 < k /\ k < i /\ \A j \in k..(i - 1) : hidden(j)
    <3>1. CASE i = 0
      BY <3>1
    <3>2. CASE i # 0
      <4>1. i - 1 \in 0..(n - 1)
        BY <1>3, <1>6, <3>2
      <4>2. \A j \in 0..(i - 1) : Shows(source[j + 1], DefaultChannel) <=> ~hidden(j)
        <5>1. \A j \in 0..(i - 1) : j \in 0..(Len(source) - 1)
          BY <1>3, <1>6
        <5> QED BY <1>1, <5>1, HiddenShows
      <4>3. /\ prev \in 0..(i - 1)
            /\ ~hidden(prev) \/ prev = 0
            /\ \A m \in (prev + 1)..(i - 1) : hidden(m)
        <5>1. /\ prev \in 0..(i - 1)
              /\ Shows(source[prev + 1], DefaultChannel) \/ prev = 0
              /\ \A m \in (prev + 1)..(i - 1) : ~Shows(source[m + 1], DefaultChannel)
          BY <1>1, <1>3, <4>1, PrevOnChannelOfPrefix
        <5> HIDE DEF prev
        <5> QED BY <4>2, <5>1
      <4> HIDE DEF prev
      <4>4. out = {j \in (prev + 1)..(i - 1) : hidden(j)}
        <5>1. CASE prev = i - 1
          BY <3>2, <4>3, <5>1
        <5>2. CASE prev # i - 1
          <6>1. prev + 1 \in Nat /\ i - 1 \in Int /\ i - 1 < n /\ n \in 0..Len(source)
            BY <1>3, <1>6, <4>3
          <6>2. Hidden(Prefix(n), prev + 1, i - 1) = {j \in (prev + 1)..(i - 1) : hidden(j)}
            BY <1>1, <6>1, HiddenOfPrefix
          <6> QED BY <3>2, <5>2, <6>2
        <5> QED BY <5>1, <5>2
      <4> HIDE DEF out
      <4>5. ASSUME k \in out PROVE 0 < k /\ k < i /\ \A j \in k..(i - 1) : hidden(j)
        BY <1>3, <4>3, <4>4, <4>5
      <4>6. ASSUME 0 < k, k < i, \A j \in k..(i - 1) : hidden(j) PROVE k \in out
        <5>1. prev < k
          BY <1>3, <4>3, <4>6
        <5> QED BY <1>3, <4>3, <4>4, <4>6, <5>1
      <4> QED BY <4>5, <4>6
    <3> QED BY <3>1, <3>2
  <2> HIDE DEF out
  <2> QED BY <2>2, <2>3 DEF HiddenLeftCorrect
<1> QED BY <1>5, <1>6

(* getHiddenTokensToLeft(i) is every comment between the token of the      *)
(* default channel before token i and token i, but for index 0.            *)
THEOREM StreamHiddenLeftCorrect == Spec => []HiddenLeftCorrect
<1>1. Init => HiddenLeftCorrect
  BY DEF Init, HiddenLeftCorrect
<1>2. ASSUME IInv, HiddenLeftCorrect, [Next]_vars PROVE HiddenLeftCorrect'
  <2>1. CASE UNCHANGED vars
    BY <1>2, <2>1 DEF HiddenLeftCorrect, vars
  <2>2. CASE Next
    <3>1. CASE ret'.op = "hiddenLeft"
      BY <1>2, <2>2, <3>1, CallOf, HiddenLeftAnswers, Zenon
    <3>2. CASE ret'.op # "hiddenLeft"
      BY <3>2 DEF HiddenLeftCorrect
    <3> QED BY <3>1, <3>2
  <2> QED BY <1>2, <2>1, <2>2
<1> QED BY <1>1, <1>2, StreamInvariant, PTL DEF Spec

-----------------------------------------------------------------------------
(* What holds at the start of a walk and after every step of it holds at   *)
(* its end.                                                                *)
LEMMA UpTo ==
  ASSUME NEW k \in Nat, NEW G, 0 \in G,
         \A n \in 1..k : n - 1 \in G => n \in G
  PROVE  k \in G
<1> DEFINE Bad == {n \in 0..k : n \notin G}
<1>1. SUFFICES ASSUME Bad # {} PROVE FALSE
  BY k \in 0..k
<1>2. PICK j \in Bad : \A m \in Bad : j <= m
  <2>1. Bad \in SUBSET Nat
    OBVIOUS
  <2> HIDE DEF Bad
  <2> QED BY <1>1, <2>1, Least
<1>3. j \in 1..k /\ j - 1 \in 0..k
  BY <1>2
<1> QED BY <1>2, <1>3

LEMMA ShownFacts ==
  ASSUME NEW from \in Int, NEW to \in Int
  PROVE  /\ Shown(from, to) \subseteq from..to
         /\ IsFiniteSet(Shown(from, to))
         /\ Cardinality(Shown(from, to)) \in Nat
<1>1. Shown(from, to) \in SUBSET (from..to)
  BY DEF Shown
<1>2. IsFiniteSet(from..to)
  BY FS_Interval
<1> QED BY <1>1, <1>2, FS_Subset, FS_CardinalityType

(* The next visible token is one more. *)
LEMMA ShownNext ==
  ASSUME source \in Sources, NEW c \in Nat, NEW x \in 0..(Len(source) - 2), c <= x,
         NEW y, C!IsFirst(source, x + 1, y)
  PROVE  /\ y \in (x + 1)..(Len(source) - 1)
         /\ Cardinality(Shown(c, y)) = Cardinality(Shown(c, x)) + 1
<1>1. Len(source) \in Nat
  BY SourceFacts
<1>2. /\ y \in (x + 1)..(Len(source) - 1)
      /\ Visible(source[y + 1])
      /\ \A m \in (x + 1)..(y - 1) : ~Visible(source[m + 1])
  BY <1>1, SameVisible DEF C!IsFirst
<1>3. Shown(c, y) = Shown(c, x) \union {y}
  <2>1. ASSUME NEW m \in Shown(c, y) PROVE m \in Shown(c, x) \union {y}
    <3>1. m \in c..y /\ m < Len(source) /\ Visible(source[m + 1])
      BY DEF Shown
    <3>2. m \notin (x + 1)..(y - 1)
      BY <1>2, <3>1
    <3> QED BY <1>2, <3>1, <3>2 DEF Shown
  <2>2. ASSUME NEW m \in Shown(c, x) PROVE m \in Shown(c, y)
    BY <1>2 DEF Shown
  <2>3. y \in Shown(c, y)
    BY <1>1, <1>2 DEF Shown
  <2> QED BY <2>1, <2>2, <2>3
<1>4. y \notin Shown(c, x) /\ IsFiniteSet(Shown(c, x))
  <2>1. c \in Int /\ x \in Int
    BY <1>1
  <2>2. Shown(c, x) \subseteq c..x /\ IsFiniteSet(Shown(c, x))
    BY <2>1, ShownFacts
  <2> QED BY <1>2, <2>2
<1> QED BY <1>2, <1>3, <1>4, FS_AddElement

(* LT(k) counts k tokens off, or comes to rest at EOF before that. *)
LEMMA AheadCounts ==
  ASSUME source \in Sources, NEW s \in Stream, NEW k \in Nat \ {0}
  PROVE  \/ Cardinality(Shown(s.p, Ahead(s, k).p)) = k
         \/ Ahead(s, k).p = Len(source) - 1 /\ Cardinality(Shown(s.p, Ahead(s, k).p)) < k
<1>1. PICK f : /\ f[0] = s
               /\ \A n \in 1..(k - 1) : f[n] = Skip(f[n - 1])
               /\ Ahead(s, k) = f[k - 1]
  BY AheadIsWalk, Zenon
<1>2. PICK c \in 0..(Len(source) - 1) : s.p = c /\ Visible(source[c + 1])
  BY StreamFacts, Zenon
<1>3. Len(source) \in Nat /\ c \in Nat
  BY SourceFacts
<1> DEFINE count(n) == Cardinality(Shown(c, f[n].p))
           Counted == {n \in 0..(k - 1) : /\ f[n] \in Stream
                                          /\ c <= f[n].p
                                          /\ \/ count(n) = n + 1
                                             \/ f[n].p = Len(source) - 1 /\ count(n) < n + 1}
<1>4. 0 \in Counted
  <2>1. Shown(c, c) = {c}
    BY <1>2, <1>3 DEF Shown
  <2>2. Cardinality(Shown(c, c)) = 1
    BY <2>1, FS_Singleton
  <2> QED BY <1>1, <1>2, <1>3, <2>2
<1>5. ASSUME NEW n \in 1..(k - 1), n - 1 \in Counted PROVE n \in Counted
  <2> DEFINE before == f[n - 1]
             after == f[n]
             was == Cardinality(Shown(c, before.p))
             is == Cardinality(Shown(c, after.p))
  <2>1. /\ before \in Stream /\ c <= before.p
        /\ was = n \/ (before.p = Len(source) - 1 /\ was < n)
    BY <1>5
  <2>2. after = Skip(before)
    BY <1>1
  <2> HIDE DEF before, after
  <2>3. PICK x \in 0..(Len(source) - 1) : before.p = x
    BY <2>1, StreamFacts, Zenon
  <2>4. after \in Stream
    BY <2>1, <2>2, SkipOfStream
  <2>5. CASE x < Len(source) - 1
    <3>1. C!IsFirst(source, x + 1, after.p) /\ x \in 0..(Len(source) - 2)
      BY <1>3, <2>1, <2>2, <2>3, <2>5, SkipOfStream
    <3>2. after.p \in (x + 1)..(Len(source) - 1) /\ is = was + 1
      BY <1>3, <2>1, <2>3, <3>1, ShownNext
    <3>3. was = n
      BY <2>1, <2>3, <2>5
    <3> HIDE DEF was, is
    <3>4. is = n + 1 /\ c <= after.p
      BY <1>3, <2>1, <2>3, <3>2, <3>3
    <3> QED BY <2>4, <3>4 DEF after, is
  <2>6. CASE x = Len(source) - 1
    <3>1. after.p = before.p
      BY <2>1, <2>2, <2>3, <2>6, SkipOfStream
    <3>2. is = was /\ after.p = Len(source) - 1 /\ c <= after.p
      BY <2>1, <2>3, <2>6, <3>1
    <3>3. was \in Nat
      <4>1. c \in Int /\ x \in Int
        BY <1>3
      <4>2. Cardinality(Shown(c, x)) \in Nat
        BY <4>1, ShownFacts
      <4> QED BY <2>3, <4>2
    <3> HIDE DEF was, is
    <3>4. is < n + 1
      BY <2>1, <3>2, <3>3
    <3> QED BY <2>4, <3>2, <3>4 DEF after, is
  <2> QED BY <1>3, <2>5, <2>6
<1>6. k - 1 \in Counted
  <2> HIDE DEF Counted
  <2> QED BY <1>4, <1>5, UpTo
<1>7. k - 1 + 1 = k
  OBVIOUS
<1> QED BY <1>1, <1>2, <1>6, <1>7

LEMMA LTAnswers ==
  ASSUME IInv, NEW k \in 1..MaxLook, LT(k)
  PROVE  LookaheadCorrect'
<1>1. source \in Sources /\ Ready \in Stream /\ k \in Nat \ {0}
  BY ReadyIsStream, BoundsAssumption DEF IInv, TypeOK
<1> DEFINE s == Ahead(Ready, k)
<1>2. s \in Stream
  BY <1>1, AheadOfStream DEF Onward
<1>3. \/ Cardinality(Shown(Ready.p, s.p)) = k
      \/ s.p = Len(source) - 1 /\ Cardinality(Shown(Ready.p, s.p)) < k
  BY <1>1, AheadCounts
<1>4. Become([b |-> s.b, p |-> Ready.p]) /\ Return("LT", k, {s.p})
  BY DEF LT
<1> HIDE DEF s
<1>5. PICK n \in 0..Len(source), i \in 0..(Len(source) - 1) :
        s.b = Prefix(n) /\ s.p = i /\ i < n /\ Visible(source[i + 1])
  BY <1>1, <1>2, StreamFacts, Zenon
<1>6. n \in Nat /\ i + 1 \in 1..n /\ Len(source) \in Nat \ {0} /\ i \in Nat
  BY <1>1, <1>5, SourceFacts
<1>7. /\ buffer' = Prefix(n) /\ p' = Ready.p /\ source' = source
      /\ ret'.op = "LT" /\ ret'.arg = k /\ ret'.out = {i}
  BY <1>4, <1>5 DEF Become, Return
<1>8. Size(Prefix(n)) = n /\ Visible(Prefix(n).tokens[i + 1])
  <2>1. /\ Size(Prefix(n)) = n
        /\ \A j \in 1..n : Prefix(n).tokens[j] = Stamp(source[j], j - 1)
    BY <1>6, PrefixFields, Zenon
  <2>2. Prefix(n).tokens[i + 1] = Stamp(source[i + 1], i + 1 - 1)
    BY <1>6, <2>1
  <2>3. Visible(Stamp(source[i + 1], i + 1 - 1))
    BY <1>5, ShowsStamp
  <2> QED BY <2>1, <2>2, <2>3
<1>9. i = Len(source) - 1 => IsEOF(source[i + 1])
  BY <1>1, <1>6, SourceFacts
<1>10. \/ Cardinality(Shown(p, i)') = k
       \/ IsEOF(source[i + 1]) /\ Cardinality(Shown(p, i)') < k
  <2>1. Shown(p, i)' = Shown(Ready.p, i)
    BY <1>7 DEF Shown, Visible
  <2> QED BY <1>3, <1>5, <1>9, <2>1
<1>11. i < Size(buffer)' /\ Visible(buffer.tokens[i + 1])'
  BY <1>6, <1>7, <1>8 DEF Size, Visible
<1>12. IsEOF(source[i + 1])' = IsEOF(source[i + 1])
  BY <1>7 DEF IsEOF
<1> QED BY <1>7, <1>10, <1>11, <1>12 DEF LookaheadCorrect

(* LT(k) is the k-th visible token counting the current one, or EOF when   *)
(* there are not so many, for every distance.                              *)
THEOREM StreamLookaheadCorrect == Spec => []LookaheadCorrect
<1>1. Init => LookaheadCorrect
  BY DEF Init, LookaheadCorrect
<1>2. ASSUME IInv, LookaheadCorrect, [Next]_vars PROVE LookaheadCorrect'
  <2>1. CASE UNCHANGED vars
    BY <1>2, <2>1 DEF LookaheadCorrect, vars, Size, Visible, Shown
  <2>2. CASE Next
    <3>1. CASE ret'.op = "LT"
      BY <1>2, <2>2, <3>1, CallOf, LTAnswers, Zenon
    <3>2. CASE ret'.op # "LT"
      BY <3>2 DEF LookaheadCorrect
    <3> QED BY <3>1, <3>2
  <2> QED BY <1>2, <2>1, <2>2
<1> QED BY <1>1, <1>2, StreamInvariant, PTL DEF Spec

-----------------------------------------------------------------------------
(* One more token back: as long as there is a visible token before x, the  *)
(* search from x - 1 finds the last of them.                               *)
LEMMA ShownBefore ==
  ASSUME source \in Sources, NEW n \in 1..Len(source), NEW c \in 0..(n - 1),
         NEW x \in 0..c, Shown(0, c - 1) # Shown(x, c - 1)
  PROVE  LET y == PrevOnChannel(Prefix(n), Wrap(x - 1), Channel)
         IN /\ y \in 0..(x - 1)
            /\ Visible(source[y + 1])
            /\ Cardinality(Shown(y, c - 1)) = Cardinality(Shown(x, c - 1)) + 1
<1> DEFINE y == PrevOnChannel(Prefix(n), x - 1, Channel)
<1>1. /\ n \in Nat /\ c \in Nat /\ c < n /\ x \in Nat /\ x <= c
      /\ Len(source) \in Nat /\ n <= Len(source)
      /\ Len(source) + 1 < WordSize /\ WordSize \in Nat
  BY SourceFacts, BoundsAssumption
<1>2. PICK z \in 0..(x - 1) : Visible(source[z + 1])
  <2>1. Shown(x, c - 1) \subseteq Shown(0, c - 1)
    BY <1>1 DEF Shown
  <2>2. PICK z \in Shown(0, c - 1) : z \notin Shown(x, c - 1)
    BY <2>1
  <2>3. z \in 0..(x - 1) /\ Visible(source[z + 1])
    BY <1>1, <2>2 DEF Shown
  <2> QED BY <2>3
<1>3. x - 1 \in 0..(n - 1) /\ x - 1 \in 0..(WordSize - 1)
  BY <1>1, <1>2
<1>4. Wrap(x - 1) = x - 1
  BY <1>3, WrapSmall
<1>5. /\ y \in 0..(x - 1)
      /\ Shows(source[y + 1], Channel) \/ y = 0
      /\ \A m \in (y + 1)..(x - 1) : ~Shows(source[m + 1], Channel)
  BY <1>3, PrevOnChannelOfPrefix
<1> HIDE DEF y
<1>6. Visible(source[y + 1]) /\ \A m \in (y + 1)..(x - 1) : ~Visible(source[m + 1])
  <2>1. \A m : Visible(source[m + 1]) <=> Shows(source[m + 1], Channel)
    BY ShowsStamp
  <2>2. z <= y
    <3> SUFFICES ASSUME ~(z <= y) PROVE FALSE
      OBVIOUS
    <3>1. z \in (y + 1)..(x - 1)
      BY <1>1, <1>2, <1>5
    <3> QED BY <1>2, <1>5, <2>1, <3>1
  <2>3. y = 0 => z = y
    BY <1>2, <2>2
  <2> QED BY <1>2, <1>5, <2>1, <2>3
<1>7. Shown(y, c - 1) = Shown(x, c - 1) \union {y}
  <2>1. ASSUME NEW m \in Shown(y, c - 1) PROVE m \in Shown(x, c - 1) \union {y}
    <3>1. m \in y..(c - 1) /\ m < Len(source) /\ Visible(source[m + 1])
      BY DEF Shown
    <3>2. m \notin (y + 1)..(x - 1)
      BY <1>6, <3>1
    <3> QED BY <1>1, <1>5, <3>1, <3>2 DEF Shown
  <2>2. ASSUME NEW m \in Shown(x, c - 1) PROVE m \in Shown(y, c - 1)
    BY <1>1, <1>5 DEF Shown
  <2>3. y \in Shown(y, c - 1)
    BY <1>1, <1>5, <1>6 DEF Shown
  <2> QED BY <2>1, <2>2, <2>3
<1>8. y \notin Shown(x, c - 1) /\ IsFiniteSet(Shown(x, c - 1))
  <2>1. x \in Int /\ c - 1 \in Int
    BY <1>1
  <2>2. Shown(x, c - 1) \subseteq x..(c - 1) /\ IsFiniteSet(Shown(x, c - 1))
    BY <2>1, ShownFacts
  <2> QED BY <1>1, <1>5, <2>2
<1>9. Cardinality(Shown(y, c - 1)) = Cardinality(Shown(x, c - 1)) + 1
  BY <1>7, <1>8, FS_AddElement
<1> QED BY <1>4, <1>5, <1>6, <1>9 DEF y

(* LB(k) counts k tokens back when there are so many. *)
LEMMA BehindCounts ==
  ASSUME source \in Sources, NEW s \in Stream, NEW k \in Nat \ {0},
         Cardinality(Shown(0, s.p - 1)) >= k
  PROVE  /\ k <= s.p
         /\ Behind(s, k) \in 0..(s.p - 1)
         /\ Visible(source[Behind(s, k) + 1])
         /\ Cardinality(Shown(Behind(s, k), s.p - 1)) = k
<1>1. PICK f : /\ f[0] = s.p
               /\ \A m \in 1..k : f[m] = PrevOnChannel(s.b, Wrap(f[m - 1] - 1), Channel)
               /\ Behind(s, k) = f[k]
  BY BehindIsWalk, Zenon
<1>2. PICK n \in 0..Len(source), c \in 0..(Len(source) - 1) :
        s.b = Prefix(n) /\ s.p = c /\ c < n
  BY StreamFacts, Zenon
<1>3. n \in 1..Len(source) /\ c \in 0..(n - 1) /\ c \in Nat /\ c - 1 \in Int
  BY <1>2, SourceFacts
<1>4. k <= c
  <2>1. Shown(0, c - 1) \in SUBSET (0..(c - 1))
    BY DEF Shown
  <2>2. IsFiniteSet(0..(c - 1)) /\ Cardinality(0..(c - 1)) = c
    <3>1. 0 \in Int /\ c - 1 \in Int
      BY <1>3
    <3>2. IsFiniteSet(0..(c - 1))
          /\ Cardinality(0..(c - 1)) = IF 0 > c - 1 THEN 0 ELSE c - 1 - 0 + 1
      BY <3>1, FS_Interval
    <3> QED BY <1>3, <3>2
  <2>3. Cardinality(Shown(0, c - 1)) <= c
    BY <2>1, <2>2, FS_Subset
  <2>4. Cardinality(Shown(0, c - 1)) \in Nat /\ Cardinality(Shown(0, c - 1)) >= k
    BY <1>2, <1>3, ShownFacts
  <2> QED BY <1>3, <2>3, <2>4
<1> DEFINE count(m) == Cardinality(Shown(f[m], c - 1))
           Counted == {m \in 0..k : /\ f[m] \in 0..c
                                    /\ count(m) = m
                                    /\ m > 0 => f[m] < c /\ Visible(source[f[m] + 1])}
<1>5. 0 \in Counted
  <2>1. Shown(c, c - 1) = {}
    BY <1>3 DEF Shown
  <2>2. Cardinality(Shown(c, c - 1)) = 0
    BY <2>1, FS_EmptySet
  <2> QED BY <1>1, <1>2, <1>3, <2>2
<1>6. ASSUME NEW m \in 1..k, m - 1 \in Counted PROVE m \in Counted
  <2> DEFINE x == f[m - 1]
             y == f[m]
  <2>1. x \in 0..c /\ Cardinality(Shown(x, c - 1)) = m - 1
    BY <1>6
  <2>2. y = PrevOnChannel(Prefix(n), Wrap(x - 1), Channel)
    BY <1>1, <1>2
  <2> HIDE DEF x, y
  <2>3. Shown(0, c - 1) # Shown(x, c - 1)
    <3>1. Cardinality(Shown(0, c - 1)) >= k
      BY <1>2
    <3> QED BY <2>1, <3>1
  <2>4. /\ y \in 0..(x - 1) /\ Visible(source[y + 1])
        /\ Cardinality(Shown(y, c - 1)) = Cardinality(Shown(x, c - 1)) + 1
    BY <1>3, <2>1, <2>2, <2>3, ShownBefore
  <2>5. y \in 0..c /\ y < c /\ Cardinality(Shown(y, c - 1)) = m
    BY <1>3, <2>1, <2>4
  <2> QED BY <2>4, <2>5 DEF y
<1>7. k \in Counted
  <2> HIDE DEF Counted
  <2> QED BY <1>5, <1>6, UpTo
<1> QED BY <1>1, <1>2, <1>3, <1>4, <1>7

LEMMA LBAnswers ==
  ASSUME IInv, NEW k \in 1..MaxLook, LB(k)
  PROVE  LookbehindCorrect'
<1>1. source \in Sources /\ Ready \in Stream /\ k \in Nat \ {0}
  BY ReadyIsStream, BoundsAssumption DEF IInv, TypeOK
<1>2. PICK c \in Nat : c = Ready.p
  <2>1. PICK j \in 0..(Len(source) - 1) : Ready.p = j
    BY <1>1, StreamFacts, Zenon
  <2> QED BY <2>1
<1>3. PICK i : i = Behind(Ready, k)
  OBVIOUS
<1>4. Cardinality(Shown(0, c - 1)) >= k =>
        /\ k <= c /\ i \in 0..(c - 1) /\ Visible(source[i + 1])
        /\ Cardinality(Shown(i, c - 1)) = k
  BY <1>1, <1>2, <1>3, BehindCounts
<1>5. Become(Ready) /\ Return("LB", k, IF k = 0 \/ k > c THEN {} ELSE {i})
  BY <1>2, <1>3 DEF LB
<1>6. /\ p' = c /\ source' = source /\ ret'.arg = k
      /\ ret'.out = IF k = 0 \/ k > c THEN {} ELSE {i}
  BY <1>2, <1>5 DEF Become, Return
<1>7. /\ Shown(0, p - 1)' = Shown(0, c - 1) /\ Shown(i, p - 1)' = Shown(i, c - 1)
      /\ Visible(source[i + 1])' = Visible(source[i + 1])
  BY <1>6 DEF Shown, Visible, IsEOF
<1>8. CASE Cardinality(Shown(0, c - 1)) >= k
  <2>1. /\ k <= c /\ i \in 0..(c - 1) /\ Visible(source[i + 1])
        /\ Cardinality(Shown(i, c - 1)) = k
    BY <1>4, <1>8
  <2>2. ret'.out = {i} /\ i < p'
    BY <1>1, <1>2, <1>6, <2>1
  <2> QED BY <1>6, <1>7, <2>1, <2>2 DEF LookbehindCorrect
<1>9. CASE ~(Cardinality(Shown(0, c - 1)) >= k)
  BY <1>6, <1>7, <1>9 DEF LookbehindCorrect
<1> QED BY <1>8, <1>9

(* LB(k) is the k-th visible token before the current one whenever there   *)
(* are that many, for every distance.                                      *)
THEOREM StreamLookbehindCorrect == Spec => []LookbehindCorrect
<1>1. Init => LookbehindCorrect
  BY DEF Init, LookbehindCorrect
<1>2. ASSUME IInv, LookbehindCorrect, [Next]_vars PROVE LookbehindCorrect'
  <2>1. CASE UNCHANGED vars
    BY <1>2, <2>1 DEF LookbehindCorrect, vars, Visible, Shown
  <2>2. CASE Next
    <3>1. CASE ret'.op = "LB"
      BY <1>2, <2>2, <3>1, CallOf, LBAnswers, Zenon
    <3>2. CASE ret'.op # "LB"
      BY <3>2 DEF LookbehindCorrect
    <3> QED BY <3>1, <3>2
  <2> QED BY <1>2, <2>1, <2>2
<1> QED BY <1>1, <1>2, StreamInvariant, PTL DEF Spec
=============================================================================
